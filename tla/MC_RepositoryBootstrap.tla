------------------------ MODULE MC_RepositoryBootstrap ------------------------
(* Two versions of a managed profile and one of a profile that validates;  *)
(* bodies written by hand, by the generator, half of one, not UTF-8.       *)
EXTENDS RepositoryBootstrap, TLC

CONSTANTS a1, a2, c1, c2, half, own, ownClaude, binary

Plain(lines, generated) ==
    [utf8 |-> TRUE, lines |-> lines, generated |-> generated, secret |-> FALSE,
     first |-> "@AGENTS.md", rules |-> {}, size |-> 2]

MCFacts ==
    (a1 :> [Plain({"# Guidance"}, TRUE) EXCEPT !.rules = {"long rule"}]) @@
    (a2 :> Plain({"# Guidance"}, TRUE)) @@
    (c1 :> Plain({"# Additions"}, TRUE)) @@
    (c2 :> Plain({"# Additions", "long rule"}, TRUE)) @@
    (half :> [Plain({}, TRUE) EXCEPT !.first = "none"]) @@
    (own :> [Plain({"# Guidance"}, FALSE) EXCEPT !.size = 5]) @@
    (ownClaude :> [Plain({"# Additions"}, FALSE) EXCEPT !.secret = TRUE]) @@
    (binary :> [Plain({}, FALSE) EXCEPT !.utf8 = FALSE]) @@
    (Empty :> [Plain({}, FALSE) EXCEPT !.first = "none", !.size = 0])

Managed ==
    [status |-> "accepted", render_mode |-> "managed", warn |-> 5, max |-> 6,
     markers |-> [f \in Role |-> IF f = "agents" THEN {"# Guidance"} ELSE {"# Additions"}],
     import |-> "@AGENTS.md", sources |-> {"docs"}, commands |-> {"make check"},
     surfaces |-> Surfaces, additions |-> {"one"}, rollout |-> "pilot",
     classes |-> {"ci-runner"}, managed |-> FALSE, blocked_by |-> {},
     render |-> [f \in Role |-> IF f = "agents" THEN a1 ELSE c1]]

MCProfile ==
    {Managed,
     [Managed EXCEPT !.render = [f \in Role |-> IF f = "agents" THEN a2 ELSE c2]],
     [Managed EXCEPT !.render_mode = "validate"],
     [Managed EXCEPT !.rollout = "managed", !.managed = TRUE, !.status = "proposed"],
     [Managed EXCEPT !.additions = {}],
     Malformed}

Good == [origin |-> "same", adr |-> "accepted", paths |-> {"docs"}, runnable |-> {"make check"}]

MCRepository ==
    {Good, [origin |-> "unreadable", adr |-> NoFile, paths |-> {}, runnable |-> {}]}

MCLeftIn ==
    [f \in {"agents", "claude"} |->
        IF f = "agents" THEN {NoFile, a1, half, own}
        ELSE {NoFile, c1, ownClaude, binary}]

=============================================================================
