-------------------------- MODULE MC_EndpointStaging --------------------------
(* A payload rendered from text and one from the policy's controls, for    *)
(* two clients; a topic revision that changes everything, and an accepted  *)
(* one on main; an endpoint of both clients.                               *)
EXTENDS EndpointStaging

CONSTANTS r1, r2, t1, t2

MCCodexFiles == <<"codex/AGENTS.md">>

MCClaudeFiles == <<"claude/managed-settings.json">>

MCFromText == {"codex/AGENTS.md"}

Accepted ==
    [id |-> "baseline", version |-> 1, controls |-> "strict", status |-> "accepted",
     classes |-> {"developer"}, endpoints |-> {"e"},
     surfaces |-> {"codex", "claude-code"}, blocked_by |-> {}, managed |-> TRUE,
     repository |-> "governance", default_branch |-> "main"]

Proposed == [Accepted EXCEPT !.controls = "loose", !.status = "proposed"]

MCTree ==
    [r \in Rev |->
        IF r = r1 THEN [policy |-> Accepted, text |-> t1, adr |-> "accepted"]
        ELSE [policy |-> Proposed, text |-> t2, adr |-> "proposed"]]

MCBranchOf == [r \in Rev |-> IF r = r1 THEN "main" ELSE "topic"]

Both == [id |-> "e", class |-> "developer", policy |-> "baseline",
         surfaces |-> {"codex", "claude-code"}]

MCEnrollment == {Both}

OneEdit == {[policy |-> Accepted, text |-> t2, adr |-> "accepted"]}

MCEditTo ==
    OneEdit \cup
    {[policy |-> Proposed, text |-> Missing, adr |-> "none"]}

=============================================================================
