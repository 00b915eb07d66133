-------------------------- MODULE RepositoryBootstrap --------------------------
(***************************************************************************)
(* dotmac-agent verify and bootstrap in one repository: a profile, the two *)
(* instruction files it projects, and the conformance engine that judges   *)
(* them.  bootstrap loads the profile, projects AGENTS.md, then CLAUDE.md, *)
(* and verifies with the profile it loads again.  People edit files and    *)
(* profile at any time, and the command may be killed at any step.         *)
(*                                                                         *)
(* An instruction file is a body; Facts says of a body what the engine can *)
(* see in it.                                                              *)
(***************************************************************************)
EXTENDS Naturals, FiniteSets

CONSTANTS
    Body,        \* contents of an instruction file
    Facts,       \* Facts[b]: what the engine sees in b
    NoFile,      \* no file
    Empty,       \* the body of a file opened for writing
    Profile,     \* the profile files people write
    Malformed,   \* a profile that is no JSON object of the closed schema
    Repository,  \* what else verify looks at: origin, ADR, paths, templates
    LeftIn,      \* LeftIn[f]: bodies people leave in file f, or NoFile
    Role,        \* the instruction files: "agents" and "claude"
    NoProfile    \* the command has loaded no profile

Surfaces == {"codex", "claude-code"}
Classes == {"developer-workstation", "ci-runner"}

ASSUME BootstrapAssumption ==
    /\ Role = {"agents", "claude"}
    /\ Empty \in Body /\ NoFile \notin Body
    /\ \A f \in Role : LeftIn[f] \subseteq Body \cup {NoFile}
    /\ \A p \in Profile \ {Malformed}, f \in Role : p.render[f] \in Body

VARIABLES
    body,     \* body[f]: the instruction file f
    profile,  \* the profile file
    repo,     \* the rest of the repository, fixed
    step,     \* the next step of the command, "idle" without one
    file,     \* the file it is at
    mode,     \* verify, plan (bootstrap) or apply (bootstrap --apply)
    loaded,   \* the profile as the command has loaded it
    action,   \* action[f]: what the projection of f came to
    errors,   \* the errors of the report
    raced,    \* has somebody changed what the command is deciding on since it read it?
    settled   \* the last apply succeeded, and nobody has changed a thing since

people == <<body, profile, repo>>
progress == <<step, file, mode, loaded, action, errors>>
bootstrapVars == <<people, progress, raced, settled>>

-----------------------------------------------------------------------------
(* The profile                                                             *)

GovernanceParses(p) == p.status \in {"proposed", "accepted"}

InstructionsParse(p) ==
    /\ p.render_mode \in {"validate", "managed"}
    /\ 0 < p.warn /\ p.warn <= p.max
    /\ \A f \in Role : p.markers[f] # {}
    /\ p.sources # {}

RolloutParses(p) ==
    /\ p.rollout \in {"pilot", "managed"}
    /\ p.classes # {} /\ p.classes \subseteq Classes

Parses(p) ==
    /\ p # Malformed
    /\ GovernanceParses(p) /\ InstructionsParse(p) /\ RolloutParses(p)
    /\ p.commands # {}
    /\ p.surfaces # {} /\ p.surfaces \subseteq Surfaces
    /\ "claude-code" \in p.surfaces => p.additions # {}

(* The body the templates give file f; they hold no other placeholder.     *)
Render(p, f) == p.render[f]

-----------------------------------------------------------------------------
(* The conformance engine: the errors of a repository                      *)

IdentityErrors(r) ==
    IF r.origin = "unreadable" THEN {"identity unavailable"}
    ELSE IF r.origin = "other" THEN {"identity mismatch"} ELSE {}

SourceErrors(p, r) ==
    IF r.adr = NoFile THEN {"source missing"}
    ELSE IF r.adr \notin {"proposed", "accepted"} THEN {"source status missing"}
    ELSE IF r.adr # p.status THEN {"source status mismatch"} ELSE {}

Readable(b) == b # NoFile /\ Facts[b].utf8

ReadErrors(b) ==
    IF b = NoFile THEN {"missing"} ELSE IF Facts[b].utf8 THEN {} ELSE {"encoding"}

MarkerErrors(p, f, b) ==
    IF p.markers[f] \subseteq Facts[b].lines THEN {} ELSE {"marker missing"}

SecretErrors(b) == IF Facts[b].secret THEN {"possible secret"} ELSE {}

ImportErrors(p, b) ==
    IF Facts[b].first = p.import THEN {} ELSE {"import order"}

BudgetErrors(p, a, c) ==
    IF Facts[a].size + Facts[c].size > p.max THEN {"budget exceeded"} ELSE {}

DuplicateErrors(a, c) ==
    IF Facts[a].rules \cap Facts[c].lines = {} THEN {} ELSE {"duplicate rule"}

PathErrors(p, r) ==
    (IF p.sources \subseteq r.paths THEN {} ELSE {"authority source missing"})
        \cup (IF p.commands \subseteq r.runnable THEN {} ELSE {"validation progress"})

RolloutErrors(p) ==
    IF p.rollout = "managed"
    THEN {e \in {"governance not accepted", "blockers open", "not managed"} :
             CASE e = "governance not accepted" -> p.status # "accepted"
               [] e = "blockers open" -> p.blocked_by # {}
               [] e = "not managed" -> ~p.managed}
    ELSE IF p.managed THEN {"pilot cannot manage"} ELSE {}

(* A bug of the drift check: only files of other generators are compared.  *)
DriftUnmarked(p, f, b) ==
    IF p.render_mode = "managed" /\ ~Facts[b].generated THEN {"drift"} ELSE {}

DriftErrors(p, f, b) ==
    IF p.render_mode = "managed" /\ b # Render(p, f) THEN {"drift"} ELSE {}

FileErrors(p, f, b) ==
    IF ~Readable(b) THEN ReadErrors(b)
    ELSE MarkerErrors(p, f, b) \cup SecretErrors(b) \cup DriftErrors(p, f, b)
             \cup (IF f = "claude" THEN ImportErrors(p, b) ELSE {})

VerifyErrors(p, bodies, r) ==
    IF ~Parses(p) THEN {"profile"}
    ELSE IdentityErrors(r) \cup SourceErrors(p, r) \cup PathErrors(p, r)
         \cup RolloutErrors(p) \cup UNION {FileErrors(p, f, bodies[f]) : f \in Role}
         \cup IF \A f \in Role : Readable(bodies[f])
              THEN BudgetErrors(p, bodies["agents"], bodies["claude"])
                   \cup DuplicateErrors(bodies["agents"], bodies["claude"])
              ELSE {}

-----------------------------------------------------------------------------
(* The command                                                             *)

NoAction == [f \in Role |-> "none"]

BootstrapInit ==
    /\ body \in {b \in [Role -> Body \cup {NoFile}] : \A f \in Role : b[f] \in LeftIn[f]}
    /\ profile \in Profile
    /\ repo \in Repository
    /\ step = "idle" /\ file = "agents" /\ mode = "verify" /\ loaded = NoProfile
    /\ action = NoAction /\ errors = {}
    /\ raced = FALSE /\ settled = FALSE

(* The command ends, and what it knew is gone.                             *)
CommandEnds ==
    /\ step' = "idle" /\ file' = "agents" /\ mode' = "verify" /\ loaded' = NoProfile
    /\ action' = NoAction /\ errors' = {} /\ raced' = FALSE

Command(m) ==
    /\ step = "idle"
    /\ step' = IF m = "verify" THEN "verify"
               ELSE IF Parses(profile) THEN "look" ELSE "report"
    /\ mode' = m /\ file' = "agents"
    /\ loaded' = profile
    /\ errors' = IF step' = "report" THEN {"profile"} ELSE {}
    /\ UNCHANGED <<action, raced>>
    /\ UNCHANGED <<people, settled>>

(* The projection of the file is done; the other one is next, then verify. *)
NextFile ==
    IF file = "agents" THEN file' = "claude" /\ step' = "look"
    ELSE file' = file /\ step' = "verify"

(* A bug of the projection: what is equal is not told from what is old.    *)
ProjectionStale(p, f, b) ==
    IF b = NoFile THEN "created"
    ELSE IF p.render_mode = "validate" THEN "unchanged"
    ELSE IF Facts[b].generated THEN "updated" ELSE "refused"

(* A bug of the projection: the marker of the generator is not looked for. *)
ProjectionUnmarked(p, f, b) ==
    IF b = NoFile THEN "created"
    ELSE IF b = Render(p, f) \/ p.render_mode = "validate" THEN "unchanged"
    ELSE "updated"

Projection(p, f, b) ==
    IF b = NoFile THEN "created"
    ELSE IF b = Render(p, f) \/ p.render_mode = "validate" THEN "unchanged"
    ELSE IF Facts[b].generated THEN "updated" ELSE "refused"

(* The file is looked at and read, and what is to be done decided.         *)
Look ==
    /\ step = "look"
    /\ body[file] = NoFile \/ Readable(body[file])
    /\ LET what == Projection(loaded, file, body[file])
       IN  /\ action' = [action EXCEPT ![file] = what]
           /\ IF mode = "apply" /\ what \in {"created", "updated"}
              THEN step' = "open" /\ file' = file
              ELSE NextFile
    /\ raced' = FALSE
    /\ UNCHANGED <<people, mode, loaded, errors, settled>>

(* A file that is not UTF-8 ends the command; what is written stays.       *)
LookFails ==
    /\ step = "look"
    /\ body[file] # NoFile /\ ~Readable(body[file])
    /\ CommandEnds
    /\ UNCHANGED <<people, settled>>

(* write_text empties the file and then writes it.                         *)
OpenFile ==
    /\ step = "open"
    /\ body' = [body EXCEPT ![file] = Empty]
    /\ step' = "fill"
    /\ settled' = FALSE
    /\ UNCHANGED <<profile, repo, file, mode, loaded, action, errors, raced>>

WriteFile ==
    /\ step = "fill"
    /\ body' = [body EXCEPT ![file] = Render(loaded, file)]
    /\ NextFile
    /\ UNCHANGED <<profile, repo, mode, loaded, action, errors, raced, settled>>

Verify ==
    /\ step = "verify"
    /\ loaded' = profile
    /\ errors' = VerifyErrors(profile, body, repo)
    /\ step' = "report"
    /\ raced' = FALSE
    /\ UNCHANGED <<people, file, mode, action, settled>>

Succeeded == errors = {} /\ \A f \in Role : action[f] # "refused"

Report ==
    /\ step = "report"
    /\ settled' = (settled \/ (mode = "apply" /\ Succeeded /\ ~raced))
    /\ CommandEnds
    /\ UNCHANGED people

-----------------------------------------------------------------------------
(* The others                                                              *)

EditFile(f, b) ==
    /\ b # body[f]
    /\ body' = [body EXCEPT ![f] = b]
    /\ raced' = (raced \/ step = "report" \/ (step = "open" /\ f = file))
    /\ settled' = FALSE
    /\ UNCHANGED <<profile, repo, progress>>

EditProfile(p) ==
    /\ p # profile
    /\ profile' = p
    /\ raced' = (raced \/ step = "report")
    /\ settled' = FALSE
    /\ UNCHANGED <<body, repo, progress>>

Killed ==
    /\ step # "idle"
    /\ CommandEnds
    /\ UNCHANGED <<people, settled>>

BootstrapNext ==
    \/ \E m \in {"verify", "plan", "apply"} : Command(m)
    \/ Look \/ LookFails \/ OpenFile \/ WriteFile
    \/ Verify
    \/ Report
    \/ \E f \in Role : \E b \in LeftIn[f] : EditFile(f, b)
    \/ \E p \in Profile : EditProfile(p)
    \/ Killed

BootstrapSpec == BootstrapInit /\ [][BootstrapNext]_bootstrapVars

-----------------------------------------------------------------------------
(* Properties                                                              *)

(* The values the state variables range over.                              *)
BootstrapTypeOK ==
    /\ body \in [Role -> Body \cup {NoFile}]
    /\ profile \in Profile /\ repo \in Repository
    /\ step \in {"idle", "look", "open", "fill", "verify", "report"}
    /\ file \in Role /\ mode \in {"verify", "plan", "apply"}
    /\ loaded \in Profile \cup {NoProfile}
    /\ action \in [Role -> {"none", "created", "unchanged", "refused", "updated"}]
    /\ raced \in BOOLEAN /\ settled \in BOOLEAN

(* bootstrap changes no file that somebody has written by hand, and in     *)
(* validate mode no file at all but one that was missing, whatever others  *)
(* change meanwhile.  Excepted is one window: that very file is written    *)
(* between its reading and its opening, which nothing in the code can see. *)
HandWrittenIsKept ==
    [][\A f \in Role :
         (body'[f] # body[f] /\ step' # step /\ ~raced) =>
             \/ step = "fill"
             \/ body[f] = NoFile
             \/ Facts[body[f]].generated /\ loaded.render_mode = "managed"]_bootstrapVars

(* A managed repository that bootstrap calls good, in a dry run or not,    *)
(* holds both projections of its profile, whole: neither a file a killed   *)
(* command left half written nor the projection of an older profile nor a  *)
(* refused file passes, whoever edited what before it was verified.        *)
SuccessIsProjected ==
    (step = "report" /\ Succeeded /\ ~raced /\ loaded.render_mode = "managed") =>
        \A f \in Role : body[f] = Render(loaded, f)

(* docs/adr/0005: "Running it again is idempotent".  After an apply that   *)
(* succeeded there is nothing to do until somebody changes something after *)
(* it was verified; what changed before, even between the writing of the   *)
(* two files, is in the verdict.                                           *)
AgainChangesNothing ==
    settled => \A f \in Role : Projection(profile, f, body[f]) = "unchanged"

=============================================================================
