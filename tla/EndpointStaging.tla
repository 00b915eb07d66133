---------------------------- MODULE EndpointStaging ----------------------------
(***************************************************************************)
(* The deploy and reconcile commands of dotmac-agent.  A command loads a   *)
(* managed policy and an endpoint enrollment, reads the identity of the    *)
(* governance repository with separate git calls, renders the artifacts    *)
(* from the working tree and computes the open activation gates.  deploy   *)
(* then stages the artifacts in an output directory, the attestation last; *)
(* reconcile compares them with what the endpoint has installed.           *)
(*                                                                         *)
(* Between two steps the sources may be edited, another revision checked   *)
(* out, or the command killed.                                             *)
(***************************************************************************)
EXTENDS Naturals, Sequences, FiniteSets

CONSTANTS
    CodexFiles,   \* the artifacts of Codex, in rendering order
    ClaudeFiles,  \* the artifacts of Claude Code, in rendering order
    FromText,     \* the payload rendered from the instruction source
    Rev,          \* revisions of the governance repository
    Tree,         \* Tree[r]: the sources committed in r
    BranchOf,     \* BranchOf[r]: the branch r is checked out on, "HEAD" if none
    Enrollment,   \* endpoint enrollments
    Origin,       \* the repository's origin
    Job,          \* commands that may run at a time
    EditTo,       \* sources an edit may leave in the working tree
    TouchTo,      \* what somebody else may turn a staged file into
    MaxTouched,   \* staged files somebody else may have changed at a time
    MayCrash,     \* may a command be killed, or fail for lack of space?
    Absent,       \* no file
    Unsafe,       \* a symbolic link, a directory, a path out of the output
    Truncated,    \* opened for writing, nothing in it yet
    Missing,      \* an instruction source that is not there
    Unread        \* a field of a plan that has not been read

Elements(s) == {s[n] : n \in DOMAIN s}

Files == Elements(CodexFiles) \cup Elements(ClaudeFiles)

Kind == Files \cup {"attestation"}

ASSUME StagingAssumption ==
    /\ CodexFiles \in Seq(Files) /\ ClaudeFiles \in Seq(Files)
    /\ "attestation" \notin Files
    /\ MayCrash \in BOOLEAN /\ MaxTouched \in Nat
    /\ DOMAIN Tree = Rev /\ DOMAIN BranchOf = Rev
    /\ Unread \notin BOOLEAN

VARIABLES
    head,      \* the revision checked out
    work,      \* the working tree: a policy, an instruction text, an ADR status
    output,    \* output[a]: the staged file of artifact a
    phase,     \* phase[j]: the next step of command j
    plan,      \* plan[j]: what j has read
    at,        \* at[j]: the artifact of the plan j is at
    result,    \* result[j]: what j has classified so far, or reported
    moved,     \* the commands whose status cannot tell that the repository changed
    touched    \* staged files changed by somebody else since a command's write

source == <<head, work>>
command == <<phase, plan, at, result>>
ghost == <<moved, touched>>
vars == <<source, output, command, ghost>>

NoPlan == [mode |-> Unread, endpoint |-> Unread, policy |-> Unread,
           revision |-> Unread, branch |-> Unread, dirty |-> Unread,
           text |-> Unread, gates |-> Unread]

NoResult == [created |-> {}, unchanged |-> {}, refused |-> {},
             ready |-> FALSE, found |-> <<>>]

Init ==
    /\ head \in Rev
    /\ work = Tree[head]
    /\ output \in [Kind -> {Absent, Unsafe}]
    /\ phase = [j \in Job |-> "idle"]
    /\ plan = [j \in Job |-> NoPlan]
    /\ at = [j \in Job |-> 1]
    /\ result = [j \in Job |-> NoResult]
    /\ moved = {} /\ touched = {}

-----------------------------------------------------------------------------
(* The plan                                                                *)

(* The artifacts of a plan, those of the endpoint's clients.               *)
Payload(p) ==
    (IF "codex" \in p.endpoint.surfaces THEN CodexFiles ELSE <<>>)
        \o (IF "claude-code" \in p.endpoint.surfaces THEN ClaudeFiles ELSE <<>>)

Artifacts(p) == Append(Payload(p), "attestation")

Rendered(a, policy, text) ==
    IF a \in FromText THEN <<policy.id, policy.version, text>>
    ELSE <<policy.controls>>

(* No file that is rendered passes for none.                               *)
ASSUME RenderedAssumption ==
    LET sources == {Tree[r] : r \in Rev} \cup EditTo
    IN  \A s, t \in sources, a \in Files : Rendered(a, s.policy, t.text) # Absent

(* The payload of a plan with its contents, which stand for their digests. *)
Digests(p) == [a \in Elements(Payload(p)) |-> Rendered(a, p.policy, p.text)]

Content(p, a) ==
    IF a # "attestation" THEN Rendered(a, p.policy, p.text)
    ELSE [endpoint |-> p.endpoint.id, policy |-> p.policy.id,
          version |-> p.policy.version, revision |-> p.revision,
          dirty |-> p.dirty, branch |-> p.branch, digests |-> Digests(p)]

Identified(p) == p.revision # Unread

(* The diagnostics of a plan; every one of them is an error.               *)
Gates(p, adr) ==
    LET open == [
          policy     |-> p.endpoint.policy # p.policy.id,
          class      |-> p.endpoint.class \notin p.policy.classes,
          endpoint   |-> p.endpoint.id \notin p.policy.endpoints,
          surface    |-> ~(p.endpoint.surfaces \subseteq p.policy.surfaces),
          governance |-> p.policy.status # "accepted",
          blockers   |-> p.policy.blocked_by # {},
          unmanaged  |-> ~p.policy.managed,
          adr        |-> adr # p.policy.status,
          identity   |-> ~Identified(p),
          origin     |-> Identified(p) /\ p.policy.repository # Origin,
          branch     |-> Identified(p) /\ p.branch # p.policy.default_branch,
          dirty      |-> Identified(p) /\ p.dirty]
    IN  {g \in DOMAIN open : open[g]}

Permitted(p) == p.gates = {}

(* Command j is at step s of its plan, and goes on with step t.            *)
Step(j, s, t) == phase[j] = s /\ phase' = [phase EXCEPT ![j] = t]

Reads(j, field, value) == plan' = [plan EXCEPT ![j][field] = value]

(* Command j ends, and what it knew is gone.                               *)
Ends(j) ==
    /\ phase' = [phase EXCEPT ![j] = "idle"]
    /\ plan' = [plan EXCEPT ![j] = NoPlan]
    /\ at' = [at EXCEPT ![j] = 1]
    /\ result' = [result EXCEPT ![j] = NoResult]

Busy == {j \in Job : phase[j] # "idle"}

Reading == {j \in Job : phase[j] \in {"revision", "branch", "status", "text", "gates"}}

Begin(j, e, mode) ==
    /\ Step(j, "idle", "revision")
    /\ plan' = [plan EXCEPT ![j] = [NoPlan EXCEPT
           !.mode = mode, !.endpoint = e, !.policy = work.policy]]
    /\ moved' = moved \ {j}
    /\ UNCHANGED <<source, output, at, result, touched>>

ReadRevision(j) ==
    /\ Step(j, "revision", "branch")
    /\ Reads(j, "revision", head)
    /\ UNCHANGED <<source, output, at, result, ghost>>

ReadBranch(j) ==
    /\ Step(j, "branch", "status")
    /\ Reads(j, "branch", BranchOf[head])
    /\ UNCHANGED <<source, output, at, result, ghost>>

(* A bug of the identity: git status is not asked.                         *)
ReadStatusNever(j) ==
    /\ Step(j, "status", "text")
    /\ Reads(j, "dirty", FALSE)
    /\ UNCHANGED <<source, output, at, result, ghost>>

ReadStatus(j) ==
    /\ Step(j, "status", "text")
    /\ Reads(j, "dirty", work # Tree[head])
    /\ UNCHANGED <<source, output, at, result, ghost>>

(* One of the git calls fails or takes too long: no identity at all.       *)
IdentityFails(j) ==
    /\ phase[j] \in {"revision", "branch", "status"}
    /\ phase' = [phase EXCEPT ![j] = "text"]
    /\ plan' = [plan EXCEPT ![j].revision = Unread, ![j].branch = Unread,
                            ![j].dirty = Unread]
    /\ UNCHANGED <<source, output, at, result, ghost>>

ReadText(j) ==
    /\ Step(j, "text", "gates")
    /\ work.text # Missing
    /\ Reads(j, "text", work.text)
    /\ UNCHANGED <<source, output, at, result, ghost>>

TextMissing(j) ==
    /\ phase[j] = "text" /\ work.text = Missing
    /\ Ends(j)
    /\ UNCHANGED <<source, output, ghost>>

ReadGates(j) ==
    /\ plan[j].mode # "apply"
    /\ Step(j, "gates", IF plan[j].mode = "stage" THEN "compare" ELSE "observe")
    /\ Reads(j, "gates", Gates(plan[j], work.adr))
    /\ UNCHANGED <<source, output, at, result, ghost>>

(* deploy --apply is refused, whatever the gates.                          *)
RefuseApply(j) ==
    /\ phase[j] = "gates" /\ plan[j].mode = "apply"
    /\ Ends(j)
    /\ UNCHANGED <<source, output, ghost>>

-----------------------------------------------------------------------------
(* Staging                                                                 *)

Here(j) == Artifacts(plan[j])[at[j]]

More(j) == at[j] <= Len(Artifacts(plan[j]))

Advance(j) == at' = [at EXCEPT ![j] = @ + 1]

(* A bug of the comparison: a whole file counts as the artifact, whatever  *)
(* is in it.                                                               *)
ClassUnread(j, a) ==
    CASE output[a] = Unsafe -> "refused"
      [] output[a] = Absent -> "created"
      [] OTHER -> "unchanged"

Class(j, a) ==
    CASE output[a] = Unsafe -> "refused"
      [] output[a] = Absent -> "created"
      [] output[a] = Content(plan[j], a) -> "unchanged"
      [] OTHER -> "refused"

Compare(j) ==
    /\ phase[j] = "compare" /\ More(j)
    /\ result' = [result EXCEPT ![j][Class(j, Here(j))] = @ \cup {Here(j)}]
    /\ Advance(j)
    /\ UNCHANGED <<source, output, phase, plan, ghost>>

Refuse(j) ==
    /\ phase[j] = "compare" /\ ~More(j) /\ result[j].refused # {}
    /\ Ends(j)
    /\ UNCHANGED <<source, output, ghost>>

Accept(j) ==
    /\ Step(j, "compare", "write")
    /\ ~More(j) /\ result[j].refused = {}
    /\ at' = [at EXCEPT ![j] = 1]
    /\ UNCHANGED <<source, output, plan, result, ghost>>

Keep(j) ==
    /\ phase[j] = "write" /\ More(j) /\ output[Here(j)] # Absent
    /\ Advance(j)
    /\ UNCHANGED <<source, output, phase, plan, result, ghost>>

(* A bug of the second loop: every artifact is written again.              *)
OpenAlways(j) ==
    /\ Step(j, "write", "open")
    /\ More(j)
    /\ UNCHANGED <<source, output, plan, at, result, ghost>>

(* The existence test of the second loop.                                  *)
Open(j) ==
    /\ Step(j, "write", "open")
    /\ More(j) /\ output[Here(j)] = Absent
    /\ UNCHANGED <<source, output, plan, at, result, ghost>>

(* write_text opens the file, which empties it, and then writes.           *)
Truncate(j) ==
    /\ Step(j, "open", "fill")
    /\ output' = [output EXCEPT ![Here(j)] = Truncated]
    /\ UNCHANGED <<source, plan, at, result, ghost>>

Fill(j) ==
    /\ Step(j, "fill", "write")
    /\ output' = [output EXCEPT ![Here(j)] = Content(plan[j], Here(j))]
    /\ touched' = touched \ {Here(j)}
    /\ Advance(j)
    /\ UNCHANGED <<source, plan, result, moved>>

Staged(j) ==
    /\ Step(j, "write", "staged")
    /\ ~More(j)
    /\ UNCHANGED <<source, output, plan, at, result, ghost>>

-----------------------------------------------------------------------------
(* Reconciliation                                                          *)

(* What may be installed: nothing, something else, or what some sources of *)
(* some revision or edit would have installed.                             *)
Installed(a) ==
    {Absent, Unsafe} \cup
    {Rendered(a, s.policy, s.text) : s \in {Tree[r] : r \in Rev} \cup EditTo}

Endpoint == {e \in [Files -> UNION {Installed(a) : a \in Files}] :
                \A a \in DOMAIN e : e[a] \in Installed(a)}

(* A bug of the observation: what is not there has not drifted.            *)
ObservedLax(p, a, file) ==
    IF file \in {Absent, Content(p, a)} THEN "matched" ELSE "drifted"

Observed(p, a, file) ==
    CASE file = Absent -> "missing"
      [] file = Content(p, a) -> "matched"
      [] OTHER -> "drifted"

Ready(p, found, credential) ==
    /\ Permitted(p)
    /\ DOMAIN Digests(p) # {}
    /\ \A a \in DOMAIN Digests(p) : Observed(p, a, found[a]) = "matched"
    /\ credential

(* The report of the files found; credential says whether the environment  *)
(* variable is set.  What was found is kept for the property below.        *)
Reconcile(j) ==
    /\ Step(j, "observe", "reported")
    /\ \E found \in Endpoint, credential \in BOOLEAN :
           result' = IF Ready(plan[j], found, credential)
                     THEN [result EXCEPT ![j].ready = TRUE, ![j].found = found]
                     ELSE result
    /\ UNCHANGED <<source, output, plan, at, ghost>>

(* The command has printed its result.                                     *)
Done(j) ==
    /\ phase[j] \in {"staged", "reported"}
    /\ Ends(j)
    /\ UNCHANGED <<source, output, ghost>>

-----------------------------------------------------------------------------
(* The others                                                              *)

(* The status of a plan is asked before its text and gates are read: it    *)
(* cannot tell what is edited after it, nor an edit undone before it.      *)
Unnoticed(s) ==
    {j \in Reading : phase[j] \in {"text", "gates"} \/ s = Tree[head]}

Edit(s) ==
    /\ work # s
    /\ work' = s
    /\ moved' = moved \cup Unnoticed(s)
    /\ UNCHANGED <<head, output, command, touched>>

(* A commit, a pull or a checkout: the working tree is that of r.          *)
Checkout(r) ==
    /\ <<head, work>> # <<r, Tree[r]>>
    /\ head' = r /\ work' = Tree[r]
    /\ moved' = moved \cup Reading
    /\ UNCHANGED <<output, command, touched>>

(* Between commands somebody changes or removes a staged file.             *)
Touch(a, f) ==
    /\ Busy = {}
    /\ output[a] # f
    /\ Cardinality(touched \cup {a}) <= MaxTouched
    /\ output' = [output EXCEPT ![a] = f]
    /\ touched' = touched \cup {a}
    /\ UNCHANGED <<source, command, moved>>

Crash(j) ==
    /\ MayCrash /\ j \in Busy
    /\ Ends(j)
    /\ UNCHANGED <<source, output, ghost>>

Plan(j) ==
    \/ ReadRevision(j) \/ ReadBranch(j) \/ ReadStatus(j) \/ IdentityFails(j)
    \/ ReadText(j) \/ TextMissing(j) \/ ReadGates(j) \/ RefuseApply(j)

Stage(j) ==
    \/ Compare(j) \/ Refuse(j) \/ Accept(j)
    \/ Keep(j) \/ Open(j) \/ Truncate(j) \/ Fill(j) \/ Staged(j)

Next ==
    \/ \E j \in Job :
        \/ \E e \in Enrollment, m \in {"stage", "apply", "reconcile"} : Begin(j, e, m)
        \/ Plan(j)
        \/ Stage(j)
        \/ Reconcile(j) \/ Done(j)
        \/ Crash(j)
    \/ \E s \in EditTo : Edit(s)
    \/ \E r \in Rev : Checkout(r)
    \/ \E a \in Kind, f \in TouchTo : Touch(a, f)

Spec == Init /\ [][Next]_vars

-----------------------------------------------------------------------------
(* Properties                                                              *)

Whole(f) == f \notin {Absent, Unsafe, Truncated}

(* An attestation that stands in the output directory describes what is    *)
(* staged beside it, across crashes and later stagings of other plans: it  *)
(* is written last, and never over the payload of another plan.            *)
BundleIsWhole ==
    LET record == output["attestation"]
    IN  Whole(record) /\ "attestation" \notin touched =>
            \A a \in DOMAIN record.digests \ touched :
                output[a] = record.digests[a]

(* A command changes no staged file that was there when it began, neither  *)
(* one of another plan nor one a killed command has left half written.     *)
StagedIsKept ==
    [][\A a \in Kind :
         output'[a] # output[a] /\ a \notin touched' =>
             \/ output[a] = Absent
             \/ output[a] = Truncated /\ \E j \in Job : phase[j] = "fill"]_vars

(* A staging that says it succeeded from a clean revision has staged what  *)
(* that revision commits, new or kept from an earlier staging, although    *)
(* the policy is read before the identity: who edits in between makes the  *)
(* plan dirty.  Excepted are the moves no status can show: a moved HEAD,   *)
(* an edit that is undone, and what changes once the status was asked.     *)
AttestedIsCommitted ==
    \A j \in Job :
        (phase[j] = "staged" /\ plan[j].dirty = FALSE /\ j \notin moved) =>
            LET committed == Tree[plan[j].revision]
            IN  \A a \in DOMAIN Digests(plan[j]) :
                    output[a] = Rendered(a, committed.policy, committed.text)

(* An endpoint is reported ready only if what it has installed is what an  *)
(* accepted revision of the default branch commits for it, with the same   *)
(* exceptions.                                                             *)
ReadyIsCommitted ==
    \A j \in Job :
        (phase[j] = "reported" /\ result[j].ready /\ j \notin moved) =>
            LET committed == Tree[plan[j].revision]
            IN  /\ committed.adr = "accepted"
                /\ BranchOf[plan[j].revision] = committed.policy.default_branch
                /\ \A a \in DOMAIN Digests(plan[j]) :
                       result[j].found[a] = Rendered(a, committed.policy, committed.text)

=============================================================================
