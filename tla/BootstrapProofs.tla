---------------------------- MODULE BootstrapProofs ----------------------------
(***************************************************************************)
(* Proofs about RepositoryBootstrap, for any bodies, profiles and          *)
(* repositories: what bootstrap leaves alone, what its success means, and  *)
(* that running it again changes nothing; and about EndpointStaging, for   *)
(* any artifacts, revisions and enrollments: what is staged, attested and  *)
(* reported ready.                                                         *)
(***************************************************************************)
EXTENDS EndpointStaging, RepositoryBootstrap, TLAPS

-----------------------------------------------------------------------------
(* The inductive invariant                                                 *)

(* Only with a profile that parses does the command come to a file.        *)
ProjectsParsed ==
    step \in {"look", "open", "fill"} => loaded \in Profile /\ Parses(loaded)

(* A file that is about to be emptied is still the one that was looked at, *)
(* unless somebody came in between at that very file.                      *)
OpenIsDecided ==
    step = "open" /\ ~raced =>
        Projection(loaded, file, body[file]) \in {"created", "updated"}

(* What verify found good is still there when it is reported.              *)
ReportIsCurrent ==
    step = "report" /\ errors = {} /\ ~raced =>
        /\ loaded = profile
        /\ \A f \in Role : Projection(loaded, f, body[f]) = "unchanged"
        /\ loaded.render_mode = "managed" => \A f \in Role : body[f] = Render(loaded, f)

(* A file that is being filled is one that the command has just emptied.   *)
FillIsUnsettled == step = "fill" => ~settled

BootstrapInv ==
    /\ BootstrapTypeOK /\ ProjectsParsed
    /\ OpenIsDecided /\ ReportIsCurrent /\ FillIsUnsettled /\ AgainChangesNothing

LEMMA TypeIsKept ==
    BootstrapTypeOK /\ ProjectsParsed /\ [BootstrapNext]_bootstrapVars
        => BootstrapTypeOK' /\ ProjectsParsed'
<1> SUFFICES ASSUME BootstrapTypeOK, ProjectsParsed, [BootstrapNext]_bootstrapVars
             PROVE  BootstrapTypeOK' /\ ProjectsParsed'
  OBVIOUS
<1> USE BootstrapAssumption DEF BootstrapTypeOK, ProjectsParsed, people, progress
<1>1. ASSUME NEW m \in {"verify", "plan", "apply"}, Command(m)
      PROVE  BootstrapTypeOK' /\ ProjectsParsed'
  BY <1>1 DEF Command
<1>2. CASE Look
  <2>1. Projection(loaded, file, body[file])
            \in {"created", "unchanged", "refused", "updated"}
    BY DEF Projection
  <2>2. action' \in [Role -> {"none", "created", "unchanged", "refused", "updated"}]
    BY <1>2, <2>1 DEF Look
  <2> QED BY <1>2, <2>2 DEF Look, NextFile
<1>3. CASE LookFails
  BY <1>3 DEF LookFails, CommandEnds, NoAction
<1>4. CASE OpenFile
  BY <1>4 DEF OpenFile
<1>5. CASE WriteFile
  <2>1. Render(loaded, file) \in Body
    <3>1. loaded \in Profile \ {Malformed}
      BY <1>5 DEF WriteFile, Parses
    <3> QED BY <3>1, <1>5 DEF WriteFile, Render
  <2> QED BY <1>5, <2>1 DEF WriteFile, NextFile
<1>6. CASE Verify
  BY <1>6 DEF Verify
<1>7. CASE Report
  BY <1>7 DEF Report, CommandEnds, NoAction
<1>8. ASSUME NEW f \in Role, NEW b \in LeftIn[f], EditFile(f, b)
      PROVE  BootstrapTypeOK' /\ ProjectsParsed'
  BY <1>8 DEF EditFile
<1>9. ASSUME NEW p \in Profile, EditProfile(p)
      PROVE  BootstrapTypeOK' /\ ProjectsParsed'
  BY <1>9 DEF EditProfile
<1>10. CASE Killed
  BY <1>10 DEF Killed, CommandEnds, NoAction
<1>11. CASE UNCHANGED bootstrapVars
  BY <1>11 DEF bootstrapVars
<1> QED
  BY <1>1, <1>2, <1>3, <1>4, <1>5, <1>6, <1>7, <1>8, <1>9, <1>10, <1>11 DEF BootstrapNext

(* A verified repository leaves bootstrap nothing to do, whatever the mode *)
(* of its profile.                                                         *)
LEMMA VerifiedIsProjected ==
    ASSUME NEW p, NEW bodies, NEW r, VerifyErrors(p, bodies, r) = {}
    PROVE  /\ \A f \in Role : Projection(p, f, bodies[f]) = "unchanged"
           /\ p.render_mode = "managed" => \A f \in Role : bodies[f] = Render(p, f)
<1>1. Parses(p)
  BY DEF VerifyErrors
<1>2. p.render_mode \in {"validate", "managed"}
  BY <1>1 DEF Parses, InstructionsParse
<1>3. \A f \in Role : FileErrors(p, f, bodies[f]) = {}
  BY <1>1 DEF VerifyErrors
<1> SUFFICES ASSUME NEW f \in Role
             PROVE  /\ Projection(p, f, bodies[f]) = "unchanged"
                    /\ p.render_mode = "managed" => bodies[f] = Render(p, f)
  OBVIOUS
<1>4. Readable(bodies[f])
  <2>1. ReadErrors(bodies[f]) # {} \/ Readable(bodies[f])
    BY DEF ReadErrors, Readable
  <2> QED BY <1>3, <2>1 DEF FileErrors
<1>5. DriftErrors(p, f, bodies[f]) = {}
  BY <1>3, <1>4 DEF FileErrors
<1>6. p.render_mode = "managed" => bodies[f] = Render(p, f)
  BY <1>5 DEF DriftErrors
<1>7. bodies[f] # NoFile
  BY <1>4 DEF Readable
<1> QED BY <1>2, <1>6, <1>7 DEF Projection

LEMMA InvHoldsAtFirst == BootstrapInit => BootstrapInv
BY BootstrapAssumption
   DEF BootstrapInit, BootstrapTypeOK, ProjectsParsed, NoAction, BootstrapInv, OpenIsDecided, ReportIsCurrent, FillIsUnsettled,
       AgainChangesNothing

LEMMA InvIsKept == BootstrapInv /\ [BootstrapNext]_bootstrapVars => BootstrapInv'
<1> DEFINE Settles ==
      OpenIsDecided /\ ReportIsCurrent /\ FillIsUnsettled /\ AgainChangesNothing
<1> SUFFICES ASSUME BootstrapInv, [BootstrapNext]_bootstrapVars PROVE Settles'
  BY TypeIsKept DEF BootstrapInv
<1> USE DEF BootstrapInv, OpenIsDecided, ReportIsCurrent, FillIsUnsettled,
            AgainChangesNothing, people, progress
<1>1. ASSUME NEW m \in {"verify", "plan", "apply"}, Command(m) PROVE Settles'
  BY <1>1 DEF Command
<1>2. CASE Look
  BY <1>2 DEF Look, NextFile
<1>3. CASE LookFails
  BY <1>3 DEF LookFails, CommandEnds
<1>4. CASE OpenFile
  BY <1>4 DEF OpenFile
<1>5. CASE WriteFile
  BY <1>5 DEF WriteFile, NextFile
<1>6. CASE Verify
  BY <1>6, VerifiedIsProjected DEF Verify
<1>7. CASE Report
  BY <1>7 DEF Report, CommandEnds, Succeeded
<1>8. ASSUME NEW f \in Role, NEW b \in LeftIn[f], EditFile(f, b) PROVE Settles'
  <2>1. /\ UNCHANGED <<step, file, loaded, errors>> /\ settled' = FALSE
        /\ raced' = (raced \/ step = "report" \/ (step = "open" /\ f = file))
        /\ \A g \in Role \ {f} : body'[g] = body[g]
    BY <1>8 DEF EditFile
  <2>2. step = "open" /\ ~raced' => ~raced /\ file # f
    BY Zenon, <2>1
  <2>3. step = "report" => raced'
    BY Zenon, <2>1
  <2>4. OpenIsDecided'
    <3> SUFFICES ASSUME step = "open", ~raced'
                 PROVE  Projection(loaded', file', body'[file']) \in {"created", "updated"}
      BY <2>1
    <3>1. Projection(loaded, file, body[file]) \in {"created", "updated"}
      BY <2>2
    <3>2. loaded' = loaded /\ file' = file /\ body'[file] = body[file]
      BY <2>1, <2>2 DEF BootstrapTypeOK
    <3> QED BY <3>1, <3>2
  <2>5. ReportIsCurrent'
    BY <2>1, <2>3
  <2> QED BY <2>1, <2>4, <2>5
<1>9. ASSUME NEW p \in Profile, EditProfile(p) PROVE Settles'
  BY <1>9 DEF EditProfile
<1>10. CASE Killed
  BY <1>10 DEF Killed, CommandEnds
<1>11. CASE UNCHANGED bootstrapVars
  BY <1>11 DEF bootstrapVars
<1> QED
  BY <1>1, <1>2, <1>3, <1>4, <1>5, <1>6, <1>7, <1>8, <1>9, <1>10, <1>11 DEF BootstrapNext

LEMMA InvHolds == BootstrapSpec => []BootstrapInv
BY InvHoldsAtFirst, InvIsKept, PTL DEF BootstrapSpec

-----------------------------------------------------------------------------
(* Theorems                                                                *)

(* Every reachable state is well typed.                                    *)
THEOREM BootstrapTypeCorrect == BootstrapSpec => []BootstrapTypeOK
BY InvHolds, PTL DEF BootstrapInv

(* After an apply that succeeded nothing is left to project until somebody *)
(* edits a file or the profile: the idempotence of docs/adr/0005.          *)
THEOREM AppliedIsSettled == BootstrapSpec => []AgainChangesNothing
BY InvHolds, PTL DEF BootstrapInv

(* A report without errors and refusals speaks of two whole projections of *)
(* the profile it was made for.                                            *)
THEOREM SuccessMeansProjected == BootstrapSpec => []SuccessIsProjected
<1>1. BootstrapInv => SuccessIsProjected
  BY DEF BootstrapInv, ReportIsCurrent, SuccessIsProjected, Succeeded
<1> QED BY <1>1, InvHolds, PTL

(* No command changes a file without the marker of the generator, or any   *)
(* file of a repository in validate mode that was already there.           *)
THEOREM HandsOff == BootstrapSpec => HandWrittenIsKept
<1> DEFINE Kept ==
      \A f \in Role :
         (body'[f] # body[f] /\ step' # step /\ ~raced) =>
             \/ step = "fill"
             \/ body[f] = NoFile
             \/ Facts[body[f]].generated /\ loaded.render_mode = "managed"
<1>1. BootstrapInv /\ [BootstrapNext]_bootstrapVars => [Kept]_bootstrapVars
  <2> SUFFICES ASSUME BootstrapInv, BootstrapNext PROVE Kept
    OBVIOUS
  <2> USE DEF people, progress
  <2>1. ASSUME NEW m \in {"verify", "plan", "apply"}, Command(m) PROVE Kept
    BY <2>1 DEF Command
  <2>2. CASE Look \/ LookFails \/ Verify \/ Report \/ Killed
    BY <2>2 DEF Look, LookFails, Verify, Report, Killed
  <2>3. CASE OpenFile
    BY <2>3 DEF OpenFile, BootstrapInv, BootstrapTypeOK, OpenIsDecided, ProjectsParsed,
                Projection, Parses, InstructionsParse
  <2>4. CASE WriteFile
    BY <2>4 DEF WriteFile
  <2>5. ASSUME NEW f \in Role, NEW b \in LeftIn[f], EditFile(f, b) PROVE Kept
    BY <2>5 DEF EditFile
  <2>6. ASSUME NEW p \in Profile, EditProfile(p) PROVE Kept
    BY <2>6 DEF EditProfile
  <2> QED BY <2>1, <2>2, <2>3, <2>4, <2>5, <2>6 DEF BootstrapNext
<1> QED BY <1>1, InvHolds, PTL DEF BootstrapSpec, HandWrittenIsKept

-----------------------------------------------------------------------------
(* The commands that stage and reconcile an endpoint                       *)

Steps ==
    {"idle", "revision", "branch", "status", "text", "gates", "compare", "write", "open",
     "fill", "staged", "observe", "reported"}

Sources == {Tree[r] : r \in Rev} \cup EditTo

IsPlan(p) ==
    p = [mode |-> p.mode, endpoint |-> p.endpoint, policy |-> p.policy,
         revision |-> p.revision, branch |-> p.branch, dirty |-> p.dirty,
         text |-> p.text, gates |-> p.gates]

IsResult(r) ==
    r = [created |-> r.created, unchanged |-> r.unchanged, refused |-> r.refused,
         ready |-> r.ready, found |-> r.found]

StagingShape ==
    /\ head \in Rev /\ work \in Sources
    /\ output = [a \in Kind |-> output[a]]
    /\ phase \in [Job -> Steps]
    /\ at \in [Job -> Nat \ {0}]
    /\ plan = [j \in Job |-> plan[j]]
    /\ result = [j \in Job |-> result[j]]
    /\ \A j \in Job : IsPlan(plan[j]) /\ IsResult(result[j])

(* The identity a plan has read of checkout h and sources w, all or none.  *)
IdentityOf(p, h, w) ==
    \/ /\ p.revision = h /\ p.branch = BranchOf[h]
       /\ p.dirty = (w # Tree[h])
    \/ p.revision = Unread /\ p.dirty = Unread

(* What a plan in phase f has been told is so of checkout h and sources w. *)
SoFar(f, p, h, w) ==
    /\ f \in {"revision", "branch", "status"} => p.policy = w.policy \/ w # Tree[h]
    /\ f = "branch" => p.revision = h
    /\ f = "status" => p.revision = h /\ p.branch = BranchOf[h]
    /\ f \in {"text", "gates"} =>
           IdentityOf(p, h, w) /\ (p.dirty = FALSE => p.policy = w.policy)
    /\ f = "gates" => p.text = w.text

(* What the commit of a plan's identity is, once the plan is complete.     *)
InTheEnd(f, p) ==
    f \in {"compare", "write", "open", "fill", "staged", "observe", "reported"} =>
        LET committed == Tree[p.revision]
        IN  /\ p.dirty = FALSE => p.policy = committed.policy /\ p.text = committed.text
            /\ Permitted(p) => /\ p.dirty = FALSE /\ committed.adr = "accepted"
                               /\ BranchOf[p.revision] = committed.policy.default_branch

(* What a plan renders comes from sources.                                 *)
Drawn(f, p) ==
    /\ f # "idle" => \E s \in Sources : p.policy = s.policy
    /\ f \in {"compare", "write", "open", "fill", "staged"} =>
           \E t \in Sources : p.text = t.text
    /\ f = "gates" => \E t \in Sources : p.text = t.text

(* What a report of plan p says that found the files `found`.              *)
Matches(p, found) ==
    LET committed == Tree[p.revision]
    IN  /\ committed.adr = "accepted"
        /\ BranchOf[p.revision] = committed.policy.default_branch
        /\ \A a \in DOMAIN Digests(p) :
               found[a] = Rendered(a, committed.policy, committed.text)

ToldOf(j) ==
    /\ j \notin moved => /\ SoFar(phase[j], plan[j], head, work)
                         /\ InTheEnd(phase[j], plan[j])
                         /\ result[j].ready => Matches(plan[j], result[j].found)
    /\ result[j].ready => phase[j] = "reported"
    /\ Drawn(phase[j], plan[j])

Told == \A j \in Job : ToldOf(j)

(* One field of a plan is read, and the others stay.                       *)
Reread(p, revision, branch, dirty, text, gates) ==
    [mode |-> p.mode, endpoint |-> p.endpoint, policy |-> p.policy,
     revision |-> revision, branch |-> branch, dirty |-> dirty, text |-> text,
     gates |-> gates]

LEMMA PlanField ==
    ASSUME NEW p, IsPlan(p), NEW v
    PROVE  /\ [p EXCEPT !["revision"] = v] =
                  Reread(p, v, p.branch, p.dirty, p.text, p.gates)
           /\ [p EXCEPT !["branch"] = v] =
                  Reread(p, p.revision, v, p.dirty, p.text, p.gates)
           /\ [p EXCEPT !["dirty"] = v] =
                  Reread(p, p.revision, p.branch, v, p.text, p.gates)
           /\ [p EXCEPT !["text"] = v] =
                  Reread(p, p.revision, p.branch, p.dirty, v, p.gates)
           /\ [p EXCEPT !["gates"] = v] =
                  Reread(p, p.revision, p.branch, p.dirty, p.text, v)
<1> DEFINE q == Reread(p, p.revision, p.branch, p.dirty, p.text, p.gates)
<1>1. p = q
  BY DEF IsPlan, Reread
<1>2. /\ [q EXCEPT !["revision"] = v] = [q EXCEPT !.revision = v]
      /\ [q EXCEPT !["branch"] = v] = [q EXCEPT !.branch = v]
      /\ [q EXCEPT !["dirty"] = v] = [q EXCEPT !.dirty = v]
      /\ [q EXCEPT !["text"] = v] = [q EXCEPT !.text = v]
      /\ [q EXCEPT !["gates"] = v] = [q EXCEPT !.gates = v]
  OBVIOUS
<1>3. /\ [q EXCEPT !.revision = v] = Reread(p, v, p.branch, p.dirty, p.text, p.gates)
      /\ [q EXCEPT !.branch = v] = Reread(p, p.revision, v, p.dirty, p.text, p.gates)
      /\ [q EXCEPT !.dirty = v] = Reread(p, p.revision, p.branch, v, p.text, p.gates)
      /\ [q EXCEPT !.text = v] = Reread(p, p.revision, p.branch, p.dirty, v, p.gates)
      /\ [q EXCEPT !.gates = v] = Reread(p, p.revision, p.branch, p.dirty, p.text, v)
  BY DEF Reread
<1> HIDE DEF q
<1> QED BY <1>1, <1>2, <1>3

LEMMA FieldRead ==
    ASSUME StagingShape, NEW j \in Job, NEW v
    PROVE  LET p == plan[j]
           IN  /\ Reads(j, "revision", v) =>
                      plan' = [plan EXCEPT ![j] =
                                  Reread(p, v, p.branch, p.dirty, p.text, p.gates)]
               /\ Reads(j, "branch", v) =>
                      plan' = [plan EXCEPT ![j] =
                                  Reread(p, p.revision, v, p.dirty, p.text, p.gates)]
               /\ Reads(j, "dirty", v) =>
                      plan' = [plan EXCEPT ![j] =
                                  Reread(p, p.revision, p.branch, v, p.text, p.gates)]
               /\ Reads(j, "text", v) =>
                      plan' = [plan EXCEPT ![j] =
                                  Reread(p, p.revision, p.branch, p.dirty, v, p.gates)]
               /\ Reads(j, "gates", v) =>
                      plan' = [plan EXCEPT ![j] =
                                  Reread(p, p.revision, p.branch, p.dirty, p.text, v)]
<1> DEFINE p == plan[j]
<1>1. IsPlan(p)
  BY DEF StagingShape
<1>2. /\ [plan EXCEPT ![j]["revision"] = v] = [plan EXCEPT ![j] = [p EXCEPT !["revision"] = v]]
      /\ [plan EXCEPT ![j]["branch"] = v] = [plan EXCEPT ![j] = [p EXCEPT !["branch"] = v]]
      /\ [plan EXCEPT ![j]["dirty"] = v] = [plan EXCEPT ![j] = [p EXCEPT !["dirty"] = v]]
      /\ [plan EXCEPT ![j]["text"] = v] = [plan EXCEPT ![j] = [p EXCEPT !["text"] = v]]
      /\ [plan EXCEPT ![j]["gates"] = v] = [plan EXCEPT ![j] = [p EXCEPT !["gates"] = v]]
  OBVIOUS
<1> HIDE DEF p
<1>3. [plan EXCEPT ![j]["revision"] = v] =
          [plan EXCEPT ![j] = Reread(p, v, p.branch, p.dirty, p.text, p.gates)]
  <2>1. [p EXCEPT !["revision"] = v] = Reread(p, v, p.branch, p.dirty, p.text, p.gates)
    BY <1>1, PlanField
  <2> QED BY <1>2, <2>1
<1>4. [plan EXCEPT ![j]["branch"] = v] =
          [plan EXCEPT ![j] = Reread(p, p.revision, v, p.dirty, p.text, p.gates)]
  <2>1. [p EXCEPT !["branch"] = v] = Reread(p, p.revision, v, p.dirty, p.text, p.gates)
    BY <1>1, PlanField
  <2> QED BY <1>2, <2>1
<1>5. [plan EXCEPT ![j]["dirty"] = v] =
          [plan EXCEPT ![j] = Reread(p, p.revision, p.branch, v, p.text, p.gates)]
  <2>1. [p EXCEPT !["dirty"] = v] = Reread(p, p.revision, p.branch, v, p.text, p.gates)
    BY <1>1, PlanField
  <2> QED BY <1>2, <2>1
<1>6. [plan EXCEPT ![j]["text"] = v] =
          [plan EXCEPT ![j] = Reread(p, p.revision, p.branch, p.dirty, v, p.gates)]
  <2>1. [p EXCEPT !["text"] = v] = Reread(p, p.revision, p.branch, p.dirty, v, p.gates)
    BY <1>1, PlanField
  <2> QED BY <1>2, <2>1
<1>7. [plan EXCEPT ![j]["gates"] = v] =
          [plan EXCEPT ![j] = Reread(p, p.revision, p.branch, p.dirty, p.text, v)]
  <2>1. [p EXCEPT !["gates"] = v] = Reread(p, p.revision, p.branch, p.dirty, p.text, v)
    BY <1>1, PlanField
  <2> QED BY <1>2, <2>1
<1> QED BY <1>3, <1>4, <1>5, <1>6, <1>7 DEF Reads, p

(* What one step of command j makes of its plan.                           *)
LEMMA PlanAfter ==
    ASSUME StagingShape, NEW j \in Job
    PROVE  LET p == plan[j]
           IN  /\ \A e, m : Begin(j, e, m) => plan' = [plan EXCEPT ![j] =
                     [mode |-> m, endpoint |-> e, policy |-> work.policy,
                      revision |-> Unread, branch |-> Unread, dirty |-> Unread,
                      text |-> Unread, gates |-> Unread]]
               /\ IdentityFails(j) => plan' = [plan EXCEPT ![j] =
                     Reread(p, Unread, Unread, Unread, p.text, p.gates)]
<1> DEFINE p == plan[j]
<1>1. IsPlan(p)
  BY DEF StagingShape
<1>2. \A e, m :
          [NoPlan EXCEPT !.mode = m, !.endpoint = e, !.policy = work.policy] =
              [mode |-> m, endpoint |-> e, policy |-> work.policy,
               revision |-> Unread, branch |-> Unread, dirty |-> Unread,
               text |-> Unread, gates |-> Unread]
  <2> SUFFICES ASSUME NEW e, NEW m
               PROVE  [NoPlan EXCEPT !.mode = m, !.endpoint = e, !.policy = work.policy] =
                          [mode |-> m, endpoint |-> e, policy |-> work.policy,
                           revision |-> Unread, branch |-> Unread, dirty |-> Unread,
                           text |-> Unread, gates |-> Unread]
    OBVIOUS
  <2> DEFINE Of(a, b, c) == [mode |-> a, endpoint |-> b, policy |-> c,
                             revision |-> Unread, branch |-> Unread, dirty |-> Unread,
                             text |-> Unread, gates |-> Unread]
  <2>1. NoPlan = Of(Unread, Unread, Unread)
    BY DEF NoPlan
  <2>2. [Of(Unread, Unread, Unread) EXCEPT !.mode = m] = Of(m, Unread, Unread)
    OBVIOUS
  <2>3. [Of(m, Unread, Unread) EXCEPT !.endpoint = e] = Of(m, e, Unread)
    OBVIOUS
  <2>4. [Of(m, e, Unread) EXCEPT !.policy = work.policy] = Of(m, e, work.policy)
    OBVIOUS
  <2> HIDE DEF Of
  <2>5. [NoPlan EXCEPT !.mode = m, !.endpoint = e, !.policy = work.policy] =
            Of(m, e, work.policy)
    BY <2>1, <2>2, <2>3, <2>4
  <2> QED BY <2>5 DEF Of
<1>3. [[[p EXCEPT !.revision = Unread] EXCEPT !.branch = Unread] EXCEPT !.dirty = Unread] =
          Reread(p, Unread, Unread, Unread, p.text, p.gates)
  <2> DEFINE q == Reread(p, p.revision, p.branch, p.dirty, p.text, p.gates)
  <2>1. p = q
    BY <1>1 DEF IsPlan, Reread
  <2>2. [q EXCEPT !.revision = Unread] =
            Reread(p, Unread, p.branch, p.dirty, p.text, p.gates)
    BY DEF Reread
  <2>3. [Reread(p, Unread, p.branch, p.dirty, p.text, p.gates) EXCEPT !.branch = Unread] =
            Reread(p, Unread, Unread, p.dirty, p.text, p.gates)
    BY DEF Reread
  <2>4. [Reread(p, Unread, Unread, p.dirty, p.text, p.gates) EXCEPT !.dirty = Unread] =
            Reread(p, Unread, Unread, Unread, p.text, p.gates)
    BY DEF Reread
  <2> HIDE DEF q, p
  <2> QED BY <2>1, <2>2, <2>3, <2>4
<1>4. [plan EXCEPT ![j].revision = Unread, ![j].branch = Unread, ![j].dirty = Unread] =
          [plan EXCEPT ![j] =
              [[[p EXCEPT !.revision = Unread] EXCEPT !.branch = Unread] EXCEPT !.dirty = Unread]]
  BY DEF StagingShape
<1> HIDE DEF p
<1>5. IdentityFails(j) => plan' = [plan EXCEPT ![j] =
                     Reread(p, Unread, Unread, Unread, p.text, p.gates)]
  BY <1>3, <1>4 DEF IdentityFails
<1> QED BY <1>2, <1>5 DEF Begin, p

Outcome(created, unchanged, refused, ready, found) ==
    [created |-> created, unchanged |-> unchanged, refused |-> refused, ready |-> ready,
     found |-> found]

(* What one step of command j makes of its result.                         *)
LEMMA ResultAfter ==
    ASSUME StagingShape, NEW j \in Job
    PROVE  LET r == result[j]
               a == Here(j)
           IN  /\ Compare(j) => result' = [result EXCEPT ![j] =
                      IF Class(j, a) = "created"
                      THEN Outcome(r.created \cup {a}, r.unchanged, r.refused, r.ready, r.found)
                      ELSE IF Class(j, a) = "unchanged"
                      THEN Outcome(r.created, r.unchanged \cup {a}, r.refused, r.ready, r.found)
                      ELSE Outcome(r.created, r.unchanged, r.refused \cup {a}, r.ready, r.found)]
               /\ \A found : [result EXCEPT ![j].ready = TRUE, ![j].found = found] =
                      [result EXCEPT ![j] =
                          Outcome(r.created, r.unchanged, r.refused, TRUE, found)]
<1> DEFINE r == result[j]
           q == Outcome(r.created, r.unchanged, r.refused, r.ready, r.found)
           a == Here(j)
<1>1. r = q
  BY DEF StagingShape, IsResult, Outcome
<1>2. ASSUME NEW v
      PROVE  /\ [q EXCEPT !["created"] = v] =
                    Outcome(v, r.unchanged, r.refused, r.ready, r.found)
             /\ [q EXCEPT !["unchanged"] = v] =
                    Outcome(r.created, v, r.refused, r.ready, r.found)
             /\ [q EXCEPT !["refused"] = v] =
                    Outcome(r.created, r.unchanged, v, r.ready, r.found)
  <2>1. [q EXCEPT !.created = v] = Outcome(v, r.unchanged, r.refused, r.ready, r.found)
    BY DEF Outcome
  <2>2. [q EXCEPT !.unchanged = v] = Outcome(r.created, v, r.refused, r.ready, r.found)
    BY DEF Outcome
  <2>3. [q EXCEPT !.refused = v] = Outcome(r.created, r.unchanged, v, r.ready, r.found)
    BY DEF Outcome
  <2> HIDE DEF q, r
  <2> QED BY <2>1, <2>2, <2>3
<1>3. ASSUME NEW found
      PROVE  [result EXCEPT ![j].ready = TRUE, ![j].found = found] =
                 [result EXCEPT ![j] =
                      Outcome(r.created, r.unchanged, r.refused, TRUE, found)]
  <2>0. ASSUME NEW v PROVE [q EXCEPT !.ready = v] =
            Outcome(r.created, r.unchanged, r.refused, v, r.found)
    BY DEF Outcome
  <2>1. [q EXCEPT !.ready = TRUE] =
            Outcome(r.created, r.unchanged, r.refused, TRUE, r.found)
    <3> HIDE DEF q, r
    <3> QED BY Zenon, <2>0
  <2>2. [Outcome(r.created, r.unchanged, r.refused, TRUE, r.found) EXCEPT !.found = found] =
            Outcome(r.created, r.unchanged, r.refused, TRUE, found)
    <3>1. ASSUME NEW v PROVE
            [Outcome(r.created, r.unchanged, r.refused, v, r.found) EXCEPT !.found = found] =
                Outcome(r.created, r.unchanged, r.refused, v, found)
      BY DEF Outcome
    <3> HIDE DEF q, r
    <3> QED BY Zenon, <3>1
  <2>3. [result EXCEPT ![j].ready = TRUE, ![j].found = found] =
            [result EXCEPT ![j] = [[r EXCEPT !.ready = TRUE] EXCEPT !.found = found]]
    BY DEF StagingShape
  <2> HIDE DEF q, r
  <2> QED BY <1>1, <2>1, <2>2, <2>3
<1>4. ASSUME NEW c PROVE [result EXCEPT ![j][c] = @ \cup {a}] =
                             [result EXCEPT ![j] = [r EXCEPT ![c] = r[c] \cup {a}]]
  OBVIOUS
<1>5. /\ r["created"] = r.created /\ r["unchanged"] = r.unchanged
      /\ r["refused"] = r.refused
  OBVIOUS
<1>6. Class(j, a) \in {"refused", "created", "unchanged"}
  BY Zenon DEF Class
<1>7. Compare(j) => result' = [result EXCEPT ![j][Class(j, a)] = @ \cup {a}]
  BY DEF Compare
<1> HIDE DEF r, q, a
<1>8. Compare(j) => result' = [result EXCEPT ![j] =
                      IF Class(j, a) = "created"
                      THEN Outcome(r.created \cup {a}, r.unchanged, r.refused, r.ready, r.found)
                      ELSE IF Class(j, a) = "unchanged"
                      THEN Outcome(r.created, r.unchanged \cup {a}, r.refused, r.ready, r.found)
                      ELSE Outcome(r.created, r.unchanged, r.refused \cup {a}, r.ready, r.found)]
  <2> SUFFICES ASSUME Compare(j) PROVE result' = [result EXCEPT ![j] =
                      IF Class(j, a) = "created"
                      THEN Outcome(r.created \cup {a}, r.unchanged, r.refused, r.ready, r.found)
                      ELSE IF Class(j, a) = "unchanged"
                      THEN Outcome(r.created, r.unchanged \cup {a}, r.refused, r.ready, r.found)
                      ELSE Outcome(r.created, r.unchanged, r.refused \cup {a}, r.ready, r.found)]
    OBVIOUS
  <2> DEFINE c == Class(j, a)
  <2>1. result' = [result EXCEPT ![j] = [r EXCEPT ![c] = r[c] \cup {a}]]
    BY <1>4, <1>7
  <2>2. c \in {"refused", "created", "unchanged"}
    BY <1>6
  <2> HIDE DEF c
  <2>3. CASE c = "created"
    <3>1. [r EXCEPT !["created"] = r.created \cup {a}] =
              Outcome(r.created \cup {a}, r.unchanged, r.refused, r.ready, r.found)
      BY <1>1, <1>2
    <3> QED BY <1>5, <2>1, <2>3, <3>1 DEF c
  <2>4. CASE c = "unchanged"
    <3>1. [r EXCEPT !["unchanged"] = r.unchanged \cup {a}] =
              Outcome(r.created, r.unchanged \cup {a}, r.refused, r.ready, r.found)
      BY <1>1, <1>2
    <3> QED BY <1>5, <2>1, <2>4, <3>1 DEF c
  <2>5. CASE c = "refused"
    <3>1. [r EXCEPT !["refused"] = r.refused \cup {a}] =
              Outcome(r.created, r.unchanged, r.refused \cup {a}, r.ready, r.found)
      BY <1>1, <1>2
    <3> QED BY <1>5, <2>1, <2>5, <3>1 DEF c
  <2> QED BY <2>2, <2>3, <2>4, <2>5
<1> QED BY <1>3, <1>8 DEF r, a

LEMMA ShapeStep == StagingShape /\ [Next]_vars => StagingShape'
<1> SUFFICES ASSUME StagingShape, [Next]_vars PROVE StagingShape'
  OBVIOUS
<1> USE DEF source, command, ghost, Step
<1>0. /\ head \in Rev /\ work \in Sources /\ output = [a \in Kind |-> output[a]]
      /\ phase \in [Job -> Steps] /\ at \in [Job -> Nat \ {0}]
      /\ plan = [j \in Job |-> plan[j]] /\ result = [j \in Job |-> result[j]]
      /\ \A j \in Job : IsPlan(plan[j]) /\ IsResult(result[j])
  BY DEF StagingShape
<1>a. ASSUME NEW j \in Job, NEW p, IsPlan(p), plan' = [plan EXCEPT ![j] = p]
      PROVE  plan' = [k \in Job |-> plan'[k]] /\ \A k \in Job : IsPlan(plan'[k])
  BY <1>0, <1>a
<1>b. ASSUME NEW j \in Job, NEW r, IsResult(r), result' = [result EXCEPT ![j] = r]
      PROVE  result' = [k \in Job |-> result'[k]] /\ \A k \in Job : IsResult(result'[k])
  BY <1>0, <1>b
<1>c. \A p, a, b, c, d, e : IsPlan(Reread(p, a, b, c, d, e))
  BY DEF IsPlan, Reread
<1>d. \A a, b, c, d, e : IsResult(Outcome(a, b, c, d, e))
  BY DEF IsResult, Outcome
<1>1. ASSUME NEW j \in Job, NEW e \in Enrollment,
             NEW m \in {"stage", "apply", "reconcile"}, Begin(j, e, m)
      PROVE  StagingShape'
  <2> DEFINE p == [mode |-> m, endpoint |-> e, policy |-> work.policy,
                   revision |-> Unread, branch |-> Unread, dirty |-> Unread,
                   text |-> Unread, gates |-> Unread]
  <2>1. plan' = [plan EXCEPT ![j] = p]
    BY <1>1, PlanAfter
  <2>2. IsPlan(p)
    BY DEF IsPlan
  <2> HIDE DEF p
  <2>3. plan' = [k \in Job |-> plan'[k]] /\ \A k \in Job : IsPlan(plan'[k])
    BY <1>a, <2>1, <2>2
  <2> QED BY <1>0, <1>1, <2>3 DEF Begin, StagingShape, Steps
<1>2. ASSUME NEW j \in Job, \/ ReadRevision(j) \/ ReadBranch(j) \/ ReadStatus(j)
                            \/ IdentityFails(j) \/ ReadText(j) \/ ReadGates(j)
      PROVE  StagingShape'
  <2>1. \E a, b, c, d, e : plan' = [plan EXCEPT ![j] = Reread(plan[j], a, b, c, d, e)]
    <3>1. CASE ReadRevision(j)
      BY <3>1, FieldRead DEF ReadRevision
    <3>2. CASE ReadBranch(j)
      BY <3>2, FieldRead DEF ReadBranch
    <3>3. CASE ReadStatus(j)
      BY <3>3, FieldRead DEF ReadStatus
    <3>4. CASE IdentityFails(j)
      BY <3>4, PlanAfter
    <3>5. CASE ReadText(j)
      BY <3>5, FieldRead DEF ReadText
    <3>6. CASE ReadGates(j)
      BY <3>6, FieldRead DEF ReadGates
    <3> QED BY <1>2, <3>1, <3>2, <3>3, <3>4, <3>5, <3>6
  <2>2. plan' = [k \in Job |-> plan'[k]] /\ \A k \in Job : IsPlan(plan'[k])
    BY <1>a, <1>c, <2>1
  <2>3. UNCHANGED <<source, output, at, result>> /\ phase' \in [Job -> Steps]
    BY <1>0, <1>2 DEF ReadRevision, ReadBranch, ReadStatus, IdentityFails, ReadText,
                      ReadGates, Steps
  <2> QED BY <1>0, <2>2, <2>3 DEF StagingShape
<1>3. ASSUME NEW j \in Job, Ends(j), UNCHANGED source, UNCHANGED output
      PROVE  StagingShape'
  <2>1. IsPlan(NoPlan) /\ IsResult(NoResult)
    BY DEF IsPlan, IsResult, NoPlan, NoResult
  <2>2. /\ plan' = [k \in Job |-> plan'[k]] /\ \A k \in Job : IsPlan(plan'[k])
        /\ result' = [k \in Job |-> result'[k]] /\ \A k \in Job : IsResult(result'[k])
    BY <1>3, <1>a, <1>b, <2>1 DEF Ends
  <2> QED BY <1>0, <1>3, <2>2 DEF Ends, StagingShape, Steps
<1>4. ASSUME NEW j \in Job, Compare(j) PROVE StagingShape'
  <2> DEFINE r == result[j]
             a == Here(j)
             o == IF Class(j, a) = "created"
                  THEN Outcome(r.created \cup {a}, r.unchanged, r.refused, r.ready, r.found)
                  ELSE IF Class(j, a) = "unchanged"
                  THEN Outcome(r.created, r.unchanged \cup {a}, r.refused, r.ready, r.found)
                  ELSE Outcome(r.created, r.unchanged, r.refused \cup {a}, r.ready, r.found)
  <2>1. result' = [result EXCEPT ![j] = o]
    BY <1>4, ResultAfter
  <2>2. IsResult(o)
    <3> HIDE DEF r, a
    <3> QED BY <1>d
  <2> HIDE DEF o
  <2>3. result' = [k \in Job |-> result'[k]] /\ \A k \in Job : IsResult(result'[k])
    BY <1>b, <2>1, <2>2
  <2>4. UNCHANGED <<source, output, phase, plan>> /\ at' = [at EXCEPT ![j] = at[j] + 1]
    BY <1>4 DEF Compare, Advance
  <2>5. at' \in [Job -> Nat \ {0}]
    BY <1>0, <2>4
  <2> QED BY <1>0, <2>3, <2>4, <2>5 DEF StagingShape
<1>5. ASSUME NEW j \in Job, \/ Accept(j) \/ Keep(j) \/ Open(j) \/ Truncate(j) \/ Fill(j)
                            \/ Staged(j)
      PROVE  StagingShape'
  BY <1>0, <1>5 DEF Accept, Keep, Open, Truncate, Fill, Staged, Advance, Steps, StagingShape
<1>6. ASSUME NEW j \in Job, Reconcile(j) PROVE StagingShape'
  <2>1. PICK found : \/ result' = [result EXCEPT ![j].ready = TRUE, ![j].found = found]
                     \/ result' = result
    BY <1>6 DEF Reconcile
  <2>2. \/ result' = [result EXCEPT ![j] =
                Outcome(result[j].created, result[j].unchanged, result[j].refused, TRUE, found)]
        \/ result' = result
    BY <2>1, ResultAfter
  <2>3. result' = [k \in Job |-> result'[k]] /\ \A k \in Job : IsResult(result'[k])
    BY <1>0, <1>b, <1>d, <2>2
  <2> QED BY <1>0, <1>6, <2>3 DEF Reconcile, Steps, StagingShape
<1>7. ASSUME NEW s \in EditTo, Edit(s) PROVE StagingShape'
  BY <1>0, <1>7 DEF Edit, Sources, StagingShape
<1>8. ASSUME NEW r \in Rev, Checkout(r) PROVE StagingShape'
  BY <1>0, <1>8 DEF Checkout, Sources, StagingShape
<1>9. ASSUME NEW a \in Kind, NEW f \in TouchTo, Touch(a, f) PROVE StagingShape'
  BY <1>0, <1>9 DEF Touch, StagingShape
<1>10. CASE UNCHANGED vars
  BY <1>0, <1>10 DEF vars, StagingShape
<1> QED
  BY <1>1, <1>2, <1>3, <1>4, <1>5, <1>6, <1>7, <1>8, <1>9, <1>10
     DEF Next, Plan, Stage, TextMissing, RefuseApply, Refuse, Done, Crash

(* Gates that are all shut say what they stand for.                        *)
LEMMA GatesShut ==
    ASSUME NEW p, NEW adr, Gates(p, adr) = {}
    PROVE  /\ adr = "accepted" /\ Identified(p)
           /\ p.branch = p.policy.default_branch /\ ~p.dirty
<1> DEFINE open == [
          policy     |-> p.endpoint.policy # p.policy.id,
          class      |-> p.endpoint.class \notin p.policy.classes,
          endpoint   |-> p.endpoint.id \notin p.policy.endpoints,
          surface    |-> ~(p.endpoint.surfaces \subseteq p.policy.surfaces),
          governance |-> p.policy.status # "accepted",
          blockers   |-> p.policy.blocked_by # {},
          unmanaged  |-> ~p.policy.managed,
          adr        |-> adr # p.policy.status,
          identity   |-> ~Identified(p),
          origin     |-> Identified(p) /\ p.policy.repository # Origin,
          branch     |-> Identified(p) /\ p.branch # p.policy.default_branch,
          dirty      |-> Identified(p) /\ p.dirty]
<1>1. \A g \in DOMAIN open : ~open[g]
  BY Zenon DEF Gates
<1>2. ~open["governance"] /\ ~open["adr"] /\ ~open["identity"] /\ ~open["branch"] /\ ~open["dirty"]
  <2>1. {"governance", "adr", "identity", "branch", "dirty"} \subseteq DOMAIN open
    OBVIOUS
  <2> HIDE DEF open
  <2> QED BY <1>1, <2>1
<1> QED BY <1>2

(* The payload of a plan consists of artifacts, and the attestation is     *)
(* none of them.                                                           *)
LEMMA PayloadIsFiles ==
    ASSUME NEW p
    PROVE  /\ Payload(p) \in Seq(Files)
           /\ Elements(Payload(p)) \subseteq Files
           /\ DOMAIN Digests(p) = Elements(Payload(p))
           /\ "attestation" \notin Files
<1>1. /\ CodexFiles \in Seq(Files) /\ ClaudeFiles \in Seq(Files) /\ "attestation" \notin Files
  BY StagingAssumption
<1>2. Payload(p) \in Seq(Files)
  BY <1>1 DEF Payload
<1>3. Elements(Payload(p)) \subseteq Files
  <2> DEFINE s == Payload(p)
  <2>1. \A n \in DOMAIN s : s[n] \in Files
    BY <1>2
  <2> HIDE DEF s
  <2> QED BY <2>1 DEF Elements, s
<1> QED BY <1>1, <1>2, <1>3 DEF Digests

LEMMA ToldStep == StagingShape /\ Told /\ [Next]_vars => Told'
<1> SUFFICES ASSUME StagingShape, Told, [Next]_vars PROVE Told'
  OBVIOUS
<1> USE DEF source, command, ghost
<1>0. /\ head \in Rev /\ work \in Sources /\ phase \in [Job -> Steps]
      /\ plan = [j \in Job |-> plan[j]] /\ result = [j \in Job |-> result[j]]
      /\ \A j \in Job : IsPlan(plan[j]) /\ IsResult(result[j])
      /\ Unread \notin BOOLEAN
  BY StagingAssumption DEF StagingShape
<1>1. ASSUME NEW k \in Job, UNCHANGED source, phase'[k] = phase[k], plan'[k] = plan[k],
             result'[k] = result[k], k \in moved' <=> k \in moved
      PROVE  ToldOf(k)'
  BY <1>1 DEF Told, ToldOf
<1>2. ASSUME NEW j \in Job, NEW f, NEW p, NEW r, UNCHANGED source,
             phase' = [phase EXCEPT ![j] = f], plan' = [plan EXCEPT ![j] = p],
             result' = [result EXCEPT ![j] = r], moved' \in {moved, moved \ {j}},
             j \notin moved' => /\ SoFar(f, p, head, work) /\ InTheEnd(f, p)
                                /\ r.ready => Matches(p, r.found),
             r.ready => f = "reported", Drawn(f, p)
      PROVE  Told'
  <2>1. /\ phase'[j] = f /\ plan'[j] = p /\ result'[j] = r
        /\ \A k \in Job \ {j} : /\ phase'[k] = phase[k] /\ plan'[k] = plan[k]
                                /\ result'[k] = result[k] /\ (k \in moved' <=> k \in moved)
    BY <1>0, <1>2
  <2>2. ToldOf(j)'
    BY <1>2, <2>1 DEF ToldOf
  <2>3. \A k \in Job \ {j} : ToldOf(k)'
    BY <1>1, <1>2, <2>1
  <2> QED BY <2>2, <2>3 DEF Told
<1>3. ASSUME NEW j \in Job
      PROVE  /\ plan = [plan EXCEPT ![j] = plan[j]]
             /\ result = [result EXCEPT ![j] = result[j]]
  BY <1>0
<1>4. ASSUME NEW j \in Job, Ends(j), UNCHANGED source, UNCHANGED moved PROVE Told'
  <2>1. SoFar("idle", NoPlan, head, work) /\ InTheEnd("idle", NoPlan) /\ Drawn("idle", NoPlan)
    BY DEF SoFar, InTheEnd, Drawn
  <2>2. ~NoResult.ready
    BY DEF NoResult
  <2> QED BY <1>2, <1>4, <2>1, <2>2 DEF Ends
(* A step of j before its report, which leaves its result alone.           *)
<1>5. ASSUME NEW j \in Job, phase[j] # "reported", UNCHANGED <<source, result, moved>>,
             NEW f, NEW p, phase' = [phase EXCEPT ![j] = f], plan' = [plan EXCEPT ![j] = p],
             j \notin moved => SoFar(f, p, head, work) /\ InTheEnd(f, p), Drawn(f, p)
      PROVE  Told'
  <2>1. ~result[j].ready
    BY <1>5 DEF Told, ToldOf
  <2>2. result' = [result EXCEPT ![j] = result[j]]
    BY <1>3, <1>5
  <2> QED BY <1>2, <1>5, <2>1, <2>2
<1>6. ASSUME NEW j \in Job
      PROVE  /\ j \notin moved => SoFar(phase[j], plan[j], head, work) /\ InTheEnd(phase[j], plan[j])
             /\ Drawn(phase[j], plan[j])
  BY DEF Told, ToldOf
<1>7. ASSUME NEW j \in Job, NEW e \in Enrollment,
             NEW m \in {"stage", "apply", "reconcile"}, Begin(j, e, m)
      PROVE  Told'
  <2> DEFINE p == [mode |-> m, endpoint |-> e, policy |-> work.policy,
                   revision |-> Unread, branch |-> Unread, dirty |-> Unread,
                   text |-> Unread, gates |-> Unread]
  <2>1. plan' = [plan EXCEPT ![j] = p]
    BY <1>7, PlanAfter
  <2>2. p.policy = work.policy
    OBVIOUS
  <2> HIDE DEF p
  <2>3. /\ SoFar("revision", p, head, work) /\ InTheEnd("revision", p)
        /\ Drawn("revision", p)
    BY <1>0, <2>2 DEF SoFar, InTheEnd, Drawn
  <2>4. ~result[j].ready
    BY <1>7 DEF Begin, Step, Told, ToldOf
  <2>5. result' = [result EXCEPT ![j] = result[j]]
    BY <1>3, <1>7 DEF Begin
  <2>6. /\ phase' = [phase EXCEPT ![j] = "revision"] /\ moved' = moved \ {j}
        /\ UNCHANGED source
    BY <1>7 DEF Begin, Step
  <2> QED BY <1>2, <2>1, <2>3, <2>4, <2>5, <2>6
<1>8. ASSUME NEW j \in Job, ReadRevision(j) PROVE Told'
  <2> DEFINE o == plan[j]
             p == Reread(o, head, o.branch, o.dirty, o.text, o.gates)
  <2>1. plan' = [plan EXCEPT ![j] = p]
    BY <1>8, FieldRead DEF ReadRevision
  <2>2. p.policy = o.policy /\ p.revision = head
    BY DEF Reread
  <2> HIDE DEF p
  <2>3. /\ j \notin moved => SoFar("branch", p, head, work) /\ InTheEnd("branch", p)
        /\ Drawn("branch", p)
    BY <1>6, <1>8, <2>2 DEF ReadRevision, Step, SoFar, InTheEnd, Drawn
  <2> QED BY <1>5, <1>8, <2>1, <2>3 DEF ReadRevision, Step
<1>9. ASSUME NEW j \in Job, ReadBranch(j) PROVE Told'
  <2> DEFINE o == plan[j]
             p == Reread(o, o.revision, BranchOf[head], o.dirty, o.text, o.gates)
  <2>1. plan' = [plan EXCEPT ![j] = p]
    BY <1>9, FieldRead DEF ReadBranch
  <2>2. p.policy = o.policy /\ p.revision = o.revision /\ p.branch = BranchOf[head]
    BY DEF Reread
  <2> HIDE DEF p
  <2>3. /\ j \notin moved => SoFar("status", p, head, work) /\ InTheEnd("status", p)
        /\ Drawn("status", p)
    BY <1>6, <1>9, <2>2 DEF ReadBranch, Step, SoFar, InTheEnd, Drawn
  <2> QED BY <1>5, <1>9, <2>1, <2>3 DEF ReadBranch, Step
<1>10. ASSUME NEW j \in Job, ReadStatus(j) PROVE Told'
  <2> DEFINE o == plan[j]
             d == work # Tree[head]
             p == Reread(o, o.revision, o.branch, d, o.text, o.gates)
  <2>0. ASSUME NEW v
        PROVE  /\ Reads(j, "dirty", v) => plan' = [plan EXCEPT ![j] =
                      Reread(o, o.revision, o.branch, v, o.text, o.gates)]
               /\ Reread(o, o.revision, o.branch, v, o.text, o.gates).dirty = v
    BY FieldRead DEF Reread
  <2>1. plan' = [plan EXCEPT ![j] = p]
    BY Zenon, <1>10, <2>0 DEF ReadStatus
  <2>2. p.policy = o.policy /\ p.revision = o.revision /\ p.branch = o.branch
    BY DEF Reread
  <2>3. p.dirty = d
    BY Zenon, <2>0
  <2> HIDE DEF p, d
  <2>4. /\ j \notin moved => SoFar("text", p, head, work) /\ InTheEnd("text", p)
        /\ Drawn("text", p)
    <3>1. j \notin moved => IdentityOf(p, head, work)
      BY <1>6, <1>10, <2>2, <2>3 DEF ReadStatus, Step, SoFar, IdentityOf, d
    <3>2. j \notin moved /\ p.dirty = FALSE => p.policy = work.policy
      <4>1. CASE d
        <5>1. d = TRUE
          BY <4>1 DEF d
        <5> QED BY <2>3, <5>1
      <4>2. CASE ~d
        BY <1>6, <1>10, <2>2, <4>2 DEF ReadStatus, Step, SoFar, d
      <4> QED BY <4>1, <4>2
    <3>3. InTheEnd("text", p) /\ Drawn("text", p)
      BY <1>6, <1>10, <2>2 DEF ReadStatus, Step, InTheEnd, Drawn
    <3> QED BY <3>1, <3>2, <3>3 DEF SoFar
  <2> QED BY <1>5, <1>10, <2>1, <2>4 DEF ReadStatus, Step
<1>11. ASSUME NEW j \in Job, IdentityFails(j) PROVE Told'
  <2> DEFINE o == plan[j]
             p == Reread(o, Unread, Unread, Unread, o.text, o.gates)
  <2>1. plan' = [plan EXCEPT ![j] = p]
    BY <1>11, PlanAfter
  <2>2. p.policy = o.policy /\ p.revision = Unread /\ p.dirty = Unread
    BY DEF Reread
  <2> HIDE DEF p
  <2>3. /\ j \notin moved => SoFar("text", p, head, work) /\ InTheEnd("text", p)
        /\ Drawn("text", p)
    BY <1>0, <1>6, <1>11, <2>2 DEF IdentityFails, SoFar, IdentityOf, InTheEnd, Drawn
  <2> QED BY <1>5, <1>11, <2>1, <2>3 DEF IdentityFails
<1>12. ASSUME NEW j \in Job, ReadText(j) PROVE Told'
  <2> DEFINE o == plan[j]
             p == Reread(o, o.revision, o.branch, o.dirty, work.text, o.gates)
  <2>1. plan' = [plan EXCEPT ![j] = p]
    BY <1>12, FieldRead DEF ReadText
  <2>2. /\ p.policy = o.policy /\ p.revision = o.revision /\ p.branch = o.branch
        /\ p.dirty = o.dirty /\ p.text = work.text
    BY DEF Reread
  <2> HIDE DEF p
  <2>3. /\ j \notin moved => SoFar("gates", p, head, work) /\ InTheEnd("gates", p)
        /\ Drawn("gates", p)
    <3>1. j \notin moved => /\ IdentityOf(p, head, work)
                            /\ p.dirty = FALSE => p.policy = work.policy
      BY <1>6, <1>12, <2>2 DEF ReadText, Step, SoFar, IdentityOf
    <3> QED BY <1>0, <1>6, <1>12, <2>2, <3>1 DEF ReadText, Step, SoFar, InTheEnd, Drawn
  <2> QED BY <1>5, <1>12, <2>1, <2>3 DEF ReadText, Step
<1>13. ASSUME NEW j \in Job, ReadGates(j) PROVE Told'
  <2> DEFINE o == plan[j]
             g == Gates(o, work.adr)
             p == Reread(o, o.revision, o.branch, o.dirty, o.text, g)
             f == IF o.mode = "stage" THEN "compare" ELSE "observe"
  <2>0. phase[j] = "gates" /\ phase' = [phase EXCEPT ![j] = f]
    BY <1>13 DEF ReadGates, Step
  <2>1. plan' = [plan EXCEPT ![j] = p]
    BY <1>13, FieldRead DEF ReadGates
  <2>2. /\ p.policy = o.policy /\ p.revision = o.revision /\ p.branch = o.branch
        /\ p.dirty = o.dirty /\ p.text = o.text /\ p.gates = g
    BY DEF Reread
  <2>3. g = {} => /\ work.adr = "accepted" /\ Identified(o)
                  /\ o.branch = o.policy.default_branch /\ ~o.dirty
    BY GatesShut
  <2>4. f \in {"compare", "observe"}
    OBVIOUS
  <2>5. j \notin moved => /\ o.dirty = FALSE => o.policy = work.policy
                          /\ o.text = work.text /\ IdentityOf(o, head, work)
    BY <1>6, <2>0 DEF SoFar
  <2>6. Drawn("gates", o)
    BY <1>6, <2>0
  <2> HIDE DEF p, f, g, o
  <2>7. j \notin moved => InTheEnd(f, p)
    <3> SUFFICES ASSUME j \notin moved PROVE InTheEnd(f, p)
      OBVIOUS
    <3>1. CASE o.revision = head /\ o.branch = BranchOf[head] /\ o.dirty = (work # Tree[head])
      <4>1. o.dirty = FALSE => work = Tree[head]
        BY <3>1
      <4>2. Permitted(p) => o.dirty = FALSE
        BY <2>2, <2>3, <3>1 DEF Permitted
      <4> QED BY <2>2, <2>3, <2>5, <3>1, <4>1, <4>2 DEF InTheEnd, Permitted
    <3>2. CASE o.revision = Unread /\ o.dirty = Unread
      <4>1. p.dirty # FALSE /\ ~Permitted(p)
        BY <1>0, <2>2, <2>3, <3>2 DEF Permitted, Identified
      <4> QED BY <4>1 DEF InTheEnd
    <3> QED BY <2>5, <3>1, <3>2 DEF IdentityOf
  <2>8. SoFar(f, p, head, work) /\ Drawn(f, p)
    BY <2>2, <2>4, <2>6 DEF SoFar, Drawn
  <2> QED BY <1>5, <1>13, <2>0, <2>1, <2>7, <2>8 DEF ReadGates
<1>14. ASSUME NEW j \in Job, NEW f \in {"compare", "write", "open", "fill", "staged"},
              phase[j] \in {"compare", "write", "open", "fill"},
              phase' = [phase EXCEPT ![j] = f], UNCHANGED <<source, plan, result, moved>>
       PROVE  Told'
  <2>1. /\ j \notin moved => SoFar(f, plan[j], head, work) /\ InTheEnd(f, plan[j])
        /\ Drawn(f, plan[j])
    BY <1>6, <1>14 DEF SoFar, InTheEnd, Drawn
  <2>2. plan' = [plan EXCEPT ![j] = plan[j]]
    BY <1>3, <1>14
  <2> QED BY <1>5, <1>14, <2>1, <2>2
<1>15. ASSUME NEW j \in Job, Compare(j) PROVE Told'
  <2> DEFINE r == result[j]
             a == Here(j)
             o == IF Class(j, a) = "created"
                  THEN Outcome(r.created \cup {a}, r.unchanged, r.refused, r.ready, r.found)
                  ELSE IF Class(j, a) = "unchanged"
                  THEN Outcome(r.created, r.unchanged \cup {a}, r.refused, r.ready, r.found)
                  ELSE Outcome(r.created, r.unchanged, r.refused \cup {a}, r.ready, r.found)
  <2>1. result' = [result EXCEPT ![j] = o]
    BY <1>15, ResultAfter
  <2>2. o.ready = r.ready
    <3>1. \A u, v, w, x, y : Outcome(u, v, w, x, y).ready = x
      BY DEF Outcome
    <3> HIDE DEF r, a
    <3> QED BY <3>1
  <2>3. ~r.ready
    BY <1>15 DEF Compare, Told, ToldOf
  <2>4. phase[j] = "compare" /\ UNCHANGED <<source, phase, plan, moved>>
    BY <1>15 DEF Compare
  <2> HIDE DEF o, r
  <2>5. phase' = [phase EXCEPT ![j] = "compare"] /\ plan' = [plan EXCEPT ![j] = plan[j]]
    BY <1>0, <2>4
  <2> QED BY <1>2, <1>6, <2>1, <2>2, <2>3, <2>4, <2>5
<1>16. ASSUME NEW j \in Job, Reconcile(j) PROVE Told'
  <2> DEFINE p == plan[j]
             r == result[j]
  <2>0. /\ phase[j] = "observe" /\ phase' = [phase EXCEPT ![j] = "reported"]
        /\ UNCHANGED <<source, plan, moved>>
    BY <1>16 DEF Reconcile, Step
  <2>1. ~r.ready
    BY <2>0 DEF Told, ToldOf
  <2>2. /\ j \notin moved => SoFar("reported", p, head, work) /\ InTheEnd("reported", p)
        /\ Drawn("reported", p)
    BY <1>6, <2>0 DEF SoFar, InTheEnd, Drawn
  <2>3. plan' = [plan EXCEPT ![j] = p]
    BY <1>3, <2>0
  <2>4. CASE result' = result
    <3>1. result' = [result EXCEPT ![j] = r]
      BY <1>3, <2>4
    <3> QED BY <1>2, <2>0, <2>1, <2>2, <2>3, <3>1
  <2>5. ASSUME NEW found, NEW credential \in BOOLEAN, Ready(p, found, credential),
               result' = [result EXCEPT ![j].ready = TRUE, ![j].found = found]
        PROVE  Told'
    <3> DEFINE o == Outcome(r.created, r.unchanged, r.refused, TRUE, found)
    <3>1. result' = [result EXCEPT ![j] = o]
      BY <2>5, ResultAfter
    <3>2. o.found = found
      BY DEF Outcome
    <3>3. Permitted(p) /\ \A a \in DOMAIN Digests(p) : Observed(p, a, found[a]) = "matched"
      BY <2>5 DEF Ready
    <3>4. \A a, g : Observed(p, a, g) = "matched" => g = Content(p, a)
      BY DEF Observed
    <3>5. \A a \in DOMAIN Digests(p) : Content(p, a) = Rendered(a, p.policy, p.text)
      BY PayloadIsFiles DEF Content
    <3>6. j \notin moved => Matches(p, found)
      <4> HIDE DEF p
      <4> QED BY <2>2, <3>3, <3>4, <3>5 DEF InTheEnd, Matches
    <3> HIDE DEF o
    <3> QED BY <1>2, <2>0, <2>2, <2>3, <3>1, <3>2, <3>6
  <2> QED BY <1>16, <2>4, <2>5 DEF Reconcile
<1>17. ASSUME UNCHANGED <<phase, plan, result>>, moved' = moved \cup Reading PROVE Told'
  <2> SUFFICES ASSUME NEW k \in Job PROVE ToldOf(k)'
    BY DEF Told
  <2>1. k \notin moved' => /\ k \notin moved
                           /\ phase[k] \notin {"revision", "branch", "status", "text", "gates"}
    BY <1>17 DEF Reading
  <2>2. ToldOf(k)
    BY DEF Told
  <2> QED BY <1>17, <2>1, <2>2 DEF ToldOf, SoFar
<1>18. CASE UNCHANGED <<source, phase, plan, result, moved>>
  BY <1>1, <1>18 DEF Told
<1>19. ASSUME NEW j \in Job, Plan(j) PROVE Told'
  BY <1>4, <1>8, <1>9, <1>10, <1>11, <1>12, <1>13, <1>19 DEF Plan, TextMissing, RefuseApply
<1>20. ASSUME NEW j \in Job, Stage(j) PROVE Told'
  <2>1. CASE \/ Accept(j) \/ Open(j) \/ Truncate(j) \/ Fill(j) \/ Staged(j)
    BY <1>14, <2>1 DEF Accept, Open, Truncate, Fill, Staged, Step
  <2>2. CASE Keep(j)
    BY <1>18, <2>2 DEF Keep
  <2>3. CASE Refuse(j)
    BY <1>4, <2>3 DEF Refuse
  <2> QED BY <1>15, <1>20, <2>1, <2>2, <2>3 DEF Stage
<1>21. ASSUME NEW j \in Job, Done(j) \/ Crash(j) PROVE Told'
  BY <1>4, <1>21 DEF Done, Crash
<1>22. ASSUME NEW s \in EditTo, Edit(s) PROVE Told'
  <2> SUFFICES ASSUME NEW k \in Job PROVE ToldOf(k)'
    BY DEF Told
  <2>1. UNCHANGED <<head, phase, plan, result>> /\ work' = s
    BY <1>22 DEF Edit
  <2>2. k \notin moved' =>
           /\ k \notin moved
           /\ phase[k] \notin {"text", "gates"}
           /\ phase[k] \in {"revision", "branch", "status"} => s # Tree[head]
    BY <1>22 DEF Edit, Unnoticed, Reading
  <2>3. ToldOf(k)
    BY DEF Told
  <2> QED BY <2>1, <2>2, <2>3 DEF ToldOf, SoFar
<1>23. ASSUME NEW r \in Rev, Checkout(r) PROVE Told'
  BY <1>17, <1>23 DEF Checkout
<1>24. ASSUME NEW a \in Kind, NEW f \in TouchTo, Touch(a, f) PROVE Told'
  BY <1>18, <1>24 DEF Touch
<1>25. CASE UNCHANGED vars
  BY <1>18, <1>25 DEF vars
<1> QED BY <1>7, <1>16, <1>19, <1>20, <1>21, <1>22, <1>23, <1>24, <1>25 DEF Next

LEMMA StagingStarts == Init => StagingShape /\ Told
<1> SUFFICES ASSUME Init PROVE StagingShape /\ Told
  OBVIOUS
<1>1. StagingShape
  <2>1. IsPlan(NoPlan) /\ IsResult(NoResult)
    BY DEF IsPlan, IsResult, NoPlan, NoResult
  <2> QED BY <2>1 DEF Init, StagingShape, Sources, Steps
<1>2. Told
  <2>1. ~NoResult.ready
    BY DEF NoResult
  <2> QED BY <2>1 DEF Init, Told, ToldOf, SoFar, InTheEnd, Drawn
<1> QED BY <1>1, <1>2

(* An endpoint is reported ready only if what it has installed is what an  *)
(* accepted revision of the default branch commits for it, for any number  *)
(* of commands at a time and whoever edits the policy before the status is *)
(* asked: ready_for_activation, contracts.py.                              *)
THEOREM ReadyMeansCommitted == Spec => []ReadyIsCommitted
<1>1. StagingShape /\ Told /\ [Next]_vars => StagingShape' /\ Told'
  BY ShapeStep, ToldStep
<1>2. Told => ReadyIsCommitted
  BY DEF Told, ToldOf, Matches, ReadyIsCommitted
<1> QED BY <1>1, <1>2, StagingStarts, PTL DEF Spec

(* The artifacts of a plan: its payload, and the attestation last.         *)
LEMMA ArtifactsInOrder ==
    ASSUME NEW p
    PROVE  LET all == Artifacts(p)
           IN  /\ Len(all) \in Nat \ {0} /\ DOMAIN all = 1..Len(all)
               /\ all[Len(all)] = "attestation"
               /\ \A n \in 1..Len(all) : n < Len(all) => all[n] \in Files
               /\ \A n \in 1..Len(all) : all[n] \in Kind
               /\ \A a \in DOMAIN Digests(p) : \E n \in 1..Len(all) : all[n] = a
<1> DEFINE s == Payload(p)
<1>1. s \in Seq(Files) /\ DOMAIN Digests(p) = Elements(s)
  BY PayloadIsFiles
<1>2. Artifacts(p) = Append(s, "attestation")
  BY DEF Artifacts
<1> HIDE DEF s
<1>3. s \in Seq(Kind)
  BY <1>1 DEF Kind, Files
<1>4. /\ Artifacts(p) \in Seq(Kind) /\ Len(Artifacts(p)) = Len(s) + 1
      /\ Artifacts(p)[Len(s) + 1] = "attestation"
      /\ \A n \in 1..Len(s) : Artifacts(p)[n] = s[n]
  BY <1>2, <1>3 DEF Kind
<1>5. \A n \in 1..Len(s) : s[n] \in Files
  BY <1>1
<1>6. \A a \in Elements(s) : \E n \in 1..Len(s) : s[n] = a
  BY <1>1 DEF Elements
<1>7. Len(s) \in Nat
  BY <1>1
<1>8. Len(Artifacts(p)) \in Nat \ {0} /\ DOMAIN Artifacts(p) = 1..Len(Artifacts(p))
  BY <1>4, <1>7
<1>9. \A n \in 1..Len(Artifacts(p)) : Artifacts(p)[n] \in Kind
  BY <1>4
<1>10. \A n \in 1..Len(Artifacts(p)) : n < Len(Artifacts(p)) => Artifacts(p)[n] \in Files
  BY <1>4, <1>5, <1>7
<1>11. \A a \in DOMAIN Digests(p) : \E n \in 1..Len(Artifacts(p)) : Artifacts(p)[n] = a
  <2> SUFFICES ASSUME NEW a \in Elements(s)
               PROVE  \E n \in 1..Len(Artifacts(p)) : Artifacts(p)[n] = a
    BY <1>1
  <2>1. PICK n \in 1..Len(s) : s[n] = a
    BY <1>6
  <2>2. n \in 1..Len(Artifacts(p)) /\ Artifacts(p)[n] = a
    BY <1>4, <1>7, <2>1
  <2> QED BY <2>2
<1> QED BY <1>4, <1>8, <1>9, <1>10, <1>11

(* How far a command in phase f, at artifact n of plan p, is with the      *)
(* files `out`, having classified them as r.                               *)
Progress(f, p, n, r, out) ==
    LET all == Artifacts(p)
        File(m) == out[all[m]]
        Of(m) == Content(p, all[m])
    IN  /\ f \in {"idle", "revision", "branch", "status", "text", "gates"} => n = 1
        /\ f = "compare" /\ r.refused = {} =>
               \A m \in 1..Len(all) : m < n => File(m) \in {Absent, Of(m)}
        /\ f \in {"write", "open", "fill"} =>
               \A m \in 1..Len(all) :
                   /\ m < n => File(m) = Of(m)
                   /\ m >= n => \/ File(m) \in {Absent, Of(m)}
                                \/ f = "fill" /\ all[m] = all[n]
        /\ f \in {"open", "fill"} => n <= Len(all)
        /\ f = "open" => File(n) = Absent
        /\ f = "fill" => File(n) = Truncated
        /\ f = "staged" => \A m \in 1..Len(all) : File(m) = Of(m)

Progressing == \A j \in Job : Progress(phase[j], plan[j], at[j], result[j], output)

OneAtATime == \A j, k \in Job : j = k

(* What a command renders is a file.                                       *)
LEMMA RenderedIsAFile ==
    ASSUME NEW f, NEW p, Drawn(f, p), f \in {"compare", "write", "open", "fill", "staged"},
           NEW a \in Files
    PROVE  Content(p, a) = Rendered(a, p.policy, p.text) /\ Content(p, a) # Absent
<1>1. a # "attestation"
  BY PayloadIsFiles
<1>2. PICK s \in Sources, t \in Sources : p.policy = s.policy /\ p.text = t.text
  BY DEF Drawn
<1>3. \A u \in Sources, v \in Sources, b \in Files : Rendered(b, u.policy, v.text) # Absent
  BY RenderedAssumption DEF Sources
<1> QED BY <1>1, <1>2, <1>3 DEF Content

LEMMA ProgressStep ==
    OneAtATime /\ StagingShape /\ Told /\ Progressing /\ [Next]_vars => Progressing'
<1> SUFFICES ASSUME OneAtATime, StagingShape, Told, Progressing, [Next]_vars
             PROVE  Progressing'
  OBVIOUS
<1> USE DEF source, command, ghost
<1>0. /\ output = [a \in Kind |-> output[a]] /\ phase \in [Job -> Steps]
      /\ at \in [Job -> Nat \ {0}]
      /\ plan = [j \in Job |-> plan[j]] /\ result = [j \in Job |-> result[j]]
      /\ \A j \in Job : IsPlan(plan[j]) /\ IsResult(result[j])
  BY DEF StagingShape
<1>1. ASSUME NEW j \in Job
      PROVE  /\ Progress(phase[j], plan[j], at[j], result[j], output)
             /\ Drawn(phase[j], plan[j]) /\ at[j] \in Nat \ {0}
  BY <1>0 DEF Progressing, Told, ToldOf
(* The command that steps is the only one.                                 *)
<1>2. ASSUME NEW j \in Job, Progress(phase'[j], plan'[j], at'[j], result'[j], output')
      PROVE  Progressing'
  <2>1. \A k \in Job : k = j
    BY DEF OneAtATime
  <2> QED BY <1>2, <2>1 DEF Progressing
<1>3. ASSUME NEW j \in Job, Ends(j) PROVE Progressing'
  <2>1. phase'[j] = "idle" /\ at'[j] = 1
    BY <1>0, <1>3 DEF Ends
  <2>2. Progress("idle", plan'[j], 1, result'[j], output')
    BY DEF Progress
  <2> QED BY <1>2, <2>1, <2>2
<1>4. ASSUME NEW j \in Job, UNCHANGED at,
             phase[j] \in {"idle", "revision", "branch", "status", "text", "gates"},
             phase'[j] \in {"revision", "branch", "status", "text", "gates", "compare", "observe"}
      PROVE  Progressing'
  <2>1. at[j] = 1
    BY <1>1, <1>4 DEF Progress
  <2>2. Progress(phase'[j], plan'[j], 1, result'[j], output')
    <3>1. ~\E m \in 1..Len(Artifacts(plan'[j])) : m < 1
      OBVIOUS
    <3> QED BY <1>4, <3>1 DEF Progress
  <2> QED BY <1>2, <1>4, <2>1, <2>2
<1>5. ASSUME NEW j \in Job, NEW e \in Enrollment,
             NEW m \in {"stage", "apply", "reconcile"}, Begin(j, e, m)
      PROVE  Progressing'
  <2>1. phase[j] = "idle" /\ phase'[j] = "revision" /\ UNCHANGED at
    BY <1>0, <1>5 DEF Begin, Step
  <2> QED BY <1>4, <2>1
<1>6. ASSUME NEW j \in Job, Plan(j) PROVE Progressing'
  <2>1. CASE TextMissing(j) \/ RefuseApply(j)
    BY <1>3, <2>1 DEF TextMissing, RefuseApply
  <2>2. CASE \/ ReadRevision(j) \/ ReadBranch(j) \/ ReadStatus(j) \/ IdentityFails(j)
             \/ ReadText(j) \/ ReadGates(j)
    <3>1. /\ phase[j] \in {"revision", "branch", "status", "text", "gates"}
          /\ phase'[j] \in {"branch", "status", "text", "gates", "compare", "observe"}
          /\ UNCHANGED at
      BY <1>0, <2>2 DEF ReadRevision, ReadBranch, ReadStatus, IdentityFails, ReadText,
                        ReadGates, Step
    <3> QED BY <1>4, <3>1
  <2> QED BY <1>6, <2>1, <2>2 DEF Plan
<1>7. ASSUME NEW j \in Job, Reconcile(j) PROVE Progressing'
  <2>1. phase'[j] = "reported"
    BY <1>0, <1>7 DEF Reconcile, Step
  <2>2. Progress("reported", plan'[j], at'[j], result'[j], output')
    BY DEF Progress
  <2> QED BY <1>2, <2>1, <2>2
<1>8. ASSUME NEW j \in Job, Compare(j) PROVE Progressing'
  <2> DEFINE p == plan[j]
             n == at[j]
             all == Artifacts(p)
             a == all[n]
             r == result[j]
  <2>0. /\ phase[j] = "compare" /\ n <= Len(all) /\ UNCHANGED <<output, phase, plan>>
        /\ at'[j] = n + 1 /\ n \in Nat \ {0} /\ Len(all) \in Nat /\ Here(j) = a
    BY <1>0, <1>8, ArtifactsInOrder DEF Compare, More, Advance, Here
  <2>1. result'[j].refused = {} => /\ r.refused = {}
                                   /\ output[a] \in {Absent, Content(p, a)}
    <3> DEFINE o == IF Class(j, a) = "created"
                    THEN Outcome(r.created \cup {a}, r.unchanged, r.refused, r.ready, r.found)
                    ELSE IF Class(j, a) = "unchanged"
                    THEN Outcome(r.created, r.unchanged \cup {a}, r.refused, r.ready, r.found)
                    ELSE Outcome(r.created, r.unchanged, r.refused \cup {a}, r.ready, r.found)
    <3>1. result' = [result EXCEPT ![j] = o]
      BY <1>8, <2>0, ResultAfter
    <3>2. result'[j] = o
      BY <1>0, <3>1
    <3>3. \A u, v, w, x, y : Outcome(u, v, w, x, y).refused = w
      BY DEF Outcome
    <3>4. CASE Class(j, a) = "created"
      <4>1. output[a] = Absent
        BY <3>4 DEF Class
      <4> QED BY <3>2, <3>3, <3>4, <4>1
    <3>5. CASE Class(j, a) = "unchanged"
      <4>1. output[a] = Content(p, a)
        BY <3>5 DEF Class
      <4> HIDE DEF p, a, r
      <4> QED BY <3>2, <3>3, <3>5, <4>1
    <3>6. CASE Class(j, a) \notin {"created", "unchanged"}
      <4> HIDE DEF p, a, r
      <4>1. o = Outcome(r.created, r.unchanged, r.refused \cup {a}, r.ready, r.found)
        BY <3>6
      <4>2. result'[j].refused = r.refused \cup {a}
        BY <3>2, <3>3, <4>1
      <4> QED BY <4>2
    <3> QED BY <3>4, <3>5, <3>6
  <2>2. Progress("compare", p, n, r, output)
    BY <1>1, <2>0
  <2> HIDE DEF p, n, r
  <2>3. Progress("compare", p, n + 1, result'[j], output)
    <3>1. \A m \in 1..Len(all) : m < n + 1 => m < n \/ m = n
      BY <2>0
    <3> QED BY <2>1, <2>2, <3>1 DEF Progress
  <2>4. plan'[j] = p /\ phase'[j] = "compare" /\ output' = output
    BY <2>0 DEF p
  <2> QED BY <1>2, <2>0, <2>3, <2>4
<1>9. ASSUME NEW j \in Job, Accept(j) PROVE Progressing'
  <2> DEFINE p == plan[j]
             n == at[j]
             all == Artifacts(p)
  <2>0. /\ phase[j] = "compare" /\ phase'[j] = "write" /\ ~(n <= Len(all))
        /\ result[j].refused = {} /\ UNCHANGED <<output, plan, result>>
        /\ at'[j] = 1 /\ n \in Nat \ {0} /\ Len(all) \in Nat
    BY <1>0, <1>9, ArtifactsInOrder DEF Accept, More, Step
  <2>1. Progress("compare", p, n, result[j], output)
    BY <1>1, <2>0
  <2> HIDE DEF p, n
  <2>2. Progress("write", p, 1, result[j], output)
    BY <2>0, <2>1 DEF Progress
  <2> QED BY <1>2, <2>0, <2>2 DEF p
<1>10. ASSUME NEW j \in Job, Keep(j) PROVE Progressing'
  <2> DEFINE p == plan[j]
             n == at[j]
             all == Artifacts(p)
  <2>0. /\ phase[j] = "write" /\ n <= Len(all) /\ output[all[n]] # Absent
        /\ UNCHANGED <<output, phase, plan, result>>
        /\ at'[j] = n + 1 /\ n \in Nat \ {0} /\ Len(all) \in Nat
    BY <1>0, <1>10, ArtifactsInOrder DEF Keep, More, Here, Advance
  <2>1. Progress("write", p, n, result[j], output)
    BY <1>1, <2>0
  <2> HIDE DEF p, n
  <2>2. Progress("write", p, n + 1, result[j], output)
    <3>1. \A m \in 1..Len(all) : /\ m < n + 1 => m < n \/ m = n
                                 /\ m >= n + 1 => m >= n
      BY <2>0
    <3>2. output[all[n]] = Content(p, all[n])
      BY <2>0, <2>1 DEF Progress
    <3> QED BY <2>1, <3>1, <3>2 DEF Progress
  <2> QED BY <1>2, <2>0, <2>2 DEF p
<1>11. ASSUME NEW j \in Job, Open(j) PROVE Progressing'
  <2> DEFINE p == plan[j]
             n == at[j]
             all == Artifacts(p)
  <2>0. /\ phase[j] = "write" /\ phase'[j] = "open"
        /\ n <= Len(all) /\ output[all[n]] = Absent
        /\ UNCHANGED <<output, plan, at, result>>
    BY <1>0, <1>11 DEF Open, More, Here, Step
  <2>1. Progress("write", p, n, result[j], output)
    BY <1>1, <2>0
  <2> HIDE DEF p, n
  <2>2. Progress("open", p, n, result[j], output)
    BY <2>0, <2>1 DEF Progress
  <2> QED BY <1>2, <2>0, <2>2 DEF p, n
<1>12. ASSUME NEW j \in Job, Truncate(j) PROVE Progressing'
  <2> DEFINE p == plan[j]
             n == at[j]
             all == Artifacts(p)
             a == all[n]
  <2>0. /\ phase[j] = "open" /\ phase'[j] = "fill" /\ UNCHANGED <<plan, at, result>>
        /\ output' = [output EXCEPT ![a] = Truncated] /\ n \in Nat \ {0} /\ Len(all) \in Nat
    BY <1>0, <1>12, ArtifactsInOrder DEF Truncate, Here, Step
  <2>1. Progress("open", p, n, result[j], output) /\ Drawn("open", p)
    BY <1>1, <2>0
  <2>2. /\ all[Len(all)] = "attestation"
        /\ \A m \in 1..Len(all) : m < Len(all) => all[m] \in Files
        /\ \A m \in 1..Len(all) : all[m] \in Kind
    BY ArtifactsInOrder
  <2> HIDE DEF p, n
  <2>3. n <= Len(all) /\ output[a] = Absent
    BY <2>1 DEF Progress
  <2>4. /\ output'[a] = Truncated
        /\ \A b \in Kind : b # a => output'[b] = output[b]
    BY <1>0, <2>0, <2>2, <2>3
  <2>5. \A m \in 1..Len(all) : m < n => all[m] # a
    <3> SUFFICES ASSUME NEW m \in 1..Len(all), m < n, all[m] = a PROVE FALSE
      OBVIOUS
    <3>1. all[m] \in Files
      BY <2>0, <2>2, <2>3
    <3>2. output[all[m]] = Content(p, all[m])
      BY <2>1 DEF Progress
    <3>3. Content(p, all[m]) # Absent
      BY <2>1, <3>1, RenderedIsAFile
    <3> QED BY <2>3, <3>2, <3>3
  <2>6. Progress("fill", p, n, result[j], output')
    <3>1. ASSUME NEW m \in 1..Len(all), m < n
          PROVE  output'[all[m]] = Content(p, all[m])
      BY <2>1, <2>2, <2>4, <2>5, <3>1 DEF Progress
    <3>2. ASSUME NEW m \in 1..Len(all), m >= n
          PROVE  output'[all[m]] \in {Absent, Content(p, all[m])} \/ all[m] = all[n]
      BY <2>1, <2>2, <2>4, <3>2 DEF Progress
    <3> QED BY <2>2, <2>3, <2>4, <3>1, <3>2 DEF Progress
  <2> QED BY <1>2, <2>0, <2>6 DEF p, n
<1>13. ASSUME NEW j \in Job, Fill(j) PROVE Progressing'
  <2> DEFINE p == plan[j]
             n == at[j]
             all == Artifacts(p)
             a == all[n]
  <2>0. /\ phase[j] = "fill" /\ phase'[j] = "write" /\ UNCHANGED <<plan, result>>
        /\ output' = [output EXCEPT ![a] = Content(p, a)] /\ at'[j] = n + 1
        /\ n \in Nat \ {0} /\ Len(all) \in Nat
    BY <1>0, <1>13, ArtifactsInOrder DEF Fill, Here, Step, Advance
  <2>1. Progress("fill", p, n, result[j], output)
    BY <1>1, <2>0
  <2>2. \A m \in 1..Len(all) : all[m] \in Kind
    BY ArtifactsInOrder
  <2> HIDE DEF p, n
  <2>3. n <= Len(all)
    BY <2>1 DEF Progress
  <2>4. /\ output'[a] = Content(p, a)
        /\ \A b \in Kind : b # a => output'[b] = output[b]
    BY <1>0, <2>0, <2>2, <2>3
  <2>5. ASSUME NEW m \in 1..Len(all), m < n + 1
        PROVE  output'[all[m]] = Content(p, all[m])
    <3>1. m < n \/ m = n
      BY <2>0, <2>5
    <3>2. m < n => output[all[m]] = Content(p, all[m])
      BY <2>1 DEF Progress
    <3> QED BY <2>2, <2>4, <3>1, <3>2
  <2>6. ASSUME NEW m \in 1..Len(all), m >= n + 1
        PROVE  output'[all[m]] \in {Absent, Content(p, all[m])}
    <3>1. m >= n
      BY <2>0, <2>6
    <3>2. output[all[m]] \in {Absent, Content(p, all[m])} \/ all[m] = a
      BY <2>1, <3>1 DEF Progress
    <3> QED BY <2>2, <2>4, <3>2
  <2>7. Progress("write", p, n + 1, result[j], output')
    BY <2>5, <2>6 DEF Progress
  <2> QED BY <1>2, <2>0, <2>7 DEF p
<1>14. ASSUME NEW j \in Job, Staged(j) PROVE Progressing'
  <2> DEFINE p == plan[j]
             n == at[j]
             all == Artifacts(p)
  <2>0. /\ phase[j] = "write" /\ phase'[j] = "staged" /\ ~(n <= Len(all))
        /\ UNCHANGED <<output, plan, at, result>> /\ n \in Nat \ {0} /\ Len(all) \in Nat
    BY <1>0, <1>14, ArtifactsInOrder DEF Staged, More, Step
  <2>1. Progress("write", p, n, result[j], output)
    BY <1>1, <2>0
  <2> HIDE DEF p, n
  <2>2. Progress("staged", p, n, result[j], output)
    BY <2>0, <2>1 DEF Progress
  <2> QED BY <1>2, <2>0, <2>2 DEF p, n
<1>15. ASSUME NEW j \in Job, Stage(j) PROVE Progressing'
  BY <1>3, <1>8, <1>9, <1>10, <1>11, <1>12, <1>13, <1>14, <1>15 DEF Stage, Refuse
<1>16. ASSUME NEW j \in Job, Done(j) \/ Crash(j) PROVE Progressing'
  BY <1>3, <1>16 DEF Done, Crash
<1>17. CASE UNCHANGED <<output, phase, plan, at, result>>
  BY <1>17 DEF Progressing
<1>18. ASSUME NEW a \in Kind, NEW f \in TouchTo, Touch(a, f) PROVE Progressing'
  <2> SUFFICES ASSUME NEW j \in Job
               PROVE  Progress(phase'[j], plan'[j], at'[j], result'[j], output')
    BY DEF Progressing
  <2>1. phase[j] = "idle" /\ UNCHANGED <<phase, plan, at, result>>
    BY <1>18 DEF Touch, Busy
  <2>2. at[j] = 1
    BY <1>1, <2>1 DEF Progress
  <2> QED BY <2>1, <2>2 DEF Progress
<1>19. CASE UNCHANGED vars
  BY <1>17, <1>19 DEF vars
<1> QED
  BY <1>5, <1>6, <1>7, <1>15, <1>16, <1>17, <1>18, <1>19 DEF Next, Edit, Checkout

(* An attestation that nobody else has changed is of artifacts, and they   *)
(* are staged as it says.                                                  *)
Attested(out, others) ==
    LET record == out["attestation"]
    IN  Whole(record) /\ "attestation" \notin others =>
            /\ DOMAIN record.digests \subseteq Files
            /\ \A a \in DOMAIN record.digests \ others : out[a] = record.digests[a]

LEMMA AttestedStep ==
    StagingShape /\ Told /\ Progressing /\ Attested(output, touched) /\ [Next]_vars =>
        Attested(output', touched')
<1> SUFFICES ASSUME StagingShape, Told, Progressing, Attested(output, touched), [Next]_vars
             PROVE  Attested(output', touched')
  OBVIOUS
<1> USE DEF ghost
<1>0. output = [a \in Kind |-> output[a]] /\ Files \subseteq Kind /\ "attestation" \in Kind
  BY DEF StagingShape, Kind
<1>1. ASSUME NEW j \in Job
      PROVE  /\ Progress(phase[j], plan[j], at[j], result[j], output)
             /\ Drawn(phase[j], plan[j]) /\ at[j] \in Nat \ {0}
  BY DEF Progressing, Told, ToldOf, StagingShape
(* What the attestation of a plan is of.                                   *)
<1>2. ASSUME NEW p
      PROVE  /\ Content(p, "attestation").digests = Digests(p)
             /\ DOMAIN Digests(p) \subseteq Files
             /\ \A a \in DOMAIN Digests(p) :
                    a # "attestation" /\ Digests(p)[a] = Content(p, a)
  BY PayloadIsFiles DEF Content, Digests
<1>3. ASSUME NEW j \in Job, Truncate(j) PROVE Attested(output', touched')
  <2> DEFINE p == plan[j]
             n == at[j]
             all == Artifacts(p)
             a == all[n]
  <2>0. /\ phase[j] = "open" /\ output' = [output EXCEPT ![a] = Truncated]
        /\ touched' = touched /\ n \in Nat \ {0} /\ Len(all) \in Nat
    BY <1>1, <1>3, ArtifactsInOrder DEF Truncate, Here, Step
  <2>1. Progress("open", p, n, result[j], output) /\ Drawn("open", p)
    BY <1>1, <2>0
  <2>2. /\ all[Len(all)] = "attestation"
        /\ \A m \in 1..Len(all) : all[m] \in Kind
    BY ArtifactsInOrder
  <2> HIDE DEF p, n
  <2>3. n <= Len(all) /\ output[a] = Absent
    BY <2>1 DEF Progress
  <2>4. output["attestation"] \in {Absent, Content(p, "attestation")}
    BY <2>0, <2>1, <2>2, <2>3 DEF Progress
  <2>5. /\ output'[a] = Truncated
        /\ \A b \in Kind : b # a => output'[b] = output[b]
    BY <1>0, <2>0, <2>2, <2>3
  <2>6. SUFFICES ASSUME Whole(output'["attestation"]), "attestation" \notin touched
                 PROVE  LET record == output'["attestation"]
                        IN  /\ DOMAIN record.digests \subseteq Files
                            /\ \A b \in DOMAIN record.digests \ touched :
                                   output'[b] = record.digests[b]
    BY <2>0 DEF Attested
  <2>7. a # "attestation"
    BY <2>5, <2>6 DEF Whole
  <2>8. /\ output'["attestation"] = output["attestation"]
        /\ output["attestation"] = Content(p, "attestation")
    BY <1>0, <2>4, <2>5, <2>6, <2>7 DEF Whole
  <2>9. \A b \in DOMAIN Digests(p) \ touched : output[b] = Digests(p)[b]
    BY <1>2, <2>6, <2>8 DEF Attested
  <2>10. \A b \in DOMAIN Digests(p) \ touched : b # a
    <3> SUFFICES ASSUME NEW b \in DOMAIN Digests(p) \ touched, b = a PROVE FALSE
      OBVIOUS
    <3>1. b \in Files /\ output[b] = Content(p, b)
      BY <1>2, <2>9
    <3>2. Content(p, b) # Absent
      BY <2>1, <3>1, RenderedIsAFile
    <3> QED BY <2>3, <3>1, <3>2
  <2> QED BY <1>0, <1>2, <2>5, <2>8, <2>9, <2>10
<1>4. ASSUME NEW j \in Job, Fill(j) PROVE Attested(output', touched')
  <2> DEFINE p == plan[j]
             n == at[j]
             all == Artifacts(p)
             a == all[n]
  <2>0. /\ phase[j] = "fill" /\ output' = [output EXCEPT ![a] = Content(p, a)]
        /\ touched' = touched \ {a} /\ n \in Nat \ {0} /\ Len(all) \in Nat \ {0}
    BY <1>1, <1>4, ArtifactsInOrder DEF Fill, Here, Step
  <2>1. Progress("fill", p, n, result[j], output)
    BY <1>1, <2>0
  <2>2. /\ all[Len(all)] = "attestation"
        /\ \A m \in 1..Len(all) : all[m] \in Kind
        /\ \A m \in 1..Len(all) : m < Len(all) => all[m] \in Files
        /\ \A b \in DOMAIN Digests(p) : \E m \in 1..Len(all) : all[m] = b
    BY ArtifactsInOrder
  <2> HIDE DEF p, n
  <2>3. n <= Len(all)
    BY <2>1 DEF Progress
  <2>4. /\ output'[a] = Content(p, a)
        /\ \A b \in Kind : b # a => output'[b] = output[b]
    BY <1>0, <2>0, <2>2, <2>3
  <2>5. CASE a = "attestation"
    <3>1. n = Len(all)
      <4>1. ~(n < Len(all))
        BY <2>0, <2>2, <2>5, PayloadIsFiles
      <4> QED BY <2>0, <2>3, <4>1
    <3>2. output'["attestation"] = Content(p, "attestation")
      BY <2>4, <2>5
    <3>3. \A b \in DOMAIN Digests(p) : output'[b] = Digests(p)[b]
      <4> SUFFICES ASSUME NEW b \in DOMAIN Digests(p) PROVE output'[b] = Digests(p)[b]
        OBVIOUS
      <4>1. PICK m \in 1..Len(all) : all[m] = b
        BY <2>2
      <4>2. b # "attestation" /\ Digests(p)[b] = Content(p, b) /\ b \in Kind
        BY <1>0, <1>2
      <4>3. m < n
        BY <2>0, <2>5, <3>1, <4>1, <4>2
      <4>4. output[b] = Content(p, b)
        BY <2>1, <4>1, <4>3 DEF Progress
      <4> QED BY <2>4, <2>5, <4>2, <4>4
    <3> QED BY <1>2, <3>2, <3>3 DEF Attested
  <2>6. CASE a # "attestation"
    <3>1. output'["attestation"] = output["attestation"]
      BY <1>0, <2>4, <2>6
    <3>2. output["attestation"] \in {Absent, Content(p, "attestation")}
      BY <2>0, <2>1, <2>2, <2>3, <2>6 DEF Progress
    <3>3. SUFFICES ASSUME Whole(output["attestation"]), "attestation" \notin touched
                   PROVE  LET record == output'["attestation"]
                          IN  /\ DOMAIN record.digests \subseteq Files
                              /\ \A b \in DOMAIN record.digests \ touched' :
                                     output'[b] = record.digests[b]
      BY <2>0, <2>6, <3>1 DEF Attested
    <3>4. output'["attestation"] = Content(p, "attestation")
      BY <3>1, <3>2, <3>3 DEF Whole
    <3>5. \A b \in DOMAIN Digests(p) \ touched : output[b] = Digests(p)[b]
      BY <1>2, <3>1, <3>3, <3>4 DEF Attested
    <3>6. \A b \in DOMAIN Digests(p) \ touched' : output'[b] = Digests(p)[b]
      <4> SUFFICES ASSUME NEW b \in DOMAIN Digests(p) \ touched'
                   PROVE  output'[b] = Digests(p)[b]
        OBVIOUS
      <4>1. b \in Kind /\ Digests(p)[b] = Content(p, b)
        BY <1>0, <1>2
      <4>2. CASE b = a
        BY <2>4, <4>1, <4>2
      <4>3. CASE b # a
        BY <2>0, <2>4, <3>5, <4>1, <4>3
      <4> QED BY <4>2, <4>3
    <3> QED BY <1>2, <3>4, <3>6
  <2> QED BY <2>5, <2>6
<1>5. ASSUME NEW a \in Kind, NEW f \in TouchTo, Touch(a, f)
      PROVE  Attested(output', touched')
  <2>1. /\ touched' = touched \cup {a}
        /\ \A b \in Kind : b # a => output'[b] = output[b]
    BY <1>0, <1>5 DEF Touch
  <2> QED BY <1>0, <2>1 DEF Attested
<1>6. CASE UNCHANGED <<output, touched>>
  BY <1>6 DEF Attested
<1>7. ASSUME NEW j \in Job, Stage(j) PROVE Attested(output', touched')
  BY <1>3, <1>4, <1>6, <1>7 DEF Stage, Compare, Refuse, Accept, Keep, Open, Staged
<1>8. ASSUME NEW j \in Job, Plan(j) \/ Reconcile(j) \/ Done(j) \/ Crash(j)
      PROVE  UNCHANGED <<output, touched>>
  BY <1>8 DEF Plan, ReadRevision, ReadBranch, ReadStatus, IdentityFails, ReadText,
              TextMissing, ReadGates, RefuseApply, Reconcile, Done, Crash
<1>9. ASSUME \/ \E j \in Job, e \in Enrollment, m \in {"stage", "apply", "reconcile"} :
                    Begin(j, e, m)
             \/ \E s \in EditTo : Edit(s)
             \/ \E r \in Rev : Checkout(r)
             \/ UNCHANGED vars
      PROVE  UNCHANGED <<output, touched>>
  BY <1>9 DEF Begin, Edit, Checkout, vars
<1> QED BY <1>5, <1>6, <1>7, <1>8, <1>9 DEF Next

LEMMA BundleStarts == Init => Progressing /\ Attested(output, touched)
<1> SUFFICES ASSUME Init PROVE Progressing /\ Attested(output, touched)
  OBVIOUS
<1>1. \A p, r, out : Progress("idle", p, 1, r, out)
  BY DEF Progress
<1>2. Progressing
  BY <1>1 DEF Init, Progressing
<1>3. Attested(output, touched)
  BY DEF Init, Attested, Whole, Kind
<1> QED BY <1>2, <1>3

Bundle == StagingShape /\ Told /\ Progressing /\ Attested(output, touched)

LEMMA BundleStep ==
    /\ Init => Bundle
    /\ OneAtATime => (Bundle /\ [Next]_vars => Bundle')
<1>1. Init => Bundle
  BY StagingStarts, BundleStarts DEF Bundle
<1>2. OneAtATime => (Bundle /\ [Next]_vars => Bundle')
  <2> SUFFICES ASSUME OneAtATime, Bundle, [Next]_vars PROVE Bundle'
    OBVIOUS
  <2>1. StagingShape' /\ Told' /\ Progressing'
    BY ShapeStep, ToldStep, ProgressStep DEF Bundle
  <2>2. Attested(output', touched')
    BY AttestedStep DEF Bundle
  <2>3. Attested(output, touched)' <=> Attested(output', touched')
    BY DEF Attested, Whole
  <2> QED BY <2>1, <2>2, <2>3 DEF Bundle
<1> QED BY <1>1, <1>2

(* As long as one command runs at a time, an attestation that stands in    *)
(* the output directory describes what is staged beside it, across crashes *)
(* and later stagings: write_staged_deployment in managed.py.              *)
THEOREM AttestationDescribes == OneAtATime => (Spec => []BundleIsWhole)
<1> SUFFICES ASSUME OneAtATime PROVE Spec => []BundleIsWhole
  OBVIOUS
<1>1. Bundle /\ [Next]_vars => Bundle'
  BY BundleStep
<1>2. Bundle => BundleIsWhole
  BY DEF Bundle, Attested, BundleIsWhole
<1>3. Init => Bundle
  BY BundleStep
<1> QED BY <1>1, <1>2, <1>3, PTL DEF Spec

(* As long as one command runs at a time, a command changes no staged file *)
(* that was there when it began: the second loop writes only what is not   *)
(* there, and fills what it has emptied.                                   *)
THEOREM NothingStagedIsChanged == OneAtATime => (Spec => StagedIsKept)
<1> SUFFICES ASSUME OneAtATime PROVE Spec => StagedIsKept
  OBVIOUS
<1> DEFINE Kept == \A a \in Kind :
                       output'[a] # output[a] /\ a \notin touched' =>
                           \/ output[a] = Absent
                           \/ output[a] = Truncated /\ \E j \in Job : phase[j] = "fill"
<1>1. Bundle /\ [Next]_vars => Bundle'
  BY BundleStep
<1>2. Init => Bundle
  BY BundleStep
<1>3. Bundle /\ [Next]_vars => [Kept]_vars
  <2> SUFFICES ASSUME Bundle, Next PROVE Kept
    OBVIOUS
  <2> SUFFICES ASSUME NEW a \in Kind, output'[a] # output[a], a \notin touched'
               PROVE  \/ output[a] = Absent
                      \/ output[a] = Truncated /\ \E j \in Job : phase[j] = "fill"
    OBVIOUS
  <2>0. output = [b \in Kind |-> output[b]]
    BY DEF Bundle, StagingShape
  <2>1. ASSUME NEW j \in Job PROVE Progress(phase[j], plan[j], at[j], result[j], output)
    BY DEF Bundle, Progressing
  <2>2. ASSUME NEW j \in Job, Truncate(j) PROVE output[a] = Absent
    <3>1. phase[j] = "open" /\ output' = [output EXCEPT ![Here(j)] = Truncated]
      BY <2>2 DEF Truncate, Step
    <3>2. a = Here(j)
      BY <2>0, <3>1
    <3> QED BY <2>1, <3>1, <3>2 DEF Progress, Here
  <2>3. ASSUME NEW j \in Job, Fill(j) PROVE output[a] = Truncated /\ phase[j] = "fill"
    <3>1. phase[j] = "fill" /\ output' = [output EXCEPT ![Here(j)] = Content(plan[j], Here(j))]
      BY <2>3 DEF Fill, Step
    <3>2. a = Here(j)
      BY <2>0, <3>1
    <3> QED BY <2>1, <3>1, <3>2 DEF Progress, Here
  <2>4. ASSUME NEW b \in Kind, NEW f \in TouchTo, Touch(b, f) PROVE FALSE
    BY <2>0, <2>4 DEF Touch
  <2>5. ASSUME NEW j \in Job, Stage(j) PROVE Truncate(j) \/ Fill(j)
    BY <2>5 DEF Stage, Compare, Refuse, Accept, Keep, Open, Staged
  <2>6. ASSUME NEW j \in Job, Plan(j) \/ Reconcile(j) \/ Done(j) \/ Crash(j) PROVE FALSE
    BY <2>6 DEF Plan, ReadRevision, ReadBranch, ReadStatus, IdentityFails, ReadText,
                TextMissing, ReadGates, RefuseApply, Reconcile, Done, Crash
  <2>7. ASSUME \/ \E j \in Job, e \in Enrollment, m \in {"stage", "apply", "reconcile"} :
                      Begin(j, e, m)
               \/ \E s \in EditTo : Edit(s)
               \/ \E r \in Rev : Checkout(r)
        PROVE  FALSE
    BY <2>7 DEF Begin, Edit, Checkout
  <2> QED BY <2>2, <2>3, <2>4, <2>5, <2>6, <2>7 DEF Next
<1> QED BY <1>1, <1>2, <1>3, PTL DEF Spec, StagedIsKept

(* As long as one command runs at a time, a staging that says it succeeded *)
(* from a clean revision has staged what that revision commits, provided   *)
(* the repository stood still while the plan was read.                     *)
THEOREM StagingIsOfTheCommit == OneAtATime => (Spec => []AttestedIsCommitted)
<1> SUFFICES ASSUME OneAtATime PROVE Spec => []AttestedIsCommitted
  OBVIOUS
<1>1. Bundle /\ [Next]_vars => Bundle'
  BY BundleStep
<1>2. Init => Bundle
  BY BundleStep
<1>3. Bundle => AttestedIsCommitted
  <2> SUFFICES ASSUME Bundle, NEW j \in Job, phase[j] = "staged", plan[j].dirty = FALSE,
                      j \notin moved
               PROVE  LET committed == Tree[plan[j].revision]
                      IN  \A a \in DOMAIN Digests(plan[j]) :
                              output[a] = Rendered(a, committed.policy, committed.text)
    BY DEF AttestedIsCommitted
  <2> DEFINE p == plan[j]
  <2>1. p.policy = Tree[p.revision].policy /\ p.text = Tree[p.revision].text
    BY DEF Bundle, Told, ToldOf, InTheEnd
  <2>2. Progress("staged", p, at[j], result[j], output)
    BY DEF Bundle, Progressing
  <2> HIDE DEF p
  <2>3. \A a \in DOMAIN Digests(p) : output[a] = Content(p, a)
    BY <2>2, ArtifactsInOrder DEF Progress
  <2>4. \A a \in DOMAIN Digests(p) : Content(p, a) = Rendered(a, p.policy, p.text)
    BY PayloadIsFiles DEF Content
  <2>5. \A a \in DOMAIN Digests(p) :
            output[a] = Rendered(a, Tree[p.revision].policy, Tree[p.revision].text)
    BY <2>1, <2>3, <2>4
  <2> QED BY <2>5 DEF p
<1> QED BY <1>1, <1>2, <1>3, PTL DEF Spec

-----------------------------------------------------------------------------
(* Every command ends                                                      *)

Size(p) == Len(Artifacts(p))

(* The longest way a command in phase f, at artifact n of `size`, has to   *)
(* go: it reads its plan, compares each artifact and writes each in three  *)
(* steps.                                                                  *)
WayFrom(f, size, n) ==
    IF f = "revision" THEN 4 * size + 8
    ELSE IF f = "branch" THEN 4 * size + 7
    ELSE IF f = "status" THEN 4 * size + 6
    ELSE IF f = "text" THEN 4 * size + 5
    ELSE IF f = "gates" THEN 4 * size + 4
    ELSE IF f = "compare" THEN 4 * size + 4 - n
    ELSE IF f = "write" THEN 3 * (size + 1 - n) + 2
    ELSE IF f = "open" THEN 3 * (size + 1 - n) + 1
    ELSE IF f = "fill" THEN 3 * (size + 1 - n)
    ELSE IF f = "observe" THEN 2
    ELSE IF f \in {"staged", "reported"} THEN 1
    ELSE 0

StepsLeft(j) == WayFrom(phase[j], Size(plan[j]), at[j])

MostSteps == 4 * (Len(CodexFiles) + Len(ClaudeFiles) + 1) + 8

Works(j) == Plan(j) \/ Stage(j) \/ Reconcile(j) \/ Done(j) \/ Crash(j)

(* Where in its plan a command is, whatever the others do.                 *)
Place(f, size, n) ==
    /\ f \in {"idle", "revision", "branch", "status", "text", "gates"} => n = 1
    /\ f \in {"compare", "write"} => n <= size + 1
    /\ f \in {"open", "fill"} => n <= size

Placed == \A j \in Job : Place(phase[j], Size(plan[j]), at[j])

(* A step from phase f at artifact n to phase g at artifact m.             *)
Goes(f, n, g, m, size) ==
    \/ /\ <<f, g>> \in {<<"revision", "branch">>, <<"revision", "text">>,
                        <<"branch", "status">>, <<"branch", "text">>,
                        <<"status", "text">>, <<"text", "gates">>,
                        <<"gates", "compare">>, <<"gates", "observe">>,
                        <<"observe", "reported">>, <<"open", "fill">>}
       /\ m = n
    \/ f \in {"compare", "write"} /\ g = f /\ n <= size /\ m = n + 1
    \/ f = "compare" /\ g = "write" /\ n > size /\ m = 1
    \/ f = "write" /\ g = "open" /\ n <= size /\ m = n
    \/ f = "fill" /\ g = "write" /\ m = n + 1
    \/ f = "write" /\ g = "staged" /\ n > size /\ m = n

(* What has been read of a plan does not change how much it renders.       *)
LEMMA RereadKeepsSize ==
    ASSUME NEW p, NEW a, NEW b, NEW c, NEW d, NEW e
    PROVE  Size(Reread(p, a, b, c, d, e)) = Size(p)
<1>1. Reread(p, a, b, c, d, e).endpoint = p.endpoint
  BY DEF Reread
<1>2. Payload(Reread(p, a, b, c, d, e)) = Payload(p)
  BY <1>1 DEF Payload
<1> QED BY <1>2 DEF Size, Artifacts

LEMMA SizeBounded ==
    ASSUME NEW p
    PROVE  Size(p) \in 1 .. Len(CodexFiles) + Len(ClaudeFiles) + 1
<1>1. /\ CodexFiles \in Seq(Files) /\ ClaudeFiles \in Seq(Files)
      /\ Payload(p) \in Seq(Files)
  BY StagingAssumption, PayloadIsFiles
<1>2. Len(Payload(p)) \in 0 .. Len(CodexFiles) + Len(ClaudeFiles)
  <2>1. /\ Len(CodexFiles \o ClaudeFiles) = Len(CodexFiles) + Len(ClaudeFiles)
        /\ Len(CodexFiles \o <<>>) = Len(CodexFiles)
        /\ Len(<<>> \o ClaudeFiles) = Len(ClaudeFiles)
        /\ Len(<<>> \o <<>>) = 0
    BY <1>1
  <2>2. Len(CodexFiles) \in Nat /\ Len(ClaudeFiles) \in Nat
    BY <1>1
  <2>3. \E c \in {CodexFiles, <<>>}, d \in {ClaudeFiles, <<>>} : Payload(p) = c \o d
    BY DEF Payload
  <2> QED BY <2>1, <2>2, <2>3
<1>3. Len(Artifacts(p)) = Len(Payload(p)) + 1
  BY <1>1 DEF Artifacts
<1>4. Len(CodexFiles) \in Nat /\ Len(ClaudeFiles) \in Nat
  BY <1>1
<1> QED BY <1>2, <1>3, <1>4 DEF Size

(* A step of a command ends it, or goes on with the same artifacts.        *)
LEMMA WorkGoes ==
    ASSUME StagingShape, NEW j \in Job, Works(j)
    PROVE  \/ /\ phase[j] # "idle" /\ phase'[j] = "idle" /\ at'[j] = 1
           \/ /\ Size(plan'[j]) = Size(plan[j])
              /\ Goes(phase[j], at[j], phase'[j], at'[j], Size(plan[j]))
<1>0. /\ phase \in [Job -> Steps] /\ at \in [Job -> Nat \ {0}]
      /\ plan = [k \in Job |-> plan[k]]
  BY DEF StagingShape
<1>1. ASSUME Ends(j) PROVE phase'[j] = "idle" /\ at'[j] = 1
  BY <1>0, <1>1 DEF Ends
<1>2. CASE \/ TextMissing(j) \/ RefuseApply(j) \/ Refuse(j) \/ Done(j) \/ Crash(j)
  <2>1. Ends(j) /\ phase[j] # "idle"
    BY <1>2 DEF TextMissing, RefuseApply, Refuse, Done, Crash, Busy
  <2> QED BY <1>1, <2>1
<1>3. CASE \/ ReadRevision(j) \/ ReadBranch(j) \/ ReadStatus(j)
           \/ IdentityFails(j) \/ ReadText(j) \/ ReadGates(j)
  <2>1. \E a, b, c, d, e : plan' = [plan EXCEPT ![j] = Reread(plan[j], a, b, c, d, e)]
    <3>1. CASE ReadRevision(j)
      BY <3>1, FieldRead DEF ReadRevision
    <3>2. CASE ReadBranch(j)
      BY <3>2, FieldRead DEF ReadBranch
    <3>3. CASE ReadStatus(j)
      BY <3>3, FieldRead DEF ReadStatus
    <3>4. CASE IdentityFails(j)
      BY <3>4, PlanAfter
    <3>5. CASE ReadText(j)
      BY <3>5, FieldRead DEF ReadText
    <3>6. CASE ReadGates(j)
      BY <3>6, FieldRead DEF ReadGates
    <3> QED BY <1>3, <3>1, <3>2, <3>3, <3>4, <3>5, <3>6
  <2>2. PICK a, b, c, d, e : plan' = [plan EXCEPT ![j] = Reread(plan[j], a, b, c, d, e)]
    BY <2>1
  <2>3. plan'[j] = Reread(plan[j], a, b, c, d, e)
    BY <1>0, <2>2
  <2>4. Size(plan'[j]) = Size(plan[j])
    BY <2>3, RereadKeepsSize
  <2>5. /\ <<phase[j], phase'[j]>> \in
               {<<"revision", "branch">>, <<"revision", "text">>,
                <<"branch", "status">>, <<"branch", "text">>,
                <<"status", "text">>, <<"text", "gates">>,
                <<"gates", "compare">>, <<"gates", "observe">>}
        /\ at' = at
    BY <1>0, <1>3 DEF ReadRevision, ReadBranch, ReadStatus, IdentityFails, ReadText,
                      ReadGates, Step
  <2> QED BY <2>4, <2>5 DEF Goes
<1>4. CASE \/ Compare(j) \/ Accept(j) \/ Keep(j) \/ Open(j) \/ Truncate(j) \/ Fill(j)
           \/ Staged(j) \/ Reconcile(j)
  <2>1. UNCHANGED plan
    BY <1>4 DEF Compare, Accept, Keep, Open, Truncate, Fill, Staged, Reconcile
  <2>2. Size(plan[j]) \in Nat /\ at[j] \in Nat
    BY <1>0, SizeBounded, StagingAssumption
  <2>3. More(j) <=> at[j] <= Size(plan[j])
    BY DEF More, Size
  <2>4. Goes(phase[j], at[j], phase'[j], at'[j], Size(plan[j]))
    BY <1>0, <1>4, <2>2, <2>3
       DEF Compare, Accept, Keep, Open, Truncate, Fill, Staged, Reconcile, Step,
           Advance, Goes
  <2> QED BY <2>1, <2>4
<1> QED BY <1>2, <1>3, <1>4 DEF Works, Plan, Stage

(* What a step of one command is to the others.                            *)
LEMMA OthersStay ==
    ASSUME StagingShape, [Next]_vars, NEW j \in Job, ~Works(j)
    PROVE  \/ /\ phase[j] = "idle" /\ phase'[j] = "revision" /\ at'[j] = at[j]
           \/ /\ phase'[j] = phase[j] /\ at'[j] = at[j] /\ plan'[j] = plan[j]
<1>0. /\ phase \in [Job -> Steps] /\ at \in [Job -> Nat \ {0}]
      /\ plan = [k \in Job |-> plan[k]]
  BY DEF StagingShape
<1> DEFINE Same == phase'[j] = phase[j] /\ at'[j] = at[j] /\ plan'[j] = plan[j]
<1>1. ASSUME NEW k \in Job, NEW e \in Enrollment,
             NEW m \in {"stage", "apply", "reconcile"}, Begin(k, e, m)
      PROVE  \/ phase[j] = "idle" /\ phase'[j] = "revision" /\ at'[j] = at[j]
             \/ Same
  BY <1>0, <1>1 DEF Begin, Step
<1>2. ASSUME NEW k \in Job, Works(k) PROVE Same
  <2>0. k # j
    BY <1>2
  <2>1. ASSUME Ends(k) PROVE Same
    BY <1>0, <2>0, <2>1 DEF Ends
  <2>2. CASE TextMissing(k) \/ RefuseApply(k) \/ Refuse(k) \/ Done(k) \/ Crash(k)
    BY <2>1, <2>2 DEF TextMissing, RefuseApply, Refuse, Done, Crash
  <2>3. CASE \/ ReadRevision(k) \/ ReadBranch(k) \/ ReadStatus(k)
             \/ IdentityFails(k) \/ ReadText(k) \/ ReadGates(k)
    BY <1>0, <2>0, <2>3 DEF ReadRevision, ReadBranch, ReadStatus, IdentityFails, ReadText,
                            ReadGates, Step, Reads
  <2>4. CASE \/ Compare(k) \/ Accept(k) \/ Keep(k) \/ Open(k) \/ Truncate(k) \/ Fill(k)
             \/ Staged(k) \/ Reconcile(k)
    BY <1>0, <2>0, <2>4
       DEF Compare, Accept, Keep, Open, Truncate, Fill, Staged, Reconcile, Step, Advance
  <2> QED BY <1>2, <2>2, <2>3, <2>4 DEF Works, Plan, Stage
<1>3. ASSUME \/ \E s \in EditTo : Edit(s)
             \/ \E r \in Rev : Checkout(r)
             \/ \E a \in Kind, f \in TouchTo : Touch(a, f)
             \/ UNCHANGED vars
      PROVE  Same
  BY <1>3 DEF Edit, Checkout, Touch, vars, command
<1> QED BY <1>1, <1>2, <1>3 DEF Next, Works

LEMMA PlacedStep == StagingShape /\ Placed /\ [Next]_vars => Placed'
<1> SUFFICES ASSUME StagingShape, Placed, [Next]_vars, NEW j \in Job
             PROVE  Place(phase'[j], Size(plan'[j]), at'[j])
  BY DEF Placed, Size, Artifacts, Payload
<1>0. /\ Place(phase[j], Size(plan[j]), at[j]) /\ at[j] \in Nat \ {0}
      /\ Size(plan[j]) \in Nat \ {0} /\ Size(plan'[j]) \in Nat \ {0}
  BY SizeBounded, StagingAssumption DEF Placed, StagingShape
<1>1. CASE Works(j)
  <2>1. CASE phase'[j] = "idle" /\ at'[j] = 1
    BY <2>1 DEF Place
  <2>2. CASE /\ Size(plan'[j]) = Size(plan[j])
             /\ Goes(phase[j], at[j], phase'[j], at'[j], Size(plan[j]))
    BY <1>0, <2>2 DEF Goes, Place
  <2> QED BY <1>1, <2>1, <2>2, WorkGoes
<1>2. CASE ~Works(j)
  BY <1>0, <1>2, OthersStay DEF Place
<1> QED BY <1>1, <1>2

LEMMA PlacedHolds == Spec => [](StagingShape /\ Placed)
<1>1. Init => Placed
  BY DEF Init, Placed, Place
<1> QED BY <1>1, StagingStarts, ShapeStep, PlacedStep, PTL DEF Spec

(* A deploy or a reconcile on k artifacts has at most 4k + 8 steps, for    *)
(* any number of commands at a time, whatever becomes of the repository    *)
(* and the staged files meanwhile: each of its steps lowers a number that  *)
(* nobody else's step changes.                                             *)
THEOREM StagingEnds ==
    Spec => /\ [](\A j \in Job : StepsLeft(j) \in 0 .. MostSteps)
            /\ [][\A j \in Job :
                     /\ Works(j) => StepsLeft(j)' < StepsLeft(j)
                     /\ ~Works(j) /\ phase[j] # "idle" => StepsLeft(j)' = StepsLeft(j)]_vars
<1>1. StagingShape /\ Placed => \A j \in Job : StepsLeft(j) \in 0 .. MostSteps
  <2> SUFFICES ASSUME StagingShape, Placed, NEW j \in Job
               PROVE  StepsLeft(j) \in 0 .. MostSteps
    OBVIOUS
  <2> DEFINE most == Len(CodexFiles) + Len(ClaudeFiles) + 1
  <2>1. /\ Place(phase[j], Size(plan[j]), at[j]) /\ at[j] \in Nat \ {0}
        /\ phase[j] \in Steps
    BY DEF Placed, StagingShape
  <2>2. most \in Nat /\ Size(plan[j]) \in 1 .. most /\ MostSteps = 4 * most + 8
    BY SizeBounded, StagingAssumption DEF MostSteps
  <2> HIDE DEF most
  <2>3. ASSUME NEW f \in Steps, NEW n \in Nat \ {0}, NEW size \in 1 .. most,
               Place(f, size, n)
        PROVE  WayFrom(f, size, n) \in 0 .. 4 * most + 8
    <3>1. size \in Nat /\ size <= most
      BY <2>2
    <3>2. WayFrom(f, size, n) \in 0 .. 4 * size + 8
      BY <2>3, <3>1 DEF WayFrom, Place, Steps
    <3> QED BY <2>2, <3>1, <3>2
  <2> QED BY <2>1, <2>2, <2>3 DEF StepsLeft
<1>2. StagingShape /\ Placed /\ [Next]_vars =>
          [\A j \in Job :
              /\ Works(j) => StepsLeft(j)' < StepsLeft(j)
              /\ ~Works(j) /\ phase[j] # "idle" => StepsLeft(j)' = StepsLeft(j)]_vars
  <2> SUFFICES ASSUME StagingShape, Placed, [Next]_vars, NEW j \in Job
               PROVE  /\ Works(j) => StepsLeft(j)' < StepsLeft(j)
                      /\ ~Works(j) /\ phase[j] # "idle" => StepsLeft(j)' = StepsLeft(j)
    OBVIOUS
  <2>0. /\ Place(phase[j], Size(plan[j]), at[j]) /\ at[j] \in Nat \ {0}
        /\ Size(plan[j]) \in Nat \ {0} /\ phase[j] \in Steps
    BY SizeBounded, StagingAssumption DEF Placed, StagingShape
  <2>1. StepsLeft(j)' = WayFrom(phase'[j], Size(plan'[j]), at'[j])
    BY DEF StepsLeft, Size, Artifacts, Payload
  <2>2. ASSUME Works(j) PROVE StepsLeft(j)' < StepsLeft(j)
    <3>1. CASE phase[j] # "idle" /\ phase'[j] = "idle"
      <4>1. StepsLeft(j)' = 0
        BY <2>1, <3>1 DEF WayFrom
      <4>2. StepsLeft(j) > 0
        BY <2>0, <3>1 DEF StepsLeft, WayFrom, Place, Steps
      <4> QED BY <4>1, <4>2
    <3>2. CASE /\ Size(plan'[j]) = Size(plan[j])
               /\ Goes(phase[j], at[j], phase'[j], at'[j], Size(plan[j]))
      <4>1. \A m, n \in Nat \ {0}, size \in Nat \ {0}, f, g \in Steps :
                Place(f, size, n) /\ Goes(f, n, g, m, size)
                    => WayFrom(g, size, m) < WayFrom(f, size, n)
        BY DEF Goes, Place, WayFrom, Steps
      <4>2. phase'[j] \in Steps /\ at'[j] \in Nat \ {0}
        BY ShapeStep DEF StagingShape
      <4> QED BY <2>0, <2>1, <3>2, <4>1, <4>2 DEF StepsLeft
    <3> QED BY <2>2, <3>1, <3>2, WorkGoes
  <2>3. ASSUME ~Works(j), phase[j] # "idle" PROVE StepsLeft(j)' = StepsLeft(j)
    BY <2>1, <2>3, OthersStay DEF StepsLeft
  <2> QED BY <2>2, <2>3
<1> QED BY <1>1, <1>2, PlacedHolds, PTL DEF Spec

=============================================================================
