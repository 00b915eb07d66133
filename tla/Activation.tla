------------------------------ MODULE Activation ------------------------------
(***************************************************************************)
(* activate-local and rollback-local of agent_control/activation.py: the   *)
(* two commands that change an endpoint.  A command is a sequential        *)
(* process; its state is the phase it is in, the artifact i its current    *)
(* loop is at, and the manifest entries it holds in memory.  What survives *)
(* it is on disk: the endpoint's files, the backup roots and the manifest  *)
(* of each root.  One command runs at a time; around it the operator, a    *)
(* configuration manager or a client may edit files, and the process may   *)
(* die at any step (a kill, or an exception nobody catches).               *)
(*                                                                         *)
(* Artifact t is the t-th artifact of the plan, the attestation left out.  *)
(* A file is its content; mode and owner travel with the content, since    *)
(* the code records, writes and restores them together.                    *)
(***************************************************************************)
EXTENDS Naturals

CONSTANTS
    N,           \* artifacts of a plan that are installed
    Root,        \* backup roots an operator may name
    Version,     \* accepted policy versions whose plan passes every gate
    Content,     \* contents of a regular file, one per SHA-256 digest
    Desired,     \* Desired[v][t]: what version v installs as artifact t
    Absent,      \* there is nothing at the path
    Unsafe,      \* a symlink or something that is no regular file
    NoManifest,  \* the root holds no manifest.json
    NoJob,       \* no command runs
    EditTo,      \* what others may leave at a path
    TamperTo,    \* what others may leave of a backup
    EditsRace,   \* may others touch files while a command runs?
    MayCrash     \* may the process be killed?

Target == 1 .. N
File   == Content \cup {Absent, Unsafe}
Prior  == Content \cup {Absent}
Status == {"prepared", "applied", "rolled_back"}

Manifest == [status : Status, version : Version, prior : [Target -> Prior]]
Job      == [root : Root, version : Version, migrate : BOOLEAN]
Phase    == {"idle", "preflight", "backup", "apply", "recover", "check", "undo"}

ASSUME SizeAssumption == N \in Nat \ {0}
ASSUME DesiredAssumption == Desired \in [Version -> [Target -> Content]]
ASSUME MarkAssumption ==
    /\ Absent \notin Content
    /\ Unsafe \notin Content
    /\ Absent # Unsafe
    /\ NoManifest \notin Manifest
    /\ NoJob \notin Job
ASSUME OthersAssumption == EditTo \subseteq File /\ TamperTo \subseteq Prior
ASSUME SwitchAssumption == EditsRace \in BOOLEAN /\ MayCrash \in BOOLEAN

VARIABLES
    file,      \* file[t]: what the endpoint has at the path of artifact t
    backup,    \* backup[r][t]: the copy of t under files/ in root r
    used,      \* used[r]: root r has something in it
    manifest,  \* manifest[r]: manifest.json of root r
    phase,     \* the part of a command that runs
    job,       \* the arguments of the command that runs
    i,         \* the artifact its loop is at
    prior,     \* its entries: what preflight saw at each artifact
    refused,   \* the artifacts it will not touch
    raced      \* raced[r]: artifacts of root r that others touched under a
               \* command on r, or whose copy in r they changed

disk  == <<file, backup, used, manifest>>
local == <<phase, job, i, prior, refused>>
vars  == <<disk, local, raced>>

NoEntries == [t \in Target |-> Absent]

Init ==
    /\ file \in [Target -> File]
    /\ backup = [r \in Root |-> NoEntries]
    /\ used = [r \in Root |-> FALSE]
    /\ manifest = [r \in Root |-> NoManifest]
    /\ phase = "idle"
    /\ job = NoJob
    /\ i = 0
    /\ prior = NoEntries
    /\ refused = {}
    /\ raced = [r \in Root |-> {}]

(* The action an entry records, from what was there and what is wanted.    *)
Action(goal, before) ==
    IF before = Absent THEN "created"
    ELSE IF before = goal THEN "unchanged"
    ELSE "replaced"

Goal(t)  == Desired[job.version][t]
Entry(t) == Action(Goal(t), prior[t])

(* What reading a path may return: a symlink is followed, to any content.  *)
Reads(f) ==
    IF f = Unsafe THEN Content
    ELSE IF f = Absent THEN {}
    ELSE {f}

(* The command at an artifact of its forward or backward loop.             *)
At(ph)   == phase = ph /\ i \in Target
Past(ph) == phase = ph /\ i \notin Target
Advance  == i' = i + 1
Retreat  == i' = i - 1

Enter(ph, start) == phase' = ph /\ i' = start

(* The process ends and its memory is gone.                                *)
Exit ==
    /\ phase' = "idle"
    /\ job' = NoJob
    /\ i' = 0
    /\ prior' = NoEntries
    /\ refused' = {}

WriteManifest(r, status, version, before) ==
    /\ manifest' = [manifest EXCEPT ![r] =
           [status |-> status, version |-> version, prior |-> before]]
    /\ used' = [used EXCEPT ![r] = TRUE]

SealManifest(status) == WriteManifest(job.root, status, job.version, prior)

-----------------------------------------------------------------------------
(* activate-local: preflight                                               *)

BeginActivate(r, v, m) ==
    /\ phase = "idle"
    /\ Enter("preflight", 1)
    /\ job' = [root |-> r, version |-> v, migrate |-> m]
    /\ raced' = IF used[r] THEN raced ELSE [raced EXCEPT ![r] = {}]
    /\ UNCHANGED <<disk, prior, refused>>

Conflict(t) ==
    \/ file[t] = Unsafe
    \/ file[t] \in Content /\ file[t] # Goal(t) /\ ~job.migrate

AdmitTarget ==
    /\ At("preflight")
    /\ ~Conflict(i)
    /\ prior' = [prior EXCEPT ![i] = file[i]]
    /\ Advance
    /\ UNCHANGED <<disk, phase, job, refused, raced>>

RefuseTarget ==
    /\ At("preflight")
    /\ Conflict(i)
    /\ refused' = refused \cup {i}
    /\ Advance
    /\ UNCHANGED <<disk, phase, job, prior, raced>>

RefuseActivation ==
    /\ Past("preflight")
    /\ refused # {} \/ used[job.root]
    /\ Exit
    /\ UNCHANGED <<disk, raced>>

(* A bug of the emptiness test: a root that already serves is accepted.    *)
OpenUsedRoot ==
    /\ Past("preflight")
    /\ refused = {}
    /\ Enter("backup", 1)
    /\ UNCHANGED <<disk, job, prior, refused, raced>>

OpenBackupRoot ==
    /\ Past("preflight")
    /\ refused = {}
    /\ ~used[job.root]
    /\ Enter("backup", 1)
    /\ UNCHANGED <<disk, job, prior, refused, raced>>

-----------------------------------------------------------------------------
(* activate-local: backup, prepared manifest, installation                 *)

(* The file is read again: what is saved need not be what preflight hashed. *)
BackupTarget ==
    /\ At("backup")
    /\ Entry(i) = "replaced"
    /\ \E c \in Reads(file[i]) : backup' = [backup EXCEPT ![job.root][i] = c]
    /\ used' = [used EXCEPT ![job.root] = TRUE]
    /\ Advance
    /\ UNCHANGED <<file, manifest, phase, job, prior, refused, raced>>

NothingToBackUp ==
    /\ At("backup")
    /\ Entry(i) # "replaced"
    /\ Advance
    /\ UNCHANGED <<disk, phase, job, prior, refused, raced>>

(* A bug of the order: installation starts before the manifest is on disk. *)
PrepareInMemory ==
    /\ Past("backup")
    /\ Enter("apply", 1)
    /\ UNCHANGED <<disk, job, prior, refused, raced>>

Prepare ==
    /\ Past("backup")
    /\ SealManifest("prepared")
    /\ Enter("apply", 1)
    /\ UNCHANGED <<file, backup, job, prior, refused, raced>>

ApplyTarget ==
    /\ At("apply")
    /\ Entry(i) # "unchanged"
    /\ file' = [file EXCEPT ![i] = Goal(i)]
    /\ Advance
    /\ UNCHANGED <<backup, used, manifest, phase, job, prior, refused, raced>>

SkipUnchanged ==
    /\ At("apply")
    /\ Entry(i) = "unchanged"
    /\ Advance
    /\ UNCHANGED <<disk, phase, job, prior, refused, raced>>

(* A bug of the handler: the recovery loop misses the last applied entry.  *)
FailOffByOne ==
    /\ At("apply")
    /\ Entry(i) # "unchanged"
    /\ Enter("recover", IF i = 1 THEN 0 ELSE i - 2)
    /\ UNCHANGED <<disk, job, prior, refused, raced>>

(* The write raises OSError; the file it was about is as it was.           *)
ApplyFails ==
    /\ At("apply")
    /\ Entry(i) # "unchanged"
    /\ Enter("recover", i - 1)
    /\ UNCHANGED <<disk, job, prior, refused, raced>>

SealApplied ==
    /\ Past("apply")
    /\ SealManifest("applied")
    /\ Exit
    /\ UNCHANGED <<file, backup, raced>>

-----------------------------------------------------------------------------
(* activate-local: the except OSError handler                              *)

RemoveCreated ==
    /\ At("recover")
    /\ Entry(i) = "created"
    /\ \/ Goal(i) \in Reads(file[i]) /\ file' = [file EXCEPT ![i] = Absent]
       \/ Reads(file[i]) # {Goal(i)} /\ UNCHANGED file
    /\ Retreat
    /\ UNCHANGED <<backup, used, manifest, phase, job, prior, refused, raced>>

PutBack(ph) ==
    /\ At(ph)
    /\ Entry(i) = "replaced"
    /\ backup[job.root][i] # Absent
    /\ file' = [file EXCEPT ![i] = backup[job.root][i]]
    /\ Retreat
    /\ UNCHANGED <<backup, used, manifest, phase, job, prior, refused, raced>>

LeaveUnchanged(ph) ==
    /\ At(ph)
    /\ Entry(i) = "unchanged"
    /\ Retreat
    /\ UNCHANGED <<disk, phase, job, prior, refused, raced>>

RecoverReplaced  == PutBack("recover")
RecoverUnchanged == LeaveUnchanged("recover")

(* A bug of the handler: the manifest is left as it was.                   *)
EndUnsealed ==
    /\ Past("recover")
    /\ Exit
    /\ UNCHANGED <<disk, raced>>

SealRecovered ==
    /\ Past("recover")
    /\ SealManifest("rolled_back")
    /\ Exit
    /\ UNCHANGED <<file, backup, raced>>

-----------------------------------------------------------------------------
(* rollback-local                                                          *)

BeginRollback(r) ==
    /\ phase = "idle"
    /\ manifest[r] # NoManifest
    /\ manifest[r].status = "applied"
    /\ Enter("check", 1)
    /\ job' = [root |-> r, version |-> manifest[r].version, migrate |-> FALSE]
    /\ prior' = manifest[r].prior
    /\ UNCHANGED <<disk, refused, raced>>

(* A bug of the preflight: the backup's digest is not compared.            *)
TargetDrifted(t) == file[t] # Goal(t)

Drifted(t) ==
    \/ file[t] # Goal(t)
    \/ Entry(t) = "replaced" /\ backup[job.root][t] # prior[t]

MatchTarget ==
    /\ At("check")
    /\ ~Drifted(i)
    /\ Advance
    /\ UNCHANGED <<disk, phase, job, prior, refused, raced>>

DriftTarget ==
    /\ At("check")
    /\ Drifted(i)
    /\ refused' = refused \cup {i}
    /\ Advance
    /\ UNCHANGED <<disk, phase, job, prior, raced>>

RefuseRollback ==
    /\ Past("check")
    /\ refused # {}
    /\ Exit
    /\ UNCHANGED <<disk, raced>>

BeginUndo ==
    /\ Past("check")
    /\ refused = {}
    /\ Enter("undo", N)
    /\ UNCHANGED <<disk, job, prior, refused, raced>>

(* unlink raises when nothing is there, and when a directory is.           *)
UndoCreated ==
    /\ At("undo")
    /\ Entry(i) = "created"
    /\ file[i] # Absent
    /\ file' = [file EXCEPT ![i] = Absent]
    /\ Retreat
    /\ UNCHANGED <<backup, used, manifest, phase, job, prior, refused, raced>>

UndoReplaced  == PutBack("undo")
UndoUnchanged == LeaveUnchanged("undo")

SealRolledBack ==
    /\ Past("undo")
    /\ SealManifest("rolled_back")
    /\ Exit
    /\ UNCHANGED <<file, backup, raced>>

-----------------------------------------------------------------------------
(* The world around a command                                              *)

(* The current step reads or unlinks a path that is not there any more.    *)
Blocked ==
    \/ At("backup") /\ Entry(i) = "replaced" /\ Reads(file[i]) = {}
    \/ At("undo") /\ Entry(i) = "created" /\ file[i] \in {Absent, Unsafe}
    \/ /\ At("recover") \/ At("undo")
       /\ Entry(i) = "replaced"
       /\ backup[job.root][i] = Absent

(* The process is killed, or dies of an exception outside the try block or *)
(* inside its handler.  Interrupted in the backup loop, it may leave an    *)
(* empty files/ directory behind, which makes the root used.               *)
Crash ==
    /\ phase # "idle"
    /\ MayCrash \/ Blocked
    /\ Exit
    /\ \/ UNCHANGED used
       \/ phase = "backup" /\ used' = [used EXCEPT ![job.root] = TRUE]
    /\ UNCHANGED <<file, backup, manifest, raced>>

Quiet == phase = "idle"

Edit(t, f) ==
    /\ EditsRace \/ Quiet
    /\ f # file[t]
    /\ file' = [file EXCEPT ![t] = f]
    /\ raced' = IF Quiet THEN raced
                ELSE [raced EXCEPT ![job.root] = @ \cup {t}]
    /\ UNCHANGED <<backup, used, manifest, local>>

Tamper(r, t, c) ==
    /\ EditsRace \/ Quiet
    /\ backup[r][t] \notin {Absent, c}
    /\ backup' = [backup EXCEPT ![r][t] = c]
    /\ raced' = [raced EXCEPT ![r] = @ \cup {t}]
    /\ UNCHANGED <<file, used, manifest, local>>

Activate ==
    \/ AdmitTarget \/ RefuseTarget \/ RefuseActivation \/ OpenBackupRoot
    \/ BackupTarget \/ NothingToBackUp \/ Prepare
    \/ ApplyTarget \/ SkipUnchanged \/ ApplyFails \/ SealApplied
    \/ RemoveCreated \/ RecoverReplaced \/ RecoverUnchanged \/ SealRecovered

Rollback ==
    \/ MatchTarget \/ DriftTarget \/ RefuseRollback \/ BeginUndo
    \/ UndoCreated \/ UndoReplaced \/ UndoUnchanged \/ SealRolledBack

Command == Activate \/ Rollback

Next ==
    \/ \E r \in Root, v \in Version, m \in BOOLEAN : BeginActivate(r, v, m)
    \/ \E r \in Root : BeginRollback(r)
    \/ Command
    \/ Crash
    \/ \E t \in Target, f \in EditTo : Edit(t, f)
    \/ \E r \in Root, t \in Target, c \in TamperTo : Tamper(r, t, c)

Spec == Init /\ [][Next]_vars

(* A started command keeps running until it ends.                          *)
FairSpec == Spec /\ WF_vars(Command)

-----------------------------------------------------------------------------
(* Properties                                                              *)

(* The values the state variables range over.                              *)
TypeOK ==
    /\ file \in [Target -> File]
    /\ backup \in [Root -> [Target -> Prior]]
    /\ used \in [Root -> BOOLEAN]
    /\ manifest \in [Root -> Manifest \cup {NoManifest}]
    /\ phase \in Phase
    /\ job \in Job \cup {NoJob}
    /\ i \in 0 .. N + 1
    /\ prior \in [Target -> Prior]
    /\ refused \subseteq Target
    /\ raced \in [Root -> SUBSET Target]

Replaces(m, t) == Action(Desired[m.version][t], m.prior[t]) = "replaced"

(* For as long as a root holds a manifest, and through every later command *)
(* on any root, the root holds what each replaced file was before, unless  *)
(* somebody else touched the file or the copy.                             *)
BackupsHoldOriginals ==
    \A r \in Root : manifest[r] # NoManifest =>
        \A t \in Target \ raced[r] :
            Replaces(manifest[r], t) => backup[r][t] = manifest[r].prior[t]

(* At every moment a write may be interrupted, the manifest of the root    *)
(* names what the endpoint had, every artifact is in its old or its new    *)
(* state, and the old content of a replaced one is in its backup: no crash *)
(* point loses a file.                                                     *)
EveryCrashPointIsRecoverable ==
    phase \in {"apply", "recover", "undo"} =>
        /\ manifest[job.root] # NoManifest
        /\ manifest[job.root].version = job.version
        /\ manifest[job.root].prior = prior
        /\ \A t \in Target \ raced[job.root] :
               /\ file[t] \in {prior[t], Goal(t)}
               /\ Entry(t) = "replaced" => backup[job.root][t] = prior[t]

(* A manifest says what the endpoint is like when it is written: nothing   *)
(* is installed yet when it becomes prepared, everything is when it        *)
(* becomes applied, and nothing is any more when it becomes rolled back,   *)
(* by rollback-local or by the recovery from a failed write.               *)
ManifestTellsTruth ==
    [][\A r \in Root : manifest'[r] # manifest[r] =>
         \A t \in Target \ raced[r] :
             file'[t] = IF manifest'[r].status = "applied"
                        THEN Desired[manifest'[r].version][t]
                        ELSE manifest'[r].prior[t]]_vars

(* While a command writes, an onlooker is shown the endpoint as it was     *)
(* when the writing began, and no manifest before its activation ends.     *)
ShownFile ==
    [t \in Target |->
        IF phase \in {"apply", "recover"} THEN prior[t]
        ELSE IF phase = "undo" THEN Goal(t)
        ELSE file[t]]

ShownManifest ==
    [r \in Root |->
        IF phase \in {"apply", "recover"} /\ r = job.root THEN NoManifest
        ELSE manifest[r]]

Abstract == INSTANCE EndpointTransaction
                WITH state <- ShownFile, ledger <- ShownManifest,
                     Unused <- NoManifest

(* With nobody else at work during a command, the commands implement the   *)
(* all-or-nothing endpoint of EndpointTransaction: a refused command       *)
(* changes nothing, an activation installs all or nothing, and a rollback  *)
(* brings back every file the activation found.                            *)
ImplementsTransaction == Abstract!Spec

(* An activation that has written its prepared manifest ends by settling   *)
(* it: applied, or rolled back after a failed write.                       *)
PreparedIsSettled ==
    \A r \in Root :
        (manifest[r] # NoManifest /\ manifest[r].status = "prepared")
            ~> (manifest[r] # NoManifest /\ manifest[r].status # "prepared")

(* What a document says of a command that others may interfere with.  The  *)
(* run of this one shows that the code does otherwise.                     *)

(* docs/agent-control.md:59: "rollback-local changes nothing unless every  *)
(* activated target and backup still matches that manifest".               *)
RollbackOverwritesOnlyMatches ==
    [][\A t \in Target :
         (phase = "undo" /\ i' # i /\ file'[t] # file[t]) =>
             /\ file[t] = Goal(t)
             /\ Entry(t) = "replaced" => backup[job.root][t] = prior[t]]_vars

=============================================================================
