--------------------------- MODULE ActivationProofs ---------------------------
(***************************************************************************)
(* Proofs about Activation, for every number of artifacts, backup roots,   *)
(* policy versions and contents, with and without crashes and races.       *)
(***************************************************************************)
EXTENDS Activation, TLAPS

(* A running command has arguments, the manifest its phase implies is on   *)
(* disk, and a manifest makes its root used, so that no later activation   *)
(* can open the root and overwrite its backups.                            *)
OnDisk ==
    /\ phase # "idle" => job \in Job
    /\ \A r \in Root : manifest[r] # NoManifest => used[r]
    /\ phase = "backup" => manifest[job.root] = NoManifest
    /\ phase \in {"apply", "recover"} =>
           manifest[job.root] = [status |-> "prepared",
                                 version |-> job.version, prior |-> prior]
    /\ phase \in {"check", "undo"} =>
           manifest[job.root] = [status |-> "applied",
                                 version |-> job.version, prior |-> prior]

(* The first loops run forward to N + 1, the others back to 0.             *)
Bounds ==
    /\ phase \in {"preflight", "backup", "apply", "check"} => i # 0
    /\ phase \in {"recover", "undo"} => i # N + 1

Clean(t) == t \notin raced[job.root]

Saved(t) == Entry(t) = "replaced" => backup[job.root][t] = prior[t]

(* Where a loop has been, and where it has not been yet.                   *)
Progress ==
    phase # "idle" => \A t \in Target : Clean(t) =>
        /\ phase = "preflight" /\ t < i /\ t \notin refused => file[t] = prior[t]
        /\ phase = "backup" => file[t] = prior[t] /\ (t < i => Saved(t))
        /\ phase = "apply" => file[t] = IF t < i THEN Goal(t) ELSE prior[t]
        /\ phase \in {"recover", "undo"} =>
               file[t] = IF t <= i THEN Goal(t) ELSE prior[t]
        /\ phase = "check" /\ t < i /\ t \notin refused => file[t] = Goal(t)

IInv == TypeOK /\ OnDisk /\ Bounds /\ Progress /\ BackupsHoldOriginals

-----------------------------------------------------------------------------
(* Types                                                                   *)

Typed == TypeOK /\ (phase # "idle" => job \in Job)

LEMMA EntriesTyped == NoEntries \in [Target -> Prior]
  BY DEF NoEntries, Prior

(* A seal writes a well-formed manifest.                                   *)
LEMMA SealTyped ==
  ASSUME Typed, phase # "idle", NEW s \in Status, SealManifest(s)
  PROVE  /\ manifest' \in [Root -> Manifest \cup {NoManifest}]
         /\ used' \in [Root -> BOOLEAN]
  BY DEF Typed, TypeOK, SealManifest, WriteManifest, Manifest, Job

LEMMA ExitTyped ==
  ASSUME Exit
  PROVE  /\ phase' = "idle" /\ phase' \in Phase
         /\ job' \in Job \cup {NoJob}
         /\ i' \in 0 .. N + 1
         /\ prior' \in [Target -> Prior]
         /\ refused' \subseteq Target
  BY EntriesTyped, SizeAssumption DEF Exit, Phase

LEMMA LoopTyped ==
  ASSUME NEW ph, At(ph), Advance \/ Retreat PROVE i' \in 0 .. N + 1
  BY SizeAssumption DEF At, Advance, Retreat, Target

LEMMA TypedStep == Typed /\ [Next]_vars => Typed'
  <1> SUFFICES ASSUME Typed, [Next]_vars PROVE Typed'
    OBVIOUS
  <1> USE SizeAssumption DEF Typed, TypeOK, disk, local
  <1>1. ASSUME NEW r \in Root, NEW v \in Version, NEW m \in BOOLEAN,
               BeginActivate(r, v, m)
        PROVE  Typed'
    BY <1>1 DEF BeginActivate, Enter, Job, Phase
  <1>2. ASSUME NEW r \in Root, BeginRollback(r) PROVE Typed'
    BY <1>2 DEF BeginRollback, Enter, Job, Phase, Manifest
  <1>3. CASE AdmitTarget
    BY <1>3 DEF AdmitTarget, At, Advance, Conflict, Target, File, Prior
  <1>4. CASE RefuseTarget
    BY <1>4 DEF RefuseTarget, At, Advance, Target
  <1>5. CASE RefuseActivation \/ RefuseRollback
    BY <1>5, ExitTyped DEF RefuseActivation, RefuseRollback
  <1>6. CASE OpenBackupRoot
    BY <1>6 DEF OpenBackupRoot, Enter, Past, Phase
  <1>7. CASE BackupTarget
    <2>1. ASSUME NEW c \in Reads(file[i]) PROVE i \in Target => c \in Prior
      BY <2>1 DEF Reads, File, Prior
    <2>2. QED
      BY <1>7, <2>1 DEF BackupTarget, At, Advance, Target, Job
  <1>8. CASE \/ NothingToBackUp \/ SkipUnchanged \/ MatchTarget
    BY <1>8, LoopTyped DEF NothingToBackUp, SkipUnchanged, MatchTarget
  <1>9. CASE Prepare
    <2>1. phase # "idle" /\ SealManifest("prepared")
      BY <1>9 DEF Prepare, Past
    <2>2. QED
      BY <1>9, <2>1, SealTyped DEF Prepare, Enter, Phase, Past, Status
  <1>10. CASE ApplyTarget
    BY <1>10, DesiredAssumption DEF ApplyTarget, At, Advance, Target, Goal, Job, File
  <1>11. CASE ApplyFails
    BY <1>11 DEF ApplyFails, At, Enter, Target, Phase
  <1>12. CASE SealApplied \/ SealRecovered \/ SealRolledBack
    <2>1. /\ phase # "idle" /\ Exit
          /\ SealManifest("applied") \/ SealManifest("rolled_back")
      BY <1>12 DEF SealApplied, SealRecovered, SealRolledBack, Past
    <2>2. QED
      BY <1>12, <2>1, SealTyped, ExitTyped
         DEF SealApplied, SealRecovered, SealRolledBack, Status
  <1>13. CASE RemoveCreated \/ UndoCreated
    <2>1. i' \in 0 .. N + 1
      BY <1>13, LoopTyped DEF RemoveCreated, UndoCreated
    <2>2. QED
      BY <1>13, <2>1 DEF RemoveCreated, UndoCreated, File
  <1>14. CASE RecoverReplaced \/ UndoReplaced
    <2>1. i' \in 0 .. N + 1
      BY <1>14, LoopTyped DEF RecoverReplaced, UndoReplaced, PutBack
    <2>2. job.root \in Root
      BY <1>14 DEF RecoverReplaced, UndoReplaced, PutBack, At, Job
    <2>3. QED
      BY <1>14, <2>1, <2>2 DEF RecoverReplaced, UndoReplaced, PutBack, At, File, Prior
  <1>15. CASE RecoverUnchanged \/ UndoUnchanged
    BY <1>15, LoopTyped DEF RecoverUnchanged, UndoUnchanged, LeaveUnchanged
  <1>16. CASE DriftTarget
    BY <1>16 DEF DriftTarget, At, Advance, Target
  <1>17. CASE BeginUndo
    BY <1>17 DEF BeginUndo, Past, Enter, Phase
  <1>18. CASE Crash
    BY <1>18, ExitTyped DEF Crash, Job
  <1>19. ASSUME NEW t \in Target, NEW f \in EditTo, Edit(t, f) PROVE Typed'
    BY <1>19, OthersAssumption DEF Edit, Quiet, Job
  <1>20. ASSUME NEW r \in Root, NEW t \in Target, NEW c \in TamperTo, Tamper(r, t, c)
         PROVE  Typed'
    BY <1>20, OthersAssumption DEF Tamper
  <1>21. CASE UNCHANGED vars
    BY <1>21 DEF vars
  <1>22. QED
    BY <1>1, <1>2, <1>3, <1>4, <1>5, <1>6, <1>7, <1>8, <1>9, <1>10, <1>11, <1>12,
       <1>13, <1>14, <1>15, <1>16, <1>17, <1>18, <1>19, <1>20, <1>21
       DEF Next, Command, Activate, Rollback

(* Every reachable state of the two commands is well typed.                *)
THEOREM TypeCorrect == Spec => []TypeOK
  <1>1. Init => Typed
    BY EntriesTyped, SizeAssumption DEF Init, Typed, TypeOK, Phase
  <1>2. Typed => TypeOK
    BY DEF Typed
  <1>3. QED
    BY <1>1, <1>2, TypedStep, PTL DEF Spec

-----------------------------------------------------------------------------
(* The manifest on disk                                                    *)

LEMMA OnDiskStep == Typed /\ OnDisk /\ [Next]_vars => OnDisk'
  <1> SUFFICES ASSUME Typed, OnDisk, [Next]_vars PROVE OnDisk'
    OBVIOUS
  <1> USE DEF Typed, TypeOK, OnDisk, disk, local
  <1>1. ASSUME NEW r \in Root, NEW v \in Version, NEW m \in BOOLEAN,
               BeginActivate(r, v, m)
        PROVE  OnDisk'
    BY <1>1 DEF BeginActivate, Enter, Job
  <1>2. ASSUME NEW r \in Root, BeginRollback(r) PROVE OnDisk'
    <2>1. /\ manifest[r] \in Manifest
          /\ manifest[r].status = "applied"
      BY <1>2 DEF BeginRollback
    <2>2. manifest[r] = [status |-> "applied", version |-> manifest[r].version,
                         prior |-> manifest[r].prior]
      BY <2>1 DEF Manifest
    <2>3. job' \in Job /\ job'.root = r /\ job'.version = manifest[r].version
      BY <1>2, <2>1 DEF BeginRollback, Job, Manifest
    <2>4. QED
      BY <1>2, <2>2, <2>3 DEF BeginRollback, Enter
  <1>3. CASE AdmitTarget \/ RefuseTarget
    BY <1>3 DEF AdmitTarget, RefuseTarget, At
  <1>4. CASE RefuseActivation \/ RefuseRollback
    BY <1>4 DEF RefuseActivation, RefuseRollback, Exit
  <1>5. CASE OpenBackupRoot
    BY <1>5 DEF OpenBackupRoot, Past, Enter, Job
  <1>6. CASE BackupTarget
    BY <1>6 DEF BackupTarget, At, Job
  <1>7. CASE NothingToBackUp \/ SkipUnchanged \/ MatchTarget \/ DriftTarget
    BY <1>7 DEF NothingToBackUp, SkipUnchanged, MatchTarget, DriftTarget, At
  <1>8. CASE Prepare
    BY <1>8 DEF Prepare, Past, Enter, SealManifest, WriteManifest, Job
  <1>9. CASE ApplyTarget
    BY <1>9 DEF ApplyTarget, At
  <1>10. CASE ApplyFails \/ BeginUndo
    BY <1>10 DEF ApplyFails, BeginUndo, At, Past, Enter
  <1>11. CASE SealApplied \/ SealRecovered \/ SealRolledBack
    BY <1>11 DEF SealApplied, SealRecovered, SealRolledBack, Past, Exit,
                 SealManifest, WriteManifest, Job
  <1>12. CASE RemoveCreated \/ UndoCreated
    BY <1>12 DEF RemoveCreated, UndoCreated, At
  <1>13. CASE RecoverReplaced \/ UndoReplaced
    BY <1>13 DEF RecoverReplaced, UndoReplaced, PutBack, At
  <1>14. CASE RecoverUnchanged \/ UndoUnchanged
    BY <1>14 DEF RecoverUnchanged, UndoUnchanged, LeaveUnchanged, At
  <1>15. CASE Crash
    BY <1>15 DEF Crash, Exit, Job
  <1>16. ASSUME NEW t \in Target, NEW f \in EditTo, Edit(t, f) PROVE OnDisk'
    BY <1>16 DEF Edit
  <1>17. ASSUME NEW r \in Root, NEW t \in Target, NEW c \in TamperTo, Tamper(r, t, c)
         PROVE  OnDisk'
    BY <1>17 DEF Tamper
  <1>18. CASE UNCHANGED vars
    BY <1>18 DEF vars
  <1>19. QED
    BY <1>1, <1>2, <1>3, <1>4, <1>5, <1>6, <1>7, <1>8, <1>9, <1>10, <1>11, <1>12,
       <1>13, <1>14, <1>15, <1>16, <1>17, <1>18
       DEF Next, Command, Activate, Rollback

LEMMA BoundsStep == Typed /\ Bounds /\ [Next]_vars => Bounds'
  <1> SUFFICES ASSUME Typed, Bounds, [Next]_vars PROVE Bounds'
    OBVIOUS
  <1> USE SizeAssumption DEF Bounds
  <1>1. i \in 0 .. N + 1
    BY DEF Typed, TypeOK
  <1>2. CASE UNCHANGED <<phase, i>>
    BY <1>2
  <1>3. CASE phase' = phase /\ i \in Target /\ (Advance \/ Retreat) /\
             (Advance <=> phase \in {"preflight", "backup", "apply", "check"})
    BY <1>1, <1>3 DEF Advance, Retreat, Target
  <1>4. CASE Exit
    BY <1>4 DEF Exit
  <1>5. CASE \/ Enter("preflight", 1) \/ Enter("backup", 1)
             \/ Enter("apply", 1) \/ Enter("check", 1)
    BY <1>5 DEF Enter
  <1>6. CASE \/ Enter("recover", i - 1) /\ i \in Target
             \/ Enter("undo", N)
    BY <1>6 DEF Enter, Target
  <1>7. QED
    <2>1. [Next]_vars => \/ UNCHANGED <<phase, i>>
                         \/ phase' = phase /\ i \in Target /\
                            \/ Advance /\ phase \in {"preflight", "backup", "apply", "check"}
                            \/ Retreat /\ phase \in {"recover", "undo"}
                         \/ Exit
                         \/ Enter("preflight", 1) \/ Enter("backup", 1)
                         \/ Enter("apply", 1) \/ Enter("check", 1)
                         \/ Enter("recover", i - 1) /\ i \in Target
                         \/ Enter("undo", N)
      BY DEF Next, Command, Activate, Rollback, BeginActivate, BeginRollback,
             AdmitTarget, RefuseTarget, RefuseActivation, OpenBackupRoot,
             BackupTarget, NothingToBackUp, Prepare, ApplyTarget, SkipUnchanged,
             ApplyFails, SealApplied, RemoveCreated, RecoverReplaced,
             RecoverUnchanged, SealRecovered, MatchTarget, DriftTarget,
             RefuseRollback, BeginUndo, UndoCreated, UndoReplaced,
             UndoUnchanged, SealRolledBack, PutBack, LeaveUnchanged, Crash,
             Edit, Tamper, At, vars, local
    <2>2. ASSUME Advance, Retreat PROVE FALSE
      BY <1>1, <2>2 DEF Advance, Retreat
    <2>3. QED
      BY <1>2, <1>3, <1>4, <1>5, <1>6, <2>1, <2>2

-----------------------------------------------------------------------------
(* The backups                                                             *)

(* A step that touches no manifest and no backup, and forgets no race,     *)
(* keeps the originals.                                                    *)
LEMMA BackupsFrame ==
  ASSUME BackupsHoldOriginals, UNCHANGED <<manifest, backup>>,
         \A r \in Root : manifest[r] # NoManifest => raced[r] \subseteq raced'[r]
  PROVE  BackupsHoldOriginals'
  BY DEF BackupsHoldOriginals, Replaces

(* In memory and in its manifest a command has the same entries.           *)
LEMMA SameEntries ==
  ASSUME NEW s, NEW t, manifest[job.root] =
            [status |-> s, version |-> job.version, prior |-> prior]
  PROVE  /\ Replaces(manifest[job.root], t) <=> Entry(t) = "replaced"
         /\ manifest[job.root].prior[t] = prior[t]
  BY DEF Replaces, Entry, Goal

(* Rewriting the status of a manifest keeps the originals.                 *)
LEMMA BackupsSeal ==
  ASSUME Typed, phase # "idle", BackupsHoldOriginals,
         UNCHANGED <<backup, raced>>, NEW s, SealManifest(s),
         \A t \in Target : Clean(t) => Saved(t)
  PROVE  BackupsHoldOriginals'
  <1> SUFFICES ASSUME NEW r \in Root, manifest'[r] # NoManifest,
                      NEW t \in Target, t \notin raced[r], Replaces(manifest'[r], t)
               PROVE  backup[r][t] = manifest'[r].prior[t]
    BY DEF BackupsHoldOriginals, Replaces
  <1>1. job.root \in Root /\ manifest \in [Root -> Manifest \cup {NoManifest}]
    BY DEF Typed, TypeOK, Job
  <1>2. CASE r = job.root
    <2>1. manifest'[r] = [status |-> s, version |-> job.version, prior |-> prior]
      BY <1>1, <1>2 DEF SealManifest, WriteManifest
    <2>2. Entry(t) = "replaced"
      BY <2>1 DEF Replaces, Entry, Goal
    <2>3. QED
      BY <1>2, <2>1, <2>2 DEF Clean, Saved
  <1>3. CASE r # job.root
    <2>1. manifest'[r] = manifest[r]
      BY <1>1, <1>3 DEF SealManifest, WriteManifest
    <2>2. QED
      BY <2>1 DEF BackupsHoldOriginals
  <1>4. QED
    BY <1>2, <1>3

LEMMA ManifestPresent ==
  ASSUME IInv, phase \in {"apply", "recover", "check", "undo"}
  PROVE  /\ manifest[job.root] # NoManifest
         /\ manifest[job.root].version = job.version
         /\ manifest[job.root].prior = prior
         /\ \E s \in Status : manifest[job.root] =
                [status |-> s, version |-> job.version, prior |-> prior]
  <1>1. PICK s \in Status : manifest[job.root] =
                   [status |-> s, version |-> job.version, prior |-> prior]
    BY DEF IInv, OnDisk, Status
  <1>2. [status |-> s, version |-> job.version, prior |-> prior] \in Manifest
    BY DEF IInv, OnDisk, TypeOK, Manifest, Job
  <1>3. QED
    BY <1>1, <1>2, MarkAssumption

LEMMA AllSaved ==
  ASSUME IInv, phase \in {"apply", "recover", "check", "undo"}, NEW t \in Target, Clean(t)
  PROVE  Saved(t)
  <1>1. job.root \in Root
    BY DEF IInv, OnDisk, Job
  <1>2. QED
    BY <1>1, ManifestPresent, SameEntries DEF IInv, BackupsHoldOriginals, Clean, Saved

LEMMA BackupsStep == IInv /\ [Next]_vars => BackupsHoldOriginals'
  <1> SUFFICES ASSUME IInv, [Next]_vars PROVE BackupsHoldOriginals'
    OBVIOUS
  <1>t. Typed
    BY DEF IInv, OnDisk, Typed
  <1>1. ASSUME NEW r \in Root, NEW v \in Version, NEW m \in BOOLEAN,
               BeginActivate(r, v, m)
        PROVE  BackupsHoldOriginals'
    BY <1>1, BackupsFrame DEF BeginActivate, disk, IInv, OnDisk, TypeOK
  <1>2. CASE BackupTarget
    <2> SUFFICES ASSUME NEW r \in Root, manifest[r] # NoManifest, NEW t \in Target,
                        t \notin raced[r], Replaces(manifest[r], t)
                 PROVE  backup'[r][t] = manifest[r].prior[t]
      BY <1>2 DEF BackupTarget, BackupsHoldOriginals, Replaces
    <2>1. r # job.root
      BY <1>2 DEF BackupTarget, At, IInv, OnDisk
    <2>2. backup'[r] = backup[r]
      BY <1>2, <2>1 DEF BackupTarget, IInv, TypeOK
    <2>3. QED
      BY <2>2 DEF IInv, BackupsHoldOriginals
  <1>3. CASE Prepare
    <2>1. \A t \in Target : Clean(t) => Saved(t)
      BY <1>3, SizeAssumption DEF Prepare, Past, IInv, TypeOK, Bounds, Progress, Target
    <2>2. QED
      BY <1>3, <1>t, <2>1, BackupsSeal DEF Prepare, Past, IInv
  <1>4. CASE SealApplied \/ SealRecovered \/ SealRolledBack
    <2>1. phase \in {"apply", "recover", "undo"}
      BY <1>4 DEF SealApplied, SealRecovered, SealRolledBack, Past
    <2>2. \A t \in Target : Clean(t) => Saved(t)
      BY <2>1, AllSaved
    <2>3. QED
      BY <1>4, <1>t, <2>1, <2>2, BackupsSeal
         DEF SealApplied, SealRecovered, SealRolledBack, IInv
  <1>5. ASSUME NEW r \in Root, NEW t \in Target, NEW c \in TamperTo, Tamper(r, t, c)
        PROVE  BackupsHoldOriginals'
    BY <1>5 DEF Tamper, IInv, TypeOK, BackupsHoldOriginals, Replaces
  <1>6. ASSUME NEW t \in Target, NEW f \in EditTo, Edit(t, f)
        PROVE  BackupsHoldOriginals'
    BY <1>6, BackupsFrame DEF Edit, IInv, TypeOK
  <1>7. CASE UNCHANGED <<manifest, backup, raced>>
    BY <1>7, BackupsFrame DEF IInv
  <1>8. QED
    BY <1>1, <1>2, <1>3, <1>4, <1>5, <1>6, <1>7
       DEF Next, Command, Activate, Rollback, BeginRollback, AdmitTarget,
           RefuseTarget, RefuseActivation, OpenBackupRoot, NothingToBackUp,
           ApplyTarget, SkipUnchanged, ApplyFails, RemoveCreated,
           RecoverReplaced, RecoverUnchanged, MatchTarget, DriftTarget,
           RefuseRollback, BeginUndo, UndoCreated, UndoReplaced, UndoUnchanged,
           PutBack, LeaveUnchanged, Crash, vars, disk, local

-----------------------------------------------------------------------------
(* The loops                                                               *)

(* What an action table entry means for the content it is about.           *)
LEMMA EntryCases ==
  ASSUME NEW t
  PROVE  /\ Entry(t) = "created" => prior[t] = Absent
         /\ Entry(t) = "unchanged" => prior[t] = Goal(t)
         /\ Entry(t) \in {"created", "unchanged", "replaced"}
  BY DEF Entry, Action

LEMMA GoalTyped ==
  ASSUME Typed, phase # "idle", NEW t \in Target
  PROVE  Goal(t) \in Content /\ Reads(Goal(t)) = {Goal(t)}
  BY DesiredAssumption, MarkAssumption DEF Goal, Typed, Job, Reads

(* The loop stays where it is, or passes artifact i without touching a     *)
(* file, which is right when i is already what the loop makes of it.       *)
LEMMA ProgressStep == IInv /\ [Next]_vars => Progress'
  <1> SUFFICES ASSUME IInv, [Next]_vars PROVE Progress'
    OBVIOUS
  <1>i. /\ i \in 0 .. N + 1 /\ N \in Nat \ {0}
        /\ file \in [Target -> File]
        /\ prior \in [Target -> Prior]
        /\ backup \in [Root -> [Target -> Prior]]
        /\ raced \in [Root -> SUBSET Target]
    BY SizeAssumption DEF IInv, TypeOK
  <1>t. Typed
    BY DEF IInv, OnDisk, Typed
  <1>j. phase # "idle" => job.root \in Root
    BY DEF IInv, OnDisk, Job
  <1>p. Progress
    BY DEF IInv
  <1> USE DEF Progress, Clean, Saved, disk, local
  <1>1. ASSUME NEW r \in Root, NEW v \in Version, NEW m \in BOOLEAN,
               BeginActivate(r, v, m)
        PROVE  Progress'
    BY <1>1, <1>i DEF BeginActivate, Enter, Target
  <1>2. ASSUME NEW r \in Root, BeginRollback(r) PROVE Progress'
    BY <1>2, <1>i DEF BeginRollback, Enter, Target
  <1>3. CASE AdmitTarget
    BY <1>3, <1>i, <1>p DEF AdmitTarget, At, Advance, Target
  <1>4. CASE RefuseTarget
    BY <1>4, <1>i, <1>p DEF RefuseTarget, At, Advance, Target
  <1>5. CASE Exit
    BY <1>5 DEF Exit
  <1>6. CASE OpenBackupRoot
    BY <1>6, <1>i, <1>p DEF OpenBackupRoot, Past, Enter, Target, IInv, Bounds
  <1>7. CASE BackupTarget
    <2>1. ASSUME NEW t \in Target, t \notin raced[job.root] PROVE file[t] = prior[t]
      BY <1>7, <1>p, <2>1 DEF BackupTarget, At
    <2>2. i \notin raced[job.root] => backup'[job.root][i] = prior[i]
      <3> SUFFICES ASSUME i \notin raced[job.root]
                   PROVE  backup'[job.root][i] = prior[i]
        OBVIOUS
      <3>1. file[i] \in Prior /\ file[i] = prior[i]
        BY <1>7, <1>i, <2>1 DEF BackupTarget, At
      <3>2. Reads(file[i]) \subseteq {prior[i]}
        BY <3>1, MarkAssumption DEF Reads, Prior
      <3>3. QED
        BY <1>7, <1>i, <1>j, <3>2 DEF BackupTarget, At
    <2>3. ASSUME NEW t \in Target, t # i
          PROVE  backup'[job.root][t] = backup[job.root][t]
      BY <1>7, <1>i, <1>j, <2>3 DEF BackupTarget, At
    <2>4. QED
      BY <1>7, <1>i, <1>p, <2>1, <2>2, <2>3
         DEF BackupTarget, At, Advance, Target, Entry, Goal
  <1>8. CASE NothingToBackUp
    BY <1>8, <1>i, <1>p DEF NothingToBackUp, At, Advance, Target, Entry, Goal
  <1>9. CASE Prepare
    BY <1>9, <1>i, <1>p DEF Prepare, Past, Enter, Target
  <1>10. CASE ApplyTarget
    BY <1>10, <1>i, <1>p DEF ApplyTarget, At, Advance, Target, Goal
  <1>11. CASE SkipUnchanged
    BY <1>11, <1>i, <1>p, EntryCases DEF SkipUnchanged, At, Advance, Target, Goal
  <1>12. CASE ApplyFails
    BY <1>12, <1>i, <1>p DEF ApplyFails, At, Enter, Target, Goal
  <1>13. CASE RemoveCreated \/ UndoCreated
    <2>1. /\ i \in Target /\ phase \in {"recover", "undo"}
          /\ Entry(i) = "created"
          /\ i \notin raced[job.root] => file[i] = Goal(i)
      BY <1>13, <1>i, <1>p DEF RemoveCreated, UndoCreated, At, Target
    <2>2. i \notin raced[job.root] => file' = [file EXCEPT ![i] = Absent]
      BY <1>13, <1>t, <2>1, GoalTyped DEF RemoveCreated, UndoCreated
    <2>3. \A t \in Target : t # i => file'[t] = file[t]
      BY <1>13, <1>i DEF RemoveCreated, UndoCreated
    <2>4. i \notin raced[job.root] => file'[i] = prior[i]
      BY <1>i, <2>1, <2>2, EntryCases
    <2>5. QED
      BY <1>13, <1>i, <1>p, <2>1, <2>3, <2>4
         DEF RemoveCreated, UndoCreated, Retreat, Target, Goal
  <1>14. CASE RecoverReplaced \/ UndoReplaced
    <2>1. /\ i \in Target /\ phase \in {"recover", "undo"}
          /\ Entry(i) = "replaced"
          /\ file' = [file EXCEPT ![i] = backup[job.root][i]]
      BY <1>14 DEF RecoverReplaced, UndoReplaced, PutBack, At
    <2>2. i \notin raced[job.root] => backup[job.root][i] = prior[i]
      BY <2>1, AllSaved
    <2>3. QED
      BY <1>14, <1>i, <1>p, <2>1, <2>2
         DEF RecoverReplaced, UndoReplaced, PutBack, Retreat, Target, Goal
  <1>15. CASE RecoverUnchanged \/ UndoUnchanged
    BY <1>15, <1>i, <1>p, EntryCases
       DEF RecoverUnchanged, UndoUnchanged, LeaveUnchanged, At, Retreat, Target, Goal
  <1>16. CASE MatchTarget
    BY <1>16, <1>i, <1>p DEF MatchTarget, Drifted, At, Advance, Target, Goal
  <1>17. CASE DriftTarget
    BY <1>17, <1>i, <1>p DEF DriftTarget, At, Advance, Target, Goal
  <1>18. CASE BeginUndo
    BY <1>18, <1>i, <1>p DEF BeginUndo, Past, Enter, Target, Goal, IInv, Bounds
  <1>19. ASSUME NEW t \in Target, NEW f \in EditTo, Edit(t, f) PROVE Progress'
    <2>1. CASE phase = "idle"
      BY <1>19, <2>1 DEF Edit
    <2>2. CASE phase # "idle"
      <3>1. raced' = [raced EXCEPT ![job.root] = @ \cup {t}]
        BY <1>19, <2>2 DEF Edit, Quiet
      <3>2. ASSUME NEW u \in Target, u \notin raced'[job.root]
            PROVE  u \notin raced[job.root] /\ file'[u] = file[u]
        BY <1>19, <1>i, <1>j, <2>2, <3>1, <3>2 DEF Edit
      <3>3. QED
        BY <1>19, <1>p, <2>2, <3>2 DEF Edit, Entry, Goal
    <2>3. QED
      BY <2>1, <2>2
  <1>20. ASSUME NEW r \in Root, NEW t \in Target, NEW c \in TamperTo, Tamper(r, t, c)
         PROVE  Progress'
    <2>1. ASSUME phase # "idle", NEW u \in Target, u \notin raced'[job.root]
          PROVE  /\ u \notin raced[job.root]
                 /\ backup'[job.root][u] = backup[job.root][u]
      BY <1>20, <1>i, <1>j, <2>1 DEF Tamper
    <2>2. QED
      BY <1>20, <1>p, <2>1 DEF Tamper, Entry, Goal
  <1>21. CASE UNCHANGED vars
    BY <1>21, <1>p DEF vars, Entry, Goal
  <1>22. QED
    BY <1>1, <1>2, <1>3, <1>4, <1>5, <1>6, <1>7, <1>8, <1>9, <1>10, <1>11, <1>12,
       <1>13, <1>14, <1>15, <1>16, <1>17, <1>18, <1>19, <1>20, <1>21
       DEF Next, Command, Activate, Rollback, RefuseActivation, RefuseRollback,
           SealApplied, SealRecovered, SealRolledBack, Crash

-----------------------------------------------------------------------------
(* The theorems                                                            *)

LEMMA Inductive == Spec => []IInv
  <1>1. Init => IInv
    <2>1. Init => Typed
      BY EntriesTyped, SizeAssumption DEF Init, Typed, TypeOK, Phase
    <2>2. Init => OnDisk /\ Bounds /\ Progress /\ BackupsHoldOriginals
      BY DEF Init, OnDisk, Bounds, Progress, BackupsHoldOriginals
    <2>3. QED
      BY <2>1, <2>2 DEF Typed, IInv
  <1>2. IInv /\ [Next]_vars => IInv'
    <2> SUFFICES ASSUME IInv, [Next]_vars PROVE IInv'
      OBVIOUS
    <2>1. Typed /\ OnDisk /\ Bounds
      BY DEF IInv, OnDisk, Typed
    <2>2. Typed' /\ OnDisk' /\ Bounds'
      BY <2>1, TypedStep, OnDiskStep, BoundsStep
    <2>3. Progress' /\ BackupsHoldOriginals'
      BY ProgressStep, BackupsStep
    <2>4. QED
      BY <2>2, <2>3 DEF IInv, Typed
  <1>3. QED
    BY <1>1, <1>2, PTL DEF Spec

(* However often others interfere and processes die, a backup root whose   *)
(* manifest exists holds the original of every replaced file that nobody   *)
(* else touched.                                                           *)
THEOREM OriginalsKept == Spec => []BackupsHoldOriginals
  <1>1. IInv => BackupsHoldOriginals
    BY DEF IInv
  <1>2. QED
    BY <1>1, Inductive, PTL

(* Every moment between two writes leaves old or new files and the backups *)
(* that bring the old ones back.                                           *)
THEOREM CrashPointsRecoverable == Spec => []EveryCrashPointIsRecoverable
  <1>1. IInv => EveryCrashPointIsRecoverable
    <2> SUFFICES ASSUME IInv, phase \in {"apply", "recover", "undo"}
                 PROVE  /\ manifest[job.root] # NoManifest
                        /\ manifest[job.root].version = job.version
                        /\ manifest[job.root].prior = prior
                        /\ \A t \in Target \ raced[job.root] :
                               /\ file[t] \in {prior[t], Goal(t)}
                               /\ Saved(t)
      BY DEF EveryCrashPointIsRecoverable, Saved
    <2>1. /\ manifest[job.root] # NoManifest
          /\ manifest[job.root].version = job.version
          /\ manifest[job.root].prior = prior
      BY ManifestPresent
    <2>2. ASSUME NEW t \in Target \ raced[job.root]
          PROVE  file[t] \in {prior[t], Goal(t)} /\ Saved(t)
      BY <2>2, AllSaved DEF IInv, Progress, Clean
    <2>3. QED
      BY <2>1, <2>2
  <1>2. QED
    BY <1>1, Inductive, PTL

(* Whenever a manifest is written, it says what the endpoint is like.      *)
THEOREM ManifestsTellTruth == Spec => ManifestTellsTruth
  <1> DEFINE Honest ==
        \A r \in Root : manifest'[r] # manifest[r] =>
          \A t \in Target \ raced[r] :
             file'[t] = IF manifest'[r].status = "applied"
                        THEN Desired[manifest'[r].version][t]
                        ELSE manifest'[r].prior[t]
  <1>1. IInv /\ [Next]_vars => [Honest]_vars
    <2> SUFFICES ASSUME IInv, [Next]_vars PROVE Honest
      OBVIOUS
    <2>1. CASE UNCHANGED manifest
      BY <2>1
    <2>2. CASE Prepare \/ SealApplied \/ SealRecovered \/ SealRolledBack
      <3>1. PICK s \in Status :
               /\ SealManifest(s) /\ UNCHANGED file
               /\ phase = (CASE s = "prepared" -> "backup"
                             [] s = "applied" -> "apply"
                             [] OTHER -> phase)
               /\ s = "rolled_back" => phase \in {"recover", "undo"}
               /\ i \notin Target
        BY <2>2 DEF Prepare, SealApplied, SealRecovered, SealRolledBack, Past, Status
      <3>2. job.root \in Root /\ manifest \in [Root -> Manifest \cup {NoManifest}]
        BY <3>1 DEF IInv, TypeOK, OnDisk, Job, Status
      <3>3. ASSUME NEW r \in Root, manifest'[r] # manifest[r]
            PROVE  /\ r = job.root
                   /\ manifest'[r] = [status |-> s, version |-> job.version,
                                      prior |-> prior]
        BY <3>1, <3>2, <3>3 DEF SealManifest, WriteManifest
      <3>4. ASSUME NEW t \in Target \ raced[job.root]
            PROVE  file[t] = IF s = "applied" THEN Goal(t) ELSE prior[t]
        BY <3>1, <3>4, SizeAssumption
           DEF IInv, TypeOK, Bounds, Progress, Clean, Target, Status
      <3>5. QED
        BY <3>1, <3>3, <3>4 DEF Goal
    <2>3. QED
      BY <2>1, <2>2
         DEF Next, Command, Activate, Rollback, BeginActivate, BeginRollback,
             AdmitTarget, RefuseTarget, RefuseActivation, OpenBackupRoot,
             BackupTarget, NothingToBackUp, ApplyTarget, SkipUnchanged,
             ApplyFails, RemoveCreated, RecoverReplaced, RecoverUnchanged,
             MatchTarget, DriftTarget, RefuseRollback, BeginUndo, UndoCreated,
             UndoReplaced, UndoUnchanged, PutBack, LeaveUnchanged, Crash,
             Edit, Tamper, vars, disk, local
  <1>2. QED
    BY <1>1, Inductive, PTL DEF Spec, ManifestTellsTruth

-----------------------------------------------------------------------------
(* The commands implement the transaction                                  *)

(* With nobody else at work during a command: nothing on its root is held  *)
(* against an activation that may write, and what a rollback has matched   *)
(* stays matched.                                                          *)
Undisturbed ==
    /\ phase = "preflight" /\ ~used[job.root] => raced[job.root] = {}
    /\ phase \in {"backup", "apply", "recover"} => raced[job.root] = {}
    /\ phase = "check" => \A t \in Target :
           t < i /\ t \notin refused => file[t] = Goal(t) /\ Saved(t)
    /\ phase = "undo" => \A t \in Target :
           file[t] = (IF t <= i THEN Goal(t) ELSE prior[t]) /\ Saved(t)

LEMMA UndisturbedStep ==
  ASSUME ~EditsRace, IInv, Undisturbed, [Next]_vars PROVE Undisturbed'
  <1>i. /\ i \in 0 .. N + 1 /\ N \in Nat \ {0}
        /\ file \in [Target -> File]
        /\ prior \in [Target -> Prior]
        /\ backup \in [Root -> [Target -> Prior]]
        /\ raced \in [Root -> SUBSET Target]
        /\ used \in [Root -> BOOLEAN]
    BY SizeAssumption DEF IInv, TypeOK
  <1>t. Typed
    BY DEF IInv, OnDisk, Typed
  <1>j. phase # "idle" => job.root \in Root
    BY DEF IInv, OnDisk, Job
  <1> USE DEF Undisturbed, Saved, disk, local
  <1>1. ASSUME NEW r \in Root, NEW v \in Version, NEW m \in BOOLEAN,
               BeginActivate(r, v, m)
        PROVE  Undisturbed'
    BY <1>1, <1>i DEF BeginActivate, Enter
  <1>2. ASSUME NEW r \in Root, BeginRollback(r) PROVE Undisturbed'
    BY <1>2, <1>i DEF BeginRollback, Enter, Target
  <1>3. CASE AdmitTarget \/ RefuseTarget
    BY <1>3 DEF AdmitTarget, RefuseTarget, At
  <1>4. CASE Exit
    BY <1>4 DEF Exit
  <1>5. CASE OpenBackupRoot
    BY <1>5 DEF OpenBackupRoot, Past, Enter
  <1>6. CASE BackupTarget \/ NothingToBackUp
    BY <1>6 DEF BackupTarget, NothingToBackUp, At
  <1>7. CASE Prepare
    BY <1>7 DEF Prepare, Past, Enter
  <1>8. CASE ApplyTarget \/ SkipUnchanged \/ ApplyFails
    BY <1>8 DEF ApplyTarget, SkipUnchanged, ApplyFails, At, Enter
  <1>9. CASE RemoveCreated \/ RecoverReplaced \/ RecoverUnchanged
    BY <1>9 DEF RemoveCreated, RecoverReplaced, RecoverUnchanged, PutBack, LeaveUnchanged, At
  <1>10. CASE MatchTarget
    BY <1>10, <1>i DEF MatchTarget, Drifted, At, Advance, Target, Goal, Entry
  <1>11. CASE DriftTarget
    BY <1>11, <1>i DEF DriftTarget, At, Advance, Target, Goal, Entry
  <1>12. CASE BeginUndo
    BY <1>12, <1>i DEF BeginUndo, Past, Enter, Target, Goal, Entry, IInv, Bounds
  <1>13. CASE UndoCreated
    <2>1. /\ i \in Target /\ Entry(i) = "created" /\ phase = "undo"
          /\ file' = [file EXCEPT ![i] = Absent] /\ i' = i - 1
      BY <1>13 DEF UndoCreated, At, Retreat
    <2>2. file'[i] = prior[i] /\ \A t \in Target : t # i => file'[t] = file[t]
      BY <1>i, <2>1, EntryCases
    <2> QED BY <1>13, <1>i, <2>1, <2>2 DEF UndoCreated, Target, Goal, Entry
  <1>14. CASE UndoReplaced
    <2>1. /\ i \in Target /\ Entry(i) = "replaced" /\ phase = "undo"
          /\ file' = [file EXCEPT ![i] = backup[job.root][i]] /\ i' = i - 1
      BY <1>14 DEF UndoReplaced, PutBack, At, Retreat
    <2>2. file'[i] = prior[i] /\ \A t \in Target : t # i => file'[t] = file[t]
      BY <1>i, <2>1
    <2> QED BY <1>14, <1>i, <2>1, <2>2 DEF UndoReplaced, PutBack, Target, Goal, Entry
  <1>15. CASE UndoUnchanged
    <2>1. /\ i \in Target /\ Entry(i) = "unchanged" /\ phase = "undo" /\ i' = i - 1
      BY <1>15 DEF UndoUnchanged, LeaveUnchanged, At, Retreat
    <2>2. prior[i] = Goal(i)
      BY <2>1, EntryCases
    <2> QED BY <1>15, <1>i, <2>1, <2>2 DEF UndoUnchanged, LeaveUnchanged, Target, Goal, Entry
  <1>16. ASSUME NEW t \in Target, NEW f \in EditTo, Edit(t, f) PROVE Undisturbed'
    BY <1>16 DEF Edit, Quiet
  <1>17. ASSUME NEW r \in Root, NEW t \in Target, NEW c \in TamperTo, Tamper(r, t, c)
         PROVE  Undisturbed'
    BY <1>17 DEF Tamper, Quiet
  <1>18. CASE UNCHANGED vars
    BY <1>18 DEF vars, Entry, Goal
  <1>19. QED
    BY <1>1, <1>2, <1>3, <1>4, <1>5, <1>6, <1>7, <1>8, <1>9, <1>10, <1>11, <1>12,
       <1>13, <1>14, <1>15, <1>16, <1>17, <1>18
       DEF Next, Command, Activate, Rollback, RefuseActivation, RefuseRollback,
           SealApplied, SealRecovered, SealRolledBack, Crash

(* What the endpoint is, artifact by artifact, in every phase.             *)
LEMMA EndpointKnown ==
  ASSUME IInv, Undisturbed
  PROVE  /\ phase = "preflight" /\ i \notin Target /\ refused = {} /\ ~used[job.root]
                => file = prior
         /\ phase = "backup" => file = prior
         /\ phase = "apply" => \A t \in Target : file[t] = IF t < i THEN Goal(t) ELSE prior[t]
         /\ phase \in {"recover", "undo"} => \A t \in Target :
                file[t] = IF t <= i THEN Goal(t) ELSE prior[t]
  <1>1. /\ i \in 0 .. N + 1 /\ N \in Nat \ {0}
        /\ file \in [Target -> File] /\ prior \in [Target -> Prior]
    BY SizeAssumption DEF IInv, TypeOK
  <1>2. Progress /\ Bounds
    BY DEF IInv
  <1>3. CASE phase = "preflight"
    BY <1>1, <1>2, <1>3 DEF Progress, Bounds, Clean, Undisturbed, Target
  <1>4. CASE phase = "backup"
    BY <1>1, <1>2, <1>4 DEF Progress, Clean, Undisturbed
  <1>5. CASE phase \in {"apply", "recover"}
    BY <1>1, <1>2, <1>5 DEF Progress, Clean, Undisturbed
  <1>6. CASE phase = "undo"
    BY <1>6 DEF Undisturbed
  <1>7. QED
    BY <1>3, <1>4, <1>5, <1>6

(* Outside of the phases that write, an onlooker is shown what there is.   *)
LEMMA ShownPlainly ==
  ASSUME IInv, phase \in {"idle", "preflight", "backup", "check"}
  PROVE  ShownFile = file /\ ShownManifest = manifest
  <1>1. file \in [Target -> File] /\ manifest \in [Root -> Manifest \cup {NoManifest}]
    BY DEF IInv, TypeOK
  <1>2. QED
    BY <1>1 DEF ShownFile, ShownManifest

LEMMA ShownWriting ==
  ASSUME IInv, phase \in {"apply", "recover"}
  PROVE  /\ ShownFile = prior
         /\ ShownManifest = [manifest EXCEPT ![job.root] = NoManifest]
  <1>1. /\ prior \in [Target -> Prior] /\ manifest \in [Root -> Manifest \cup {NoManifest}]
    BY DEF IInv, TypeOK
  <1>2. QED
    BY <1>1 DEF ShownFile, ShownManifest

LEMMA ShownUndoing ==
  ASSUME IInv, phase = "undo"
  PROVE  /\ ShownFile = Desired[job.version]
         /\ ShownManifest = manifest
  <1>1. /\ manifest \in [Root -> Manifest \cup {NoManifest}]
        /\ Desired[job.version] \in [Target -> Content]
    BY DesiredAssumption DEF IInv, TypeOK, OnDisk, Job
  <1>2. QED
    BY <1>1 DEF ShownFile, ShownManifest, Goal

LEMMA StepImplements ==
  ASSUME ~EditsRace, IInv, Undisturbed, IInv', Undisturbed', [Next]_vars
  PROVE  [Abstract!Next]_(Abstract!vars)
  <1> DEFINE Shown == UNCHANGED <<ShownFile, ShownManifest>>
  <1>i. /\ i \in 0 .. N + 1 /\ N \in Nat \ {0}
        /\ file \in [Target -> File]
        /\ prior \in [Target -> Prior]
        /\ manifest \in [Root -> Manifest \cup {NoManifest}]
    BY SizeAssumption DEF IInv, TypeOK
  <1>j. phase # "idle" => /\ job.root \in Root /\ job.version \in Version
                          /\ Desired[job.version] \in [Target -> Content]
    BY DesiredAssumption DEF IInv, OnDisk, Job
  <1>k. Bounds /\ OnDisk
    BY DEF IInv
  <1>p. phase' \in {"idle", "preflight", "backup", "check"}
            => ShownFile' = file' /\ ShownManifest' = manifest'
    BY DEF IInv, TypeOK, ShownFile, ShownManifest
  <1>w. phase' \in {"apply", "recover"}
            => /\ ShownFile' = prior'
               /\ ShownManifest' = [manifest' EXCEPT ![job'.root] = NoManifest]
    BY DEF IInv, TypeOK, ShownFile, ShownManifest
  <1>u. phase' = "undo" /\ job' = job /\ phase # "idle"
            => ShownFile' = Desired[job.version] /\ ShownManifest' = manifest'
    BY <1>j DEF IInv, TypeOK, ShownFile, ShownManifest, Goal
  <1>s. Shown => [Abstract!Next]_(Abstract!vars)
    BY DEF Abstract!vars
  <1> HIDE DEF Shown
  <1> USE DEF disk, local
  (* The phases that write nothing.                                        *)
  <1>1. ASSUME /\ phase \in {"idle", "preflight", "backup", "check"}
               /\ phase' \in {"idle", "preflight", "backup", "check"}
               /\ UNCHANGED <<file, manifest>>
        PROVE  Shown
    BY <1>1, ShownPlainly, <1>p DEF Shown
  <1>2. ASSUME NEW r \in Root, NEW v \in Version, NEW m \in BOOLEAN,
               BeginActivate(r, v, m)
        PROVE  Shown
    BY <1>1, <1>2 DEF BeginActivate, Enter
  <1>3. ASSUME NEW r \in Root, BeginRollback(r) PROVE Shown
    BY <1>1, <1>3 DEF BeginRollback, Enter
  <1>4. CASE \/ AdmitTarget \/ RefuseTarget \/ RefuseActivation \/ OpenBackupRoot
             \/ BackupTarget \/ NothingToBackUp \/ MatchTarget \/ DriftTarget
             \/ RefuseRollback
    BY <1>1, <1>4, <1>s
       DEF AdmitTarget, RefuseTarget, RefuseActivation, OpenBackupRoot, BackupTarget,
           NothingToBackUp, MatchTarget, DriftTarget, RefuseRollback, At, Past, Enter, Exit
  (* The writing of an activation.                                         *)
  <1>5. CASE Prepare
    <2>1. /\ phase = "backup" /\ phase' = "apply" /\ file' = file /\ prior' = prior
          /\ job' = job /\ manifest' = [manifest EXCEPT ![job.root] = manifest'[job.root]]
          /\ manifest[job.root] = NoManifest
      BY <1>5, <1>i, <1>j, <1>k DEF Prepare, Past, Enter, SealManifest, WriteManifest, OnDisk
    <2>2. ShownFile' = prior /\ ShownManifest' = [manifest' EXCEPT ![job.root] = NoManifest]
      BY <2>1, <1>w
    <2>3. file = prior
      BY <2>1, EndpointKnown
    <2>4. [manifest' EXCEPT ![job.root] = NoManifest] = manifest
      BY <1>i, <1>j, <2>1
    <2> QED BY <1>s, <2>1, <2>2, <2>3, <2>4, ShownPlainly DEF Shown
  <1>6. ASSUME phase \in {"apply", "recover"}, phase' \in {"apply", "recover"},
               UNCHANGED <<job, prior, manifest>>
        PROVE  Shown
    BY <1>6, ShownWriting, <1>w DEF Shown
  <1>7. CASE \/ ApplyTarget \/ SkipUnchanged \/ ApplyFails
             \/ RemoveCreated \/ RecoverReplaced \/ RecoverUnchanged
    BY <1>6, <1>7, <1>s
       DEF ApplyTarget, SkipUnchanged, ApplyFails, RemoveCreated, RecoverReplaced,
           RecoverUnchanged, PutBack, LeaveUnchanged, At, Enter
  <1>8. ASSUME phase \in {"apply", "recover"}
        PROVE  /\ Abstract!MayInstall(job.root)
               /\ \A s \in Status :
                     manifest' = [manifest EXCEPT ![job.root] =
                         [status |-> s, version |-> job.version, prior |-> prior]]
                     /\ ShownManifest' = manifest'
                     => ShownManifest' = [ShownManifest EXCEPT ![job.root] =
                                             Abstract!Found(s, job.version)]
    <2>1. /\ ShownFile = prior
          /\ ShownManifest = [manifest EXCEPT ![job.root] = NoManifest]
      BY <1>8, ShownWriting
    <2>2. Abstract!MayInstall(job.root)
      BY <1>8, <1>i, <1>j, <2>1, MarkAssumption
         DEF Abstract!MayInstall, Abstract!Target, Prior, Target
    <2> QED BY <1>8, <1>i, <1>j, <2>1, <2>2 DEF Abstract!Found
  <1>9. CASE SealApplied
    <2>1. /\ phase = "apply" /\ phase' = "idle" /\ file' = file
          /\ manifest' = [manifest EXCEPT ![job.root] =
                 [status |-> "applied", version |-> job.version, prior |-> prior]]
      BY <1>9 DEF SealApplied, Past, Exit, SealManifest, WriteManifest
    <2>2. ShownFile' = file /\ ShownManifest' = manifest'
      BY <2>1, <1>p
    <2>3. file = Desired[job.version]
      BY <1>9, <1>i, <1>j, <1>k, <2>1, EndpointKnown
         DEF SealApplied, Past, Bounds, Target, Goal
    <2>4. Abstract!Install(job.root, job.version)
      BY <1>8, <2>1, <2>2, <2>3 DEF Abstract!Install, Status
    <2> QED BY <1>j, <2>1, <2>4 DEF Abstract!Next
  <1>10. CASE SealRecovered
    <2>1. /\ phase = "recover" /\ phase' = "idle" /\ file' = file
          /\ manifest' = [manifest EXCEPT ![job.root] =
                 [status |-> "rolled_back", version |-> job.version, prior |-> prior]]
      BY <1>10 DEF SealRecovered, Past, Exit, SealManifest, WriteManifest
    <2>2. ShownFile' = file /\ ShownManifest' = manifest'
      BY <2>1, <1>p
    <2>3. file = prior
      BY <1>10, <1>i, <1>k, <2>1, EndpointKnown DEF SealRecovered, Past, Bounds, Target
    <2>4. Abstract!InstallFails(job.root, job.version)
      BY <1>8, <2>1, <2>2, <2>3, ShownWriting DEF Abstract!InstallFails, Status
    <2> QED BY <1>j, <2>1, <2>4 DEF Abstract!Next
  (* The writing of a rollback.                                            *)
  <1>11. CASE BeginUndo
    <2>1. /\ phase = "check" /\ phase' = "undo" /\ UNCHANGED <<file, manifest, job>>
      BY <1>11 DEF BeginUndo, Past, Enter
    <2>2. file = Desired[job.version]
      BY <1>11, <1>i, <1>j, <1>k, <2>1
         DEF BeginUndo, Past, Undisturbed, Bounds, Target, Goal
    <2> QED BY <1>s, <2>1, <2>2, ShownPlainly, <1>u DEF Shown
  <1>12. CASE UndoCreated \/ UndoReplaced \/ UndoUnchanged
    <2>1. phase = "undo" /\ phase' = "undo" /\ UNCHANGED <<manifest, job>>
      BY <1>12 DEF UndoCreated, UndoReplaced, UndoUnchanged, PutBack, LeaveUnchanged, At
    <2> QED BY <1>s, <2>1, ShownUndoing, <1>u DEF Shown
  <1>13. ASSUME phase = "undo"
         PROVE  /\ Abstract!MayRestore(job.root)
                /\ ShownManifest[job.root] =
                       [status |-> "applied", version |-> job.version, prior |-> prior]
    <2>1. ShownFile = Desired[job.version] /\ ShownManifest = manifest
      BY <1>13, ShownUndoing
    <2>2. manifest[job.root] =
              [status |-> "applied", version |-> job.version, prior |-> prior]
      BY <1>13, <1>k DEF OnDisk
    <2>3. manifest[job.root] # NoManifest
      BY <1>13, ManifestPresent
    <2> QED BY <2>1, <2>2, <2>3 DEF Abstract!MayRestore
  <1>14. CASE SealRolledBack
    <2>1. /\ phase = "undo" /\ phase' = "idle" /\ file' = file
          /\ manifest' = [manifest EXCEPT ![job.root] =
                 [status |-> "rolled_back", version |-> job.version, prior |-> prior]]
      BY <1>14 DEF SealRolledBack, Past, Exit, SealManifest, WriteManifest
    <2>2. ShownFile' = file /\ ShownManifest' = manifest'
      BY <2>1, <1>p
    <2>3. file = prior
      BY <1>14, <1>i, <1>k, <2>1, EndpointKnown DEF SealRolledBack, Past, Bounds, Target
    <2>4. ShownManifest = manifest
      BY <2>1, ShownUndoing
    <2>5. manifest' = [manifest EXCEPT ![job.root].status = "rolled_back"]
      <3> DEFINE m == manifest[job.root]
      <3>1. m = [status |-> "applied", version |-> job.version, prior |-> prior]
        BY <1>13, <2>1, <2>4
      <3>2. [m EXCEPT !.status = "rolled_back"] =
                [status |-> "rolled_back", version |-> job.version, prior |-> prior]
        BY <3>1
      <3>3. [manifest EXCEPT ![job.root].status = "rolled_back"] =
                [manifest EXCEPT ![job.root] = [m EXCEPT !.status = "rolled_back"]]
        OBVIOUS
      <3> HIDE DEF m
      <3> QED BY <2>1, <3>2, <3>3
    <2>6. Abstract!Restore(job.root)
      <3>1. Abstract!MayRestore(job.root)
        BY <1>13, <2>1
      <3>2. ShownFile' = ShownManifest[job.root].prior
        BY <1>13, <2>1, <2>2, <2>3
      <3> QED BY <2>2, <2>4, <2>5, <3>1, <3>2 DEF Abstract!Restore
    <2> QED BY <1>j, <2>1, <2>6 DEF Abstract!Next
  (* The world around a command.                                           *)
  <1>15. CASE Crash
    <2>1. phase # "idle" /\ phase' = "idle" /\ UNCHANGED <<file, manifest>>
      BY <1>15 DEF Crash, Exit
    <2>2. ShownFile' = file /\ ShownManifest' = manifest
      BY <2>1, <1>p
    <2>3. CASE phase \in {"preflight", "backup", "check"}
      BY <1>1, <1>s, <2>1, <2>3
    <2>4. CASE phase \in {"apply", "recover"}
      <3>1. ShownFile = prior
        BY <2>4, ShownWriting
      <3>2. \A t \in Target : file[t] \in {prior[t], Desired[job.version][t]}
        BY <2>4, EndpointKnown DEF Goal
      <3>3. file \in Abstract!Mixture(ShownFile, Desired[job.version])
        BY <1>i, <3>1, <3>2 DEF Abstract!Mixture, Abstract!Target, Target,
                                Abstract!File, File
      <3>4. manifest[job.root] =
                [status |-> "prepared", version |-> job.version, prior |-> prior]
        BY <2>4, <1>k DEF OnDisk
      <3>5. manifest = [[manifest EXCEPT ![job.root] = NoManifest] EXCEPT ![job.root] =
                            Abstract!Found("prepared", job.version)]
        BY <1>i, <1>j, <2>1, <3>1, <3>4 DEF Abstract!Found
      <3>6. Abstract!InstallDies(job.root, job.version)
        BY <1>8, <2>1, <2>2, <2>4, <3>3, <3>5, ShownWriting DEF Abstract!InstallDies
      <3> QED BY <1>j, <2>1, <3>6 DEF Abstract!Next
    <2>5. CASE phase = "undo"
      <3>1. ShownFile = Desired[job.version] /\ ShownManifest = manifest
        BY <2>5, ShownUndoing
      <3>2. \A t \in Target : file[t] \in {prior[t], Desired[job.version][t]}
        BY <2>5, EndpointKnown DEF Goal
      <3>3. file \in Abstract!Mixture(ShownFile, prior)
        BY <1>i, <3>1, <3>2 DEF Abstract!Mixture, Abstract!Target, Target,
                                Abstract!File, File
      <3>4. Abstract!RestoreDies(job.root)
        BY <1>13, <2>1, <2>2, <2>5, <3>1, <3>3 DEF Abstract!RestoreDies
      <3> QED BY <1>j, <2>1, <3>4 DEF Abstract!Next
    <2>6. phase \in Phase
      BY DEF IInv, TypeOK
    <2> QED BY <2>1, <2>3, <2>4, <2>5, <2>6 DEF Phase
  <1>16. ASSUME NEW t \in Target, NEW f \in EditTo, Edit(t, f)
         PROVE  [Abstract!Next]_(Abstract!vars)
    <2>1. /\ phase = "idle" /\ phase' = "idle" /\ manifest' = manifest
          /\ file' = [file EXCEPT ![t] = f]
      BY <1>16 DEF Edit, Quiet
    <2>2. Abstract!Edit(t, f)
      BY <2>1, ShownPlainly, <1>p DEF Abstract!Edit
    <2>3. t \in Abstract!Target /\ f \in Abstract!File
      BY OthersAssumption DEF Abstract!Target, Target, Abstract!File, File
    <2> QED BY <2>2, <2>3 DEF Abstract!Next
  <1>17. ASSUME NEW r \in Root, NEW t \in Target, NEW c \in TamperTo, Tamper(r, t, c)
         PROVE  Shown
    BY <1>1, <1>17 DEF Tamper, Quiet
  <1>18. CASE UNCHANGED vars
    BY <1>s, <1>18 DEF vars, Shown, ShownFile, ShownManifest, Goal
  <1>19. QED
    BY <1>s, <1>2, <1>3, <1>4, <1>5, <1>7, <1>9, <1>10, <1>11, <1>12, <1>14, <1>15,
       <1>16, <1>17, <1>18 DEF Next, Command, Activate, Rollback

(* With nobody else at work during a command, and however often it is      *)
(* killed, the two commands implement EndpointTransaction: an activation   *)
(* installs all or nothing, a rollback brings back every file.             *)
THEOREM CommandsImplementTransaction == ~EditsRace => (Spec => ImplementsTransaction)
  <1> SUFFICES ASSUME ~EditsRace PROVE Spec => ImplementsTransaction
    OBVIOUS
  <1>1. Init => Abstract!Init
    BY DEF Init, ShownFile, ShownManifest, Abstract!Init, Abstract!Target, Target,
           Abstract!File, File
  <1>2. Init => Undisturbed
    BY DEF Init, Undisturbed
  <1>3. IInv /\ Undisturbed /\ [Next]_vars => Undisturbed'
    BY UndisturbedStep
  <1>4. IInv /\ Undisturbed /\ IInv' /\ Undisturbed' /\ [Next]_vars
        => [Abstract!Next]_(Abstract!vars)
    BY StepImplements
  <1>5. QED
    BY <1>1, <1>2, <1>3, <1>4, Inductive, PTL
       DEF Spec, ImplementsTransaction, Abstract!Spec

-----------------------------------------------------------------------------
(* A manifest never turns back                                             *)

Turns == {<<"prepared", "applied">>, <<"prepared", "rolled_back">>,
          <<"applied", "rolled_back">>}

(* However often others interfere and processes die, the manifest of a     *)
(* root is that of one activation: its version and its entries never       *)
(* change, and its status goes from prepared to applied or rolled back,    *)
(* and from applied to rolled back, and no other way.                      *)
THEOREM ManifestsAreOneWay ==
  Spec => [][\A r \in Root :
               manifest[r] # NoManifest /\ manifest'[r] # manifest[r] =>
                 /\ manifest'[r] # NoManifest
                 /\ manifest'[r].version = manifest[r].version
                 /\ manifest'[r].prior = manifest[r].prior
                 /\ <<manifest[r].status, manifest'[r].status>> \in Turns]_vars
  <1> DEFINE Turned(r) ==
               /\ manifest'[r] # NoManifest
               /\ manifest'[r].version = manifest[r].version
               /\ manifest'[r].prior = manifest[r].prior
               /\ <<manifest[r].status, manifest'[r].status>> \in Turns
             OneWay ==
               \A r \in Root :
                 manifest[r] # NoManifest /\ manifest'[r] # manifest[r] => Turned(r)
  <1>1. IInv /\ [Next]_vars => [OneWay]_vars
    <2> SUFFICES ASSUME IInv, [Next]_vars PROVE OneWay
      OBVIOUS
    <2>1. CASE UNCHANGED manifest
      BY <2>1
    <2>2. CASE Prepare
      <3>1. manifest[job.root] = NoManifest
        BY <2>2 DEF Prepare, Past, IInv, OnDisk
      <3>2. \A r \in Root : r # job.root => manifest'[r] = manifest[r]
        BY <2>2 DEF Prepare, SealManifest, WriteManifest, IInv, TypeOK
      <3> QED BY <3>1, <3>2
    <2>3. CASE SealApplied \/ SealRecovered \/ SealRolledBack
      <3>1. PICK s \in {"applied", "rolled_back"} :
               /\ SealManifest(s)
               /\ phase \in {"apply", "recover", "undo"}
               /\ phase = "undo" => s = "rolled_back"
        BY <2>3 DEF SealApplied, SealRecovered, SealRolledBack, Past
      <3>2. /\ job \in Job /\ job.root \in Root
            /\ prior \in [Target -> Prior]
            /\ manifest \in [Root -> Manifest \cup {NoManifest}]
        BY <3>1 DEF IInv, TypeOK, OnDisk, Job
      <3>3. PICK old \in {"prepared", "applied"} :
               /\ manifest[job.root] = [status |-> old, version |-> job.version,
                                        prior |-> prior]
               /\ <<old, s>> \in Turns
        BY <3>1 DEF IInv, OnDisk, Turns
      <3>4. manifest' = [manifest EXCEPT ![job.root] =
               [status |-> s, version |-> job.version, prior |-> prior]]
        BY <3>1 DEF SealManifest, WriteManifest
      <3>5. [status |-> s, version |-> job.version, prior |-> prior] # NoManifest
        <4>1. [status |-> s, version |-> job.version, prior |-> prior] \in Manifest
          BY <3>1, <3>2 DEF Manifest, Job, Status
        <4> QED BY <4>1, MarkAssumption
      <3>6. Turned(job.root)
        BY <3>2, <3>3, <3>4, <3>5
      <3>7. \A r \in Root : r # job.root => manifest'[r] = manifest[r]
        BY <3>2, <3>4
      <3> HIDE DEF Turned
      <3> QED BY <3>6, <3>7
    <2>4. QED
      BY <2>1, <2>2, <2>3
         DEF Next, Command, Activate, Rollback, BeginActivate, BeginRollback,
             AdmitTarget, RefuseTarget, RefuseActivation, OpenBackupRoot,
             BackupTarget, NothingToBackUp, ApplyTarget, SkipUnchanged,
             ApplyFails, RemoveCreated, RecoverReplaced, RecoverUnchanged,
             MatchTarget, DriftTarget, RefuseRollback, BeginUndo, UndoCreated,
             UndoReplaced, UndoUnchanged, PutBack, LeaveUnchanged, Crash,
             Edit, Tamper, vars, disk, local
  <1>2. QED
    BY <1>1, Inductive, PTL DEF Spec

-----------------------------------------------------------------------------
(* Every command ends                                                      *)

(* The longest way a command has still to go: an activation whose last     *)
(* write fails passes preflight, backup and apply, and undoes all but one  *)
(* of its N artifacts.                                                     *)
StepsLeft ==
    IF phase = "preflight" THEN 4 * N + 3 - i
    ELSE IF phase = "backup" THEN 3 * N + 2 - i
    ELSE IF phase = "apply" THEN 2 * N + 1 - i
    ELSE IF phase = "check" THEN 2 * N + 3 - i
    ELSE IF phase \in {"recover", "undo"} THEN i + 1
    ELSE 0

(* Where a step of a command leads.                                        *)
LEMMA CommandMoves ==
  ASSUME Command
  PROVE  \/ /\ phase' = phase /\ At(phase) /\ Advance
            /\ phase \in {"preflight", "backup", "apply", "check"}
         \/ phase' = phase /\ At(phase) /\ Retreat /\ phase \in {"recover", "undo"}
         \/ Past("preflight") /\ Enter("backup", 1)
         \/ Past("backup") /\ Enter("apply", 1)
         \/ At("apply") /\ Enter("recover", i - 1)
         \/ Past("check") /\ Enter("undo", N)
         \/ phase \in Phase \ {"idle"} /\ Exit
  BY DEF Command, Activate, Rollback, AdmitTarget, RefuseTarget, RefuseActivation,
         OpenBackupRoot, BackupTarget, NothingToBackUp, Prepare, ApplyTarget,
         SkipUnchanged, ApplyFails, SealApplied, RemoveCreated, RecoverReplaced,
         RecoverUnchanged, SealRecovered, MatchTarget, DriftTarget, RefuseRollback,
         BeginUndo, UndoCreated, UndoReplaced, UndoUnchanged, SealRolledBack,
         PutBack, LeaveUnchanged, At, Past, Phase

LEMMA StepsLeftBounded ==
  ASSUME IInv
  PROVE  /\ StepsLeft \in 0 .. 4 * N + 2
         /\ phase # "idle" => StepsLeft > 0
  <1>1. /\ i \in 0 .. N + 1 /\ N \in Nat /\ N > 0
        /\ phase \in {"preflight", "backup", "apply", "check"} => i # 0
        /\ phase \in Phase
    BY SizeAssumption DEF IInv, TypeOK, Bounds
  <1>2. QED
    BY <1>1 DEF StepsLeft, Phase

LEMMA CommandLowers ==
  ASSUME IInv, Command \/ Crash PROVE StepsLeft' < StepsLeft
  <1>1. /\ i \in 0 .. N + 1 /\ N \in Nat /\ N > 0
        /\ phase \in {"preflight", "backup", "apply", "check"} => i # 0
        /\ phase \in Phase
    BY SizeAssumption DEF IInv, TypeOK, Bounds
  <1>2. CASE phase # "idle" /\ Exit
    <2>1. StepsLeft' = 0 /\ StepsLeft > 0
      BY <1>2, StepsLeftBounded, SizeAssumption DEF Exit, StepsLeft
    <2> QED BY <2>1
  <1>3. CASE phase' = phase /\ Advance /\ phase \in {"preflight", "backup", "apply", "check"}
    BY <1>1, <1>3 DEF Advance, StepsLeft
  <1>4. CASE phase' = phase /\ Retreat /\ phase \in {"recover", "undo"}
    BY <1>1, <1>4 DEF Retreat, StepsLeft
  <1>5. CASE Past("preflight") /\ Enter("backup", 1)
    BY <1>1, <1>5 DEF Past, Target, Enter, StepsLeft
  <1>6. CASE Past("backup") /\ Enter("apply", 1)
    BY <1>1, <1>6 DEF Past, Target, Enter, StepsLeft
  <1>7. CASE At("apply") /\ Enter("recover", i - 1)
    BY <1>1, <1>7 DEF At, Target, Enter, StepsLeft
  <1>8. CASE Past("check") /\ Enter("undo", N)
    BY <1>1, <1>8 DEF Past, Target, Enter, StepsLeft
  <1>9. CASE Crash
    BY <1>2, <1>9 DEF Crash
  <1>10. CASE Command
    BY <1>2, <1>3, <1>4, <1>5, <1>6, <1>7, <1>8, <1>10, CommandMoves DEF Phase
  <1> QED BY <1>9, <1>10

(* A command on N artifacts has at most 4N + 2 steps, whatever others do   *)
(* to files and backups meanwhile: each of its steps and a crash lower a   *)
(* number that nobody else's step changes before it has ended.             *)
THEOREM CommandsEnd ==
  Spec => /\ [](StepsLeft \in 0 .. 4 * N + 2)
          /\ [][/\ Command \/ Crash => StepsLeft' < StepsLeft
                /\ ~(Command \/ Crash) /\ phase # "idle" => StepsLeft' = StepsLeft]_vars
  <1>1. IInv => StepsLeft \in 0 .. 4 * N + 2
    BY StepsLeftBounded
  <1>2. IInv /\ [Next]_vars =>
          [/\ Command \/ Crash => StepsLeft' < StepsLeft
           /\ ~(Command \/ Crash) /\ phase # "idle" => StepsLeft' = StepsLeft]_vars
    <2>1. ASSUME [Next]_vars, ~(Command \/ Crash), phase # "idle"
          PROVE  UNCHANGED <<phase, i>>
      BY <2>1 DEF Next, BeginActivate, BeginRollback, Edit, Tamper, vars, local
    <2>2. ASSUME UNCHANGED <<phase, i>> PROVE StepsLeft' = StepsLeft
      BY <2>2 DEF StepsLeft
    <2> QED BY <2>1, <2>2, CommandLowers
  <1>3. QED
    BY <1>1, <1>2, Inductive, PTL DEF Spec

-----------------------------------------------------------------------------
(* A command that is left alone settles what it prepared                   *)

LEMMA UndisturbedHolds == ~EditsRace => (Spec => []Undisturbed)
  <1> SUFFICES ASSUME ~EditsRace PROVE Spec => []Undisturbed
    OBVIOUS
  <1>1. Init => Undisturbed
    BY DEF Init, Undisturbed
  <1>2. IInv /\ Undisturbed /\ [Next]_vars => Undisturbed'
    BY UndisturbedStep
  <1>3. QED
    BY <1>1, <1>2, Inductive, PTL DEF Spec

(* Nothing a command reads or unlinks is missing.                          *)
LEMMA NeverBlocked ==
  ASSUME IInv, Undisturbed PROVE ~Blocked
  <1>1. /\ prior \in [Target -> Prior]
        /\ Absent \notin Content /\ Unsafe \notin Content /\ Absent # Unsafe
    BY MarkAssumption DEF IInv, TypeOK
  <1>2. ASSUME NEW t, Entry(t) = "replaced" PROVE prior[t] # Absent
    BY <1>2 DEF Entry, Action
  <1>3. ASSUME At("backup"), Entry(i) = "replaced" PROVE Reads(file[i]) # {}
    <2>1. file[i] = prior[i] /\ prior[i] \in Content
      BY <1>1, <1>2, <1>3, EndpointKnown DEF At, Prior
    <2> QED BY <1>1, <2>1 DEF Reads
  <1>4. ASSUME At("undo"), Entry(i) = "created" PROVE file[i] \notin {Absent, Unsafe}
    <2>1. i \in Target /\ i \in Nat
      BY <1>4, SizeAssumption DEF At, Target
    <2>2. file[i] = Goal(i)
      BY <1>4, <2>1, EndpointKnown DEF At
    <2>3. Goal(i) \in Content
      BY <1>4, <2>1, GoalTyped DEF At, IInv, OnDisk, Typed
    <2> QED BY <1>1, <2>2, <2>3
  <1>5. ASSUME At("recover") \/ At("undo"), Entry(i) = "replaced"
        PROVE  backup[job.root][i] # Absent
    <2>1. Saved(i)
      <3>1. CASE At("recover")
        BY <3>1, AllSaved DEF At, Undisturbed, Clean
      <3>2. CASE At("undo")
        BY <3>2 DEF At, Undisturbed
      <3> QED BY <1>5, <3>1, <3>2
    <2> QED BY <1>2, <1>5, <2>1 DEF Saved
  <1> QED BY <1>3, <1>4, <1>5 DEF Blocked

(* With nobody else at work during a command and no kill, a manifest says  *)
(* prepared only while the activation that wrote it is still applying or   *)
(* recovering: no sequence of commands, refusals, failed writes and edits  *)
(* between commands leaves a root half done.                               *)
THEOREM SettledAtRest ==
  ~EditsRace /\ ~MayCrash =>
    (Spec => [](\A r \in Root :
                  manifest[r] # NoManifest /\ manifest[r].status = "prepared" =>
                    phase \in {"apply", "recover"} /\ job.root = r))
  <1> DEFINE Settled ==
        \A r \in Root :
           manifest[r] # NoManifest /\ manifest[r].status = "prepared" =>
              phase \in {"apply", "recover"} /\ job.root = r
  <1> SUFFICES ASSUME ~EditsRace, ~MayCrash PROVE Spec => []Settled
    OBVIOUS
  <1>1. Init => Settled
    BY DEF Init
  <1>2. IInv /\ Undisturbed /\ Settled /\ [Next]_vars => Settled'
    <2> SUFFICES ASSUME IInv, Undisturbed, Settled, [Next]_vars PROVE Settled'
      OBVIOUS
    <2>1. CASE Prepare
      <3>1. /\ phase' = "apply" /\ job' = job
            /\ \A r \in Root : r # job.root => manifest'[r] = manifest[r]
            /\ phase = "backup"
        BY <2>1 DEF Prepare, Past, Enter, SealManifest, WriteManifest, IInv, TypeOK
      <3> QED BY <3>1
    <2>2. CASE SealApplied \/ SealRecovered \/ SealRolledBack
      <3>1. PICK s \in {"applied", "rolled_back"} : SealManifest(s) /\ phase # "idle"
        BY <2>2 DEF SealApplied, SealRecovered, SealRolledBack, Past
      <3>2. /\ job.root \in Root
            /\ manifest \in [Root -> Manifest \cup {NoManifest}]
        BY <3>1 DEF IInv, TypeOK, OnDisk, Job
      <3>3. ASSUME NEW r \in Root, manifest'[r] # NoManifest, manifest'[r].status = "prepared"
            PROVE  r # job.root /\ manifest'[r] = manifest[r]
        BY <3>1, <3>2, <3>3 DEF SealManifest, WriteManifest
      <3> QED BY <3>3
    <2>3. CASE phase \notin {"apply", "recover"} /\ UNCHANGED manifest
      BY <2>3
    <2>4. CASE UNCHANGED <<manifest, job>> /\ phase' \in {"apply", "recover"}
      BY <2>4
    <2>5. ~Crash
      BY NeverBlocked DEF Crash
    <2>6. CASE UNCHANGED <<manifest, job, phase>>
      BY <2>6
    <2>7. QED
      BY <2>1, <2>2, <2>3, <2>4, <2>5, <2>6
         DEF Next, Command, Activate, Rollback, BeginActivate, BeginRollback,
             AdmitTarget, RefuseTarget, RefuseActivation, OpenBackupRoot,
             BackupTarget, NothingToBackUp, ApplyTarget, SkipUnchanged,
             ApplyFails, RemoveCreated, RecoverReplaced, RecoverUnchanged,
             MatchTarget, DriftTarget, RefuseRollback, BeginUndo, UndoCreated,
             UndoReplaced, UndoUnchanged, PutBack, LeaveUnchanged, At, Past, Enter,
             Edit, Tamper, vars, disk, local
  <1> HIDE DEF Settled
  <1>3. Spec => []Settled
    BY <1>1, <1>2, Inductive, UndisturbedHolds, PTL DEF Spec
  <1> QED BY <1>3

=============================================================================
