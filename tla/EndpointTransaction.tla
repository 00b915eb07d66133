-------------------------- MODULE EndpointTransaction --------------------------
(***************************************************************************)
(* What activate-local and rollback-local promise an operator who runs     *)
(* them on an endpoint nobody else touches meanwhile: an activation or a   *)
(* rollback happens all at once or not at all, a rollback brings back      *)
(* exactly the endpoint its activation found, and only a process that dies *)
(* leaves a mixture, of files that are each old or new.                    *)
(***************************************************************************)
EXTENDS Naturals

CONSTANTS N, Root, Version, Content, Desired, Absent, Unsafe, Unused

Target == 1 .. N
File   == Content \cup {Absent, Unsafe}

VARIABLES
    state,   \* state[t]: the endpoint's file t
    ledger   \* ledger[r]: what the activation on root r is known to have done

vars == <<state, ledger>>

Init ==
    /\ state \in [Target -> File]
    /\ ledger = [r \in Root |-> Unused]

Found(status, v) == [status |-> status, version |-> v, prior |-> state]

(* Only a root without a manifest is accepted, and only regular files are. *)
MayInstall(r) ==
    /\ ledger[r] = Unused
    /\ \A t \in Target : state[t] # Unsafe

Install(r, v) ==
    /\ MayInstall(r)
    /\ state' = Desired[v]
    /\ ledger' = [ledger EXCEPT ![r] = Found("applied", v)]

(* A write failed and what had been installed is removed again.            *)
InstallFails(r, v) ==
    /\ MayInstall(r)
    /\ ledger' = [ledger EXCEPT ![r] = Found("rolled_back", v)]
    /\ UNCHANGED state

Mixture(one, other) ==
    {s \in [Target -> File] : \A t \in Target : s[t] \in {one[t], other[t]}}

InstallDies(r, v) ==
    /\ MayInstall(r)
    /\ state' \in Mixture(state, Desired[v])
    /\ ledger' = [ledger EXCEPT ![r] = Found("prepared", v)]

(* Everything the activation installed is still there.                     *)
MayRestore(r) ==
    /\ ledger[r] # Unused
    /\ ledger[r].status = "applied"
    /\ state = Desired[ledger[r].version]

Restore(r) ==
    /\ MayRestore(r)
    /\ state' = ledger[r].prior
    /\ ledger' = [ledger EXCEPT ![r].status = "rolled_back"]

RestoreDies(r) ==
    /\ MayRestore(r)
    /\ state' \in Mixture(state, ledger[r].prior)
    /\ UNCHANGED ledger

(* Somebody edits the endpoint between two commands.                       *)
Edit(t, f) ==
    /\ state' = [state EXCEPT ![t] = f]
    /\ UNCHANGED ledger

Next ==
    \/ \E r \in Root, v \in Version :
           Install(r, v) \/ InstallFails(r, v) \/ InstallDies(r, v)
    \/ \E r \in Root : Restore(r) \/ RestoreDies(r)
    \/ \E t \in Target, f \in File : Edit(t, f)

Spec == Init /\ [][Next]_vars

=============================================================================
