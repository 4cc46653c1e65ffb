------------------------------- MODULE OneShot -------------------------------
(***************************************************************************)
(* What the rollback resources promise                                     *)
(* (src/internal/provider/vm_snapshot_rollback_resource.go:30-39, 52-61):  *)
(* an action that is asked for by changing a trigger, is carried out       *)
(* before it is recorded as done, and is not carried out while it is       *)
(* recorded as done.  It is the only thing that takes the guest's data     *)
(* back.  An answer may be lost: then the action may be carried out again. *)
(***************************************************************************)
EXTENDS Naturals

VARIABLES asked,    \* the trigger in the configuration
          done,     \* the trigger recorded as carried out, 0: none
          fired,    \* times the action was carried out since it was asked for
          data,     \* the version of the guest's data
          written   \* the newest version the guest has written

vars == <<asked, done, fired, data, written>>

Init == asked = 1 /\ done = 0 /\ fired = 0 /\ data = 0 /\ written = 0

Ask ==
  /\ asked' = asked + 1
  /\ fired' = 0
  /\ UNCHANGED <<done, data, written>>

\* The action takes the data back to a version there was.
Fire ==
  /\ done # asked
  /\ fired' = fired + 1
  /\ data' \in 0 .. written
  /\ done' \in {done, 0, asked}
  /\ UNCHANGED <<asked, written>>

\* The record of an earlier action is dropped before the action is repeated.
Drop ==
  /\ done # asked
  /\ done' = 0
  /\ UNCHANGED <<asked, fired, data, written>>

Write ==
  /\ written' = written + 1
  /\ data' = written'
  /\ UNCHANGED <<asked, done, fired>>

Next == Ask \/ Fire \/ Drop \/ Write

Spec == Init /\ [][Next]_vars
==============================================================================
