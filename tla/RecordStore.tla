----------------------------- MODULE RecordStore -----------------------------
(***************************************************************************)
(* What the writers of a record promise: its readers see one complete      *)
(* record after the other, and a record whose writer has returned survives *)
(* every crash.  A power failure may undo a write that has not returned.   *)
(***************************************************************************)
EXTENDS Naturals

CONSTANT Records   \* what may be written; 0 is the record there was first

VARIABLES
  record,   \* what a reader finds
  stable,   \* what is the least a crash leaves
  returned  \* the last record whose writer returned without an error

Init == record = 0 /\ stable = 0 /\ returned = 0

Publish == record' \in Records /\ record' > record /\ UNCHANGED <<stable, returned>>
Settle == stable' = record /\ UNCHANGED <<record, returned>>
Return == stable = record /\ returned' = record /\ UNCHANGED <<record, stable>>
PowerFails == record' \in stable..record /\ stable' = record' /\ UNCHANGED returned

Next == Publish \/ Settle \/ Return \/ PowerFails

vars == <<record, stable, returned>>
Spec == Init /\ [][Next]_vars
=============================================================================
