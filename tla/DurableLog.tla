------------------------------ MODULE DurableLog -------------------------------
(***************************************************************************)
(* What the event log promises: an event whose append returned is kept,    *)
(* and no kept event is ever taken out again, whatever happens to the      *)
(* process that writes.                                                    *)
(***************************************************************************)
CONSTANT Events

VARIABLES kept,       \* the events the segment files hold
          returned    \* the events whose append has returned

Init == kept = {} /\ returned = {}

Keep(e) ==
  /\ e \notin kept
  /\ kept' = kept \cup {e}
  /\ UNCHANGED returned

Return(e) ==
  /\ e \in kept \ returned
  /\ returned' = returned \cup {e}
  /\ UNCHANGED kept

Next == \E e \in Events : Keep(e) \/ Return(e)

Spec == Init /\ [][Next]_<<kept, returned>>
================================================================================
