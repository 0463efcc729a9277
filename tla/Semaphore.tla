------------------------------ MODULE Semaphore -----------------------------
(***************************************************************************)
(* What a limit on concurrent use promises, wherever the count is kept: a  *)
(* user who has no slot gets one of a place that has one free, and keeps   *)
(* it until he leaves.  Several leave at once when the process they run in *)
(* dies.  A count that goes wrong while nobody enters or leaves has slots  *)
(* to spare from then on.                                                  *)
(***************************************************************************)
EXTENDS Naturals, FiniteSets

CONSTANTS Users, Places, Capacity

VARIABLES
  inside,   \* inside[u]: the place of which u has a slot, as a set
  spare     \* spare[p]: slots of p beyond its capacity

Inside(p) == {u \in Users : p \in inside[u]}

Init ==
  /\ inside = [u \in Users |-> {}]
  /\ spare = [p \in Places |-> 0]

Enter(u, p) ==
  /\ inside[u] = {}
  /\ Cardinality(Inside(p)) < Capacity[p] + spare[p]
  /\ inside' = [inside EXCEPT ![u] = {p}]
  /\ UNCHANGED spare

Leave(U) ==
  /\ inside' = [u \in Users |-> IF u \in U THEN {} ELSE inside[u]]
  /\ UNCHANGED spare

Miscount ==
  /\ spare' \in [Places -> Nat]
  /\ \A p \in Places : Cardinality(Inside(p)) <= Capacity[p] + spare'[p]
  /\ UNCHANGED inside

Next ==
  \/ \E u \in Users, p \in Places : Enter(u, p)
  \/ \E U \in SUBSET Users : Leave(U)
  \/ Miscount

Spec == Init /\ [][Next]_<<inside, spare>>
=============================================================================
