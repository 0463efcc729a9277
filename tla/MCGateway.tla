----------------------------- MODULE MCGateway ------------------------------
(* A small instance of Gateway for TLC. *)
EXTENDS Gateway

CONSTANTS r1, r2, u1

TwoRequests == {r1, r2}
OneUser == {u1}
SameUser == [r \in TwoRequests |-> u1]
=============================================================================
