------------------------------ MODULE Enrolment -----------------------------
(***************************************************************************)
(* What registration promises about an email address, whatever the order   *)
(* in which requests run, fail and are repeated: an account comes into     *)
(* being only after a code was mailed to its address, once, and stays.     *)
(***************************************************************************)
CONSTANT Emails

VARIABLE stage   \* stage[e]: how far the address e has come

Stages == {"unknown", "written", "member"}

Init == stage \in [Emails -> {"unknown", "member"}]

Write(e) == stage[e] = "unknown" /\ stage' = [stage EXCEPT ![e] = "written"]

Join(e) == stage[e] = "written" /\ stage' = [stage EXCEPT ![e] = "member"]

Next == \E e \in Emails : Write(e) \/ Join(e)

Spec == Init /\ [][Next]_stage
=============================================================================
