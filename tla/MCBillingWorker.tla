--------------------------- MODULE MCBillingWorker --------------------------
(* A small instance of BillingWorker for TLC. *)
EXTENDS BillingWorker

CONSTANTS t1, t2

Pairs == {<<"normal", "normal">>, <<"zero", "big">>}

TwoTasks == {t1, t2}
TwoKinds == {[t \in {t1, t2} |-> IF t = t1 THEN k[1] ELSE k[2]] : k \in Pairs}
=============================================================================
