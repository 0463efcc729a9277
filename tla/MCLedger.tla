------------------------------ MODULE MCLedger ------------------------------
(* Small instances of Ledger for TLC. *)
EXTENDS Ledger, TLC

CONSTANTS r1, r2, k1, k2, vip, free

TwoRequests == {r1, r2}
TwoKeys == {k1, k2}
OneKey == {k1}
TwoTiers == {vip, free}
Quotas == [t \in TwoTiers |-> IF t = free THEN 2 ELSE 5]
SmallOrLarge == {1, 3}
Interchangeable == Permutations(TwoRequests)

Nothing == [posts |-> 0, embeddings |-> 0, credits |-> 0, edits |-> 0, deletes |-> 0, asks |-> 0,
            days |-> 0, misses |-> 0, faults |-> 0]
Money == [Nothing EXCEPT !.posts = 2, !.credits = 1, !.deletes = 1, !.faults = 1]
Busy == [Nothing EXCEPT !.posts = 3, !.misses = 1]
Vectors == [Nothing EXCEPT !.posts = 3, !.embeddings = 2, !.deletes = 1]
Daily == [Nothing EXCEPT !.posts = 2, !.days = 1, !.credits = 1]
Table == [Nothing EXCEPT !.posts = 1, !.edits = 2, !.asks = 2, !.faults = 1]
Charts == [Nothing EXCEPT !.posts = 1, !.asks = 3, !.days = 1]
Plans == [Nothing EXCEPT !.posts = 1, !.credits = 2]
Profiles == {Plans, Money, Busy, Vectors, Daily, Table, Charts}
ResetProfile == {[Nothing EXCEPT !.posts = 2, !.days = 1]}
=============================================================================
