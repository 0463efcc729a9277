----------------------------- MODULE MCAccounts -----------------------------
(* A small instance of Accounts for TLC. *)
EXTENDS Accounts, TLC

CONSTANTS r1, r2, b1, root, new, Ann, ann, p1

TwoRequests == {r1, r2}
OneBrowser == {b1}
TwoEmails == {root, new}
TwoNames == {Ann, ann}
OnePassword == {p1}
LowerCase == [n \in TwoNames |-> ann]
Administrator == [name |-> Ann, pw |-> p1, role |-> "admin", active |-> TRUE]
Interchangeable == Permutations(TwoRequests)
OneToken == {[sub |-> root, role |-> "admin"]}
OneAccount == [e \in TwoEmails |-> IF e = root THEN Administrator ELSE None]
=============================================================================
