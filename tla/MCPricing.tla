----------------------------- MODULE MCPricing -----------------------------
(* Small instances of Pricing for TLC. *)
EXTENDS Pricing, TLC

CONSTANTS g1, g2, r1, r2

TwoGateways == {g1, g2}
TwoRequests == {r1, r2}

Nothing == [posts |-> 0, edits |-> 0, pools |-> 0, lists |-> 0, faults |-> 0]
Estimating == [Nothing EXCEPT !.posts = 1, !.pools = 1, !.faults = 1]
Racing == [Nothing EXCEPT !.posts = 2]
Catching == [Nothing EXCEPT !.posts = 1, !.edits = 1]
Saving == [Nothing EXCEPT !.edits = 2]
Listing == [Nothing EXCEPT !.edits = 1, !.lists = 1, !.faults = 1]
Profiles == {Estimating, Racing, Catching, Saving, Listing}
\* In halves of a cent: one that costs a half and is charged nothing, one of two cents.
SomePrices == {1, 4}
SomePools == {[mode |-> "per_token", token |-> 0, call |-> 0], [mode |-> "per_call", token |-> 4, call |-> 1]}
=============================================================================
