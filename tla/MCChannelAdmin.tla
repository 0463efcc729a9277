--------------------------- MODULE MCChannelAdmin ---------------------------
(* Small instances of ChannelAdmin for TLC. *)
EXTENDS ChannelAdmin, TLC

CONSTANTS c1, c2, p1, p2, m1, m2, j1, j2

TwoChannels == {c1, c2}
OneGemini == {c2}
TwoPools == {p1, p2}
TwoModels == {m1, m2}
TwoJobs == {j1, j2}
Imports == {<<m1, m1>>, <<m1, m2>>}

Nothing == [records |-> 0, edits |-> 0, deletes |-> 0, opens |-> 0, adds |-> 0, imports |-> 0,
            creates |-> 0, lists |-> 0, faults |-> 0]
Adding == [Nothing EXCEPT !.creates = 1, !.opens = 1, !.adds = 2]
Reopening == [Nothing EXCEPT !.creates = 1, !.opens = 2, !.adds = 1]
Editing == [Nothing EXCEPT !.creates = 1, !.opens = 1, !.adds = 1, !.edits = 1]
Draining == [Nothing EXCEPT !.imports = 1, !.edits = 2]
Removing == [Nothing EXCEPT !.creates = 1, !.opens = 1, !.adds = 1, !.records = 1, !.deletes = 2]
Failing == [Nothing EXCEPT !.creates = 1, !.opens = 1, !.adds = 1, !.records = 1, !.deletes = 1,
                           !.faults = 1]
Importing == [Nothing EXCEPT !.creates = 1, !.imports = 1, !.deletes = 1, !.lists = 1]
Profiles == {Adding, Reopening, Editing, Draining, Removing, Failing, Importing}
=============================================================================
