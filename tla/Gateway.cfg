\* Two requests of one user who may have one at a time; one fault, one change of
\* the key, a shutdown at any time.
CONSTANTS
  r1 = r1
  r2 = r2
  u1 = u1
  Requests <- TwoRequests
  Users <- OneUser
  UserOf <- SameUser
  UserLimit = 1
  EmbeddingsLimit = 1
  MaxRetries = 1
  Absent = Absent
  MaxFaults = 1
  MaxToggles = 1
SPECIFICATION FairSpec
INVARIANTS UserLimitHolds UserCounterExact SlotsSettled BilledOnce
PROPERTIES AnsweredIsBilled RevokedKeyDies
\* requests end, and the process does
CHECK_DEADLOCK FALSE
