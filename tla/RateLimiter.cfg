\* Two clients of one user; a second is two ticks.
CONSTANTS
  c1 = c1
  c2 = c2
  None = None
  Clients <- TwoClients
  Setups <- WindowsOrTokens
  MaxAhead = 1
  Second = 2
  Window = 4
  Minute = 2
  MaxDelay = 1
  Salts = {0}
  MaxFaults = 1
SPECIFICATION Spec
INVARIANTS TypeOK WindowHolds RetryIsEnough TokensHold SilenceHelps
\* time ends
CHECK_DEADLOCK FALSE
