\* The product's own thresholds; a tick is 15 seconds.
CONSTANTS
  FailureThreshold = 5
  SuccessThreshold = 2
  HalfOpenMaxReqs = 2
  BaseCooldown = 2
  RateLimitCooldown = 1
  MaxCooldown = 20
  MaxInFlight = 3
SPECIFICATION BreakerSpec
INVARIANTS BreakerTypeOK ClosedIsHealthy ProbesAreBounded AuthQuarantine
