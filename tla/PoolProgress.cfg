\* Two handlers on the one slot of a channel; two calls fail, are repeated, or are cut short by a
\* crash.
CONSTANTS
  FailureThreshold = 1
  SuccessThreshold = 1
  HalfOpenMaxReqs = 0
  BaseCooldown = 1
  RateLimitCooldown = 1
  MaxCooldown = 1
  Replicas = {p1}
  c1 = c1
  c2 = c2
  Channels <- OneChannel
  Requests = {r1, r2}
  Absent = Absent
  MaxConcurrency <- OneSlot
  Priority <- Flat
  Outcomes = {"unavailable", "internal"}
  Faults = {"redis", "repeat", "crash"}
  MaxFaults = 2
  MaxAdmin = 1
SPECIFICATION FairSpec
PROPERTIES OpenChannelReturns FullChannelFrees
