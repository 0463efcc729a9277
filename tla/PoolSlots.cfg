\* Slot accounting: two replicas and two handlers share two channels of different
\* priority and size; reloads, and one fault of any kind.
CONSTANTS
  FailureThreshold = 1
  SuccessThreshold = 1
  HalfOpenMaxReqs = 0
  BaseCooldown = 1
  RateLimitCooldown = 1
  MaxCooldown = 1
  Replicas = {p1, p2}
  c1 = c1
  c2 = c2
  Channels <- TwoChannels
  Requests = {r1, r2}
  Absent = Absent
  MaxConcurrency <- TwoAndOneSlots
  Priority <- FirstPreferred
  Outcomes = {"ok"}
  Faults = {"redis", "repeat", "crash", "lateExpiry", "shutdown"}
  MaxFaults = 1
  MaxAdmin = 0
SYMMETRY HandlersAndReplicas
SPECIFICATION Spec
INVARIANT SlotsAccounted
PROPERTY SlotsLimited
