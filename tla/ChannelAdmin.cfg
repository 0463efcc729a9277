\* Two channels, one of them of Gemini; two pools; two routes at a time.
CONSTANTS
  c1 = c1
  c2 = c2
  p1 = p1
  p2 = p2
  m1 = m1
  m2 = m2
  j1 = j1
  j2 = j2
  None = None
  Channels <- TwoChannels
  Gemini <- OneGemini
  Pools <- TwoPools
  Models <- TwoModels
  Jobs <- TwoJobs
  Lines <- Imports
  MaxBalance = 2
  Caps <- Profiles
SPECIFICATION Spec
INVARIANTS TypeOK RecordsKept PlacedRight
PROPERTIES InitialStays
\* the console may be left alone
CHECK_DEADLOCK FALSE
