\* Two gateways with caches of their own; one model.
CONSTANTS
  g1 = g1
  g2 = g2
  r1 = r1
  r2 = r2
  None = None
  Gateways <- TwoGateways
  Requests <- TwoRequests
  Pools <- SomePools
  Prices <- SomePrices
  Unit = 2
  MaxTokens = 2
  Caps <- Profiles
SPECIFICATION Spec
 
PROPERTY CachesCatchUp
