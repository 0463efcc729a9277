\* One user; two requests that are not charged yet; a token is half a cent.
CONSTANTS
  r1 = r1
  r2 = r2
  k1 = k1
  k2 = k2
  vip = vip
  free = free
  None = None
  Requests <- TwoRequests
  Keys <- OneKey
  Tiers <- TwoTiers
  Free = free
  PlanQuota <- Quotas
  Sizes <- SmallOrLarge
  Price = 1
  Unit = 2
  MaxCents = 1
  Deposits = {0, 1}
  Edits = {0, 2}
  Opening = 1
  MonthLength = 1
  LastDay = 1
  Caps <- Profiles
SPECIFICATION Spec
SYMMETRY Interchangeable
INVARIANTS TypeOK Overdraft Explained Undercharged Counted ScreensSettle
\* requests may stop coming
CHECK_DEADLOCK FALSE
