\* One administrator, signed in, and one new address; names that differ in case only.
CONSTANTS
  r1 = r1
  r2 = r2
  b1 = b1
  root = root
  new = new
  Ann = Ann
  ann = ann
  p1 = p1
  None = None
  Requests <- TwoRequests
  Browsers <- OneBrowser
  Emails <- TwoEmails
  Names <- TwoNames
  Passwords <- OnePassword
  Folded <- LowerCase
  Seed <- OneAccount
  SeedTokens <- OneToken
  NamelessUsers = TRUE
  MaxCodes = 2
  MaxPosts = 3
  MaxChanges = 1
  MaxFaults = 1
SPECIFICATION Spec
SYMMETRY Interchangeable
INVARIANTS OnlyNewestCode SpentCodeHasAccount LockedOut FormTellsTruth
PROPERTIES Enrols
\* clients may stop asking
CHECK_DEADLOCK FALSE
