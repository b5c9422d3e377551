SPECIFICATION Spec
CONSTANTS
  c1 = c1
  a1 = a1
  b1 = b1
  p1 = p1
  p2 = p2
  h1 = h1
  h2 = h2
  Ids <- OneClaim
  Agents <- OneAgent
  Humans <- OneHuman
  None = None
  Callers <- TwoCallers
  Thief = Thief
  Handoffs <- TwoHandoffs
  MaxSteals = 1
  MaxPending = 1
  Changers <- OneCaller
  Settable <- KindsOfStatus
  Reasons <- KindsOfReason
  MaxWaiting = 2
PROPERTY ClaimTakesFree
