SPECIFICATION Spec
CONSTANTS
  get = get
  write = write
  mcp = mcp
  Tools <- MCTools
  Kind <- MCKind
  Plans <- MCPlans
  MaxSends = 2
INVARIANTS TypeOK SpinnerHasWork
PROPERTIES ApprovalKept
CHECK_DEADLOCK FALSE
