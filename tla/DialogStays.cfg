SPECIFICATION Spec
CONSTANTS
  get = get
  write = write
  mcp = mcp
  Tools <- MCTools
  Kind <- MCKind
  Plans <- McpPlans
  MaxSends = 2
PROPERTIES OwnDialogHidden
CHECK_DEADLOCK FALSE
