SPECIFICATION FairSpec
CONSTANTS
  get = get
  write = write
  mcp = mcp
  Tools <- MCTools
  Kind <- MCKind
  Plans <- McpPlans
  MaxSends = 2
PROPERTIES SendSettles
CHECK_DEADLOCK FALSE
