SPECIFICATION Spec
CONSTANTS
  NumPods = 2
  Containers = {"a", "b"}
  ContainersOf <- MCContainersOf
  Options = {"stamped", "plain"}
  Default = "stamped"
  TimeOf <- MCTimeOf
  TextOf <- MCTextOf
  MaxLines = 2
  MaxStart = 2
INVARIANTS ShownMatchesSelection NothingLost ReconnectOffered
CHECK_DEADLOCK FALSE
