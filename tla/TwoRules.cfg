SPECIFICATION Spec
CONSTANTS
  Nodes = {"n1"}
  Rules = {"r1", "r2"}
  Conds = {"c1"}
  Labels = {"l1"}
  Taints = {"t1", "t2", "f"}
  Specs <- MCTwo
  Faults = {}
  EnvOps = {"taint"}
  MaxEnv = 1
  InitNodes <- MCForeignNodes
  InitRules <- MCTwoRules
PROPERTY OnlyOwnTaint
CHECK_DEADLOCK FALSE
