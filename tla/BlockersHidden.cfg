SPECIFICATION FairSpec
CONSTANTS
  Nodes = {"n1"}
  Rules = {"r1"}
  Conds = {"c1"}
  Labels = {"l1"}
  Taints = {"t1"}
  Specs <- MCContinuous
  Faults = {}
  EnvOps = {"condition"}
  MaxEnv = 1
  InitNodes <- MCNewNodes
  InitRules <- MCOneRule
PROPERTY BlockersShown
CHECK_DEADLOCK FALSE
