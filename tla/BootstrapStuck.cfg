SPECIFICATION FairSpec
CONSTANTS
  Nodes = {"n1"}
  Rules = {"r1"}
  Conds = {"c1"}
  Labels = {"l1"}
  Taints = {"t1"}
  Specs <- MCBootstrap
  Faults = {}
  EnvOps = {"condition"}
  MaxEnv = 1
  InitNodes <- MCNewNodes
  InitRules <- MCBootRule
PROPERTY BootstrapReleases
CHECK_DEADLOCK FALSE
