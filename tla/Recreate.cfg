SPECIFICATION FairSpec
CONSTANTS
  Nodes = {"n1"}
  Rules = {"r1"}
  Conds = {"c1"}
  Labels = {"l1", "l2"}
  Taints = {"t1"}
  Specs <- MCMoved
  Faults = {}
  EnvOps = {"ruleCreate", "ruleDelete", "force"}
  MaxEnv = 3
  InitNodes <- MCTaintedNodes
  InitRules <- MCOneRule
PROPERTY CacheConverges
CHECK_DEADLOCK FALSE
