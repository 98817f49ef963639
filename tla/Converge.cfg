SPECIFICATION FairSpec
CONSTANTS
  Nodes = {"n1"}
  Rules = {"r1"}
  Conds = {"c1"}
  Labels = {"l1", "l2"}
  Taints = {"t1"}
  Specs <- MCContinuous
  Faults = {}
  EnvOps = {"condition", "label", "taint", "ruleDelete", "dryRun", "crash"}
  MaxEnv = 2
  InitNodes <- MCAnyNodes
  InitRules <- MCOneRule
PROPERTIES TaintConverges DeletionCompletes CacheConverges
CHECK_DEADLOCK FALSE
