SPECIFICATION Spec
CONSTANTS
  Nodes = {"n1"}
  Rules = {"r1"}
  Conds = {"c1"}
  Labels = {"l1"}
  Taints = {"t1"}
  Specs <- MCContinuous
  Faults = {}
  EnvOps = {"ruleDelete"}
  MaxEnv = 1
  InitNodes <- MCNewNodes
  InitRules <- MCOneRule
PROPERTY TaintsGoneWithRule
CHECK_DEADLOCK FALSE
