SPECIFICATION Spec
CONSTANTS
  Nodes = {"n1"}
  Rules = {"r1"}
  Conds = {"c1"}
  Labels = {"l1"}
  Taints = {"t1"}
  Specs <- MCContinuous
  Faults = {"api", "conflict"}
  EnvOps = {"touch", "condition", "ruleCreate", "ruleDelete", "dryRun", "crash", "nodeDelete", "nodeCreate"}
  MaxEnv = 2
  InitNodes <- MCNewNodes
  InitRules <- MCOneRule
INVARIANTS TypeOK EnforcedImpliesFinalizer NoForgottenRule
CHECK_DEADLOCK FALSE
