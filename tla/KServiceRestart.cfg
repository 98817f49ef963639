SPECIFICATION FairSpec
CONSTANTS
  Pages = {"detail"}
  MaxPods = 4
  MaxReplicas = 2
  Faults = {"list", "delete", "timeout"}
INVARIANTS KeepsServing
PROPERTIES SuccessMeansRestarted RestartSettles
CHECK_DEADLOCK FALSE
