---------------------------- MODULE ReadinessPlugin ----------------------------
(***************************************************************************)
(* What the Headlamp plugin shows of the rules, computed from the status   *)
(* the controller writes: the rows of the Active blockers page and the     *)
(* node numbers of the overview.  The plugin keeps no state of its own.    *)
(***************************************************************************)
EXTENDS NodeReadinessController

liveRules == {r \in Rules : rule[r].exists /\ ~rule[r].dryRun}

\* blockedCount counts the evaluations of a rule with the taint present.
blockedEvaluations(r) == {n \in Nodes : rule[r].evals[n] = "Present"}

\* A row names a rule and a node; which conditions it lists is left out, an
\* evaluation without a failing one has a row too.
buildActiveBlockerRows == UNION {{r} \X blockedEvaluations(r) : r \in liveRules}

\* The node health cards of the overview.
nodeHealth ==
  LET total == Cardinality(UNION {{r} \X rule[r].applied : r \in liveRules})
      blocked == Cardinality(buildActiveBlockerRows)
  IN [totalManagedNodes      |-> total,
      blockedLiveEvaluations |-> blocked,
      nodesReady             |-> IF total > blocked THEN total - blocked ELSE 0]

-------------------------------------------------------------------------------
\* The nodes a live rule still keeps its taint on.
TaintedPairs ==
  {<<r, n>> \in Rules \X Nodes :
     /\ r \in liveRules /\ ~rule[r].deleting
     /\ ruleAppliesTo(rule[r].spec, node[n]) /\ hasTaintBySpec(node[n], rule[r].spec)}

\* activeBlockersRows.ts: "One row per (rule, evaluation, blocking condition),
\* for live rules with taint still present."  When the environment comes to
\* rest, a tainted node has its row and is not counted as ready.
BlockersShown ==
  <>[](/\ TaintedPairs \subseteq buildActiveBlockerRows
       /\ nodeHealth.nodesReady + Cardinality(TaintedPairs) <= nodeHealth.totalManagedNodes)
===============================================================================
