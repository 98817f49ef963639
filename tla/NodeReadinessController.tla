------------------------ MODULE NodeReadinessController ------------------------
(***************************************************************************)
(* The controller: the rule worker and the node worker, interleaved with   *)
(* each other, with the informers and with the cluster.                    *)
(***************************************************************************)
EXTENDS RuleReconciler, NodeReconciler, Cluster

Next == RuleWorkerStep \/ NodeWorkerStep \/ InformerStep \/ EnvStep

Spec == Init /\ [][Next]_vars

\* Watches deliver; a worker that is busy goes on.  The work queues are FIFO
\* and deduplicating, so a queued request is taken after finitely many others:
\* strong fairness, since the worker's being idle comes and goes.  Nothing is
\* assumed of the environment.
RuleWorkerBusy == rw # Idle /\ RuleWorkerStep
NodeWorkerBusy == nw # Idle /\ NodeWorkerStep

Fairness ==
  /\ \A n \in Nodes : WF_vars(SyncNode(n)) /\ SF_vars(NodeGet(n))
  /\ \A r \in Rules : WF_vars(SyncRule(r)) /\ SF_vars(RuleGet(r))
  /\ WF_vars(RuleWorkerBusy)
  /\ WF_vars(NodeWorkerBusy)

FairSpec == Spec /\ Fairness

-------------------------------------------------------------------------------
NodesOK == /\ node \in [Nodes -> NodeObj] /\ nodeInf \in [Nodes -> NodeObj]
           /\ nodeLag \in [Nodes -> Lags]
RulesOK == /\ rule \in [Rules -> RuleObj] /\ ruleInf \in [Rules -> RuleObj]
           /\ ruleLag \in [Rules -> Lags]
QueuesOK == nodeQueue \in SUBSET Nodes /\ ruleQueue \in SUBSET Rules
CacheOK == ruleCache \in [Rules -> CacheEntry]
RuleWorkerOK == rw \in RuleWorker \cup {Idle}
NodeWorkerOK == nw \in NodeWorker \cup {Idle}

\* The state has its shape.
TypeOK == /\ NodesOK /\ RulesOK /\ QueuesOK /\ CacheOK
          /\ RuleWorkerOK /\ NodeWorkerOK
          /\ budget \in 0..MaxEnv

\* A rule the node worker may take from the cache to enforce it carries the
\* finalizer on the API server, so it cannot disappear without reconcileDelete
\* (ensureFinalizer comes first in Reconcile, reconcileDelete drops the cache
\* entry before the finalizer).  Nothing is said of an entry taken earlier.
EnforcedImpliesFinalizer ==
  \A r \in Rules : ruleCache[r].known /\ ~ruleCache[r].deleting
                     => rule[r].exists /\ rule[r].finalizer

\* A rule is never forgotten: unless it still has the worker's attention, its
\* current generation was processed to the end and the finalizer is in place.
NoForgottenRule ==
  \A r \in Rules :
    rule[r].exists =>
      \/ ruleLag[r] = "event" \/ r \in ruleQueue \/ (rw # Idle /\ rw.name = r)
      \/ rule[r].finalizer /\ ~rule[r].deleting /\ rule[r].observed = rule[r].gen

\* The taint whose rule a worker is handling.
OwnTaints ==
  (IF rw = Idle THEN {} ELSE {rw.rule.spec.taint})
  \cup (IF nw = Idle THEN {} ELSE {nw.entry[r].spec.taint : r \in nw.cur})

\* The controller changes nothing of a node but the taint of the rule at hand
\* and the bootstrap markers, whatever others do to the node meanwhile: taint
\* patches replace the whole list, and are sent under optimistic locking.
OnlyOwnTaint ==
  [][budget' = budget =>
       \A n \in Nodes :
         /\ node'[n].taints \ OwnTaints = node[n].taints \ OwnTaints
         /\ node'[n].exists = node[n].exists
         /\ node'[n].conds = node[n].conds
         /\ node'[n].label = node[n].label
         /\ node[n].completed \subseteq node'[n].completed]_vars

\* Once a rule's deletion is requested, the rule goes (reconcileDelete and the
\* requeues along it).
DeletionCompletes ==
  \A r \in Rules : (rule[r].exists /\ rule[r].deleting) ~> ~(rule[r].exists /\ rule[r].deleting)

\* When the environment comes to rest, every node selected by an enforced
\* continuous rule carries the taint exactly when its conditions are not met.
Enforced(r) == /\ rule[r].exists /\ ~rule[r].deleting /\ ~rule[r].dryRun
               /\ rule[r].spec.mode = "continuous"

TaintAgrees(r, n) ==
  Enforced(r) /\ ruleAppliesTo(rule[r].spec, node[n])
    => (hasTaintBySpec(node[n], rule[r].spec) <=> ~allConditionsSatisfied(rule[r].spec, node[n]))

TaintConverges == \A r \in Rules, n \in Nodes : <>[]TaintAgrees(r, n)

\* When the environment comes to rest, ruleCache holds exactly the rules that
\* exist, as they are: the node worker enforces neither a rule that is gone nor
\* an outdated dryRun or selector (Reconcile, the NotFound branch included).
CacheAgrees(r) ==
  /\ ruleCache[r].known = rule[r].exists
  /\ rule[r].exists => /\ ruleCache[r].spec = rule[r].spec
                       /\ ruleCache[r].dryRun = rule[r].dryRun
                       /\ ruleCache[r].deleting = rule[r].deleting

CacheConverges == \A r \in Rules : <>[]CacheAgrees(r)

-------------------------------------------------------------------------------
(***************************************************************************)
(* What the documentation and the tests say of the controller and the code *)
(* does not do.  Each is checked by a run that expects a violation.        *)
(***************************************************************************)
\* concepts.md, bootstrap-only: "Once satisfied: 1. The taint is removed."
BootstrapReleases ==
  \A n \in Nodes, r \in Rules :
    <>[](/\ ruleAppliesTo(rule[r].spec, node[n])
         /\ rule[r].exists /\ rule[r].spec.mode = "bootstrap-only" /\ ~rule[r].dryRun
         /\ allConditionsSatisfied(rule[r].spec, node[n])
         => ~hasTaintBySpec(node[n], rule[r].spec))

\* installation.md: the finalizer is there "to ensure taints are safely removed
\* from nodes before a rule is deleted".  cleanupTaintsForRule looks for the taint
\* in the informer's copy of the node, which may be older than the taint.
TaintsGoneWithRule ==
  [][\A n \in Nodes, r \in Rules :
       budget' = budget /\ rule[r].exists /\ ~rule'[r].exists
         /\ ruleAppliesTo(rule[r].spec, node[n])
         => ~hasTaintBySpec(node[n], rule[r].spec)]_vars
===============================================================================
