---------------------------- MODULE ControllerState ----------------------------
(***************************************************************************)
(* The state shared by the cluster and the two workers of the controller,  *)
(* and the calls both workers make: reads from the informer caches, writes *)
(* to the API server.                                                      *)
(*                                                                         *)
(* Every Get and List of the manager's client reads an informer cache, so  *)
(* a worker sees nodeInf and ruleInf, never node and rule.  The lag of an  *)
(* object says what the informer has still to deliver:                     *)
(*    "synced"  the cache holds the stored version;                        *)
(*    "quiet"   newer versions, none of which passes the watch predicate;  *)
(*    "event"   newer versions, one of which will enqueue the object.      *)
(* Versions the informer has not delivered yet are coalesced.              *)
(***************************************************************************)
EXTENDS ReadinessObjects

CONSTANT Faults   \* subset of {"conflict", "api"}: which calls may fail

ASSUME FaultsAssumption == Faults \subseteq {"conflict", "api"}

VARIABLES
  node, nodeInf, nodeLag,   \* Node objects: API server, informer cache, lag
  rule, ruleInf, ruleLag,   \* NodeReadinessRule objects, likewise
  nodeQueue, ruleQueue,     \* work queues (deduplicating)
  ruleCache,                \* RuleReadinessController.ruleCache
  rw,                       \* the rule worker (one: MaxConcurrentReconciles 1)
  nw,                       \* the node worker (one: the default)
  budget                    \* environment steps left

nodeVars == <<node, nodeInf, nodeLag>>
ruleVars == <<rule, ruleInf, ruleLag>>
vars == <<nodeVars, ruleVars, nodeQueue, ruleQueue, ruleCache, rw, nw, budget>>

Lags == {"synced", "quiet", "event"}

RuleWorkerPCs == {"finalizer", "cache", "cleanupList", "cleanup", "release",
                  "list", "eval", "mark", "status", "prune", "drop"}
NodeWorkerPCs == {"rules", "next", "taint", "mark", "persist"}

Idle == [pc |-> "idle"]

\* name and rule: the request and the rule as read; old: the cached spec when
\* the selector changed; snap: the listed copies of the nodes still to visit in
\* processAllNodesForRule; todo: nodes still to visit, or to drop from the status;
\* cur: the node being marked; errs: a cleanup removal failed.
RuleWorker == [pc : RuleWorkerPCs, name : Rules, rule : RuleObj, old : Specs,
               snap : [Nodes -> NodeObj], todo : SUBSET Nodes, cur : SUBSET Nodes,
               errs : BOOLEAN]

\* name and node: the request and the worker's copy of the node; entry: the
\* rule pointers taken from ruleCache; live: those still in the map, so that an
\* in-place update shows there; todo: rules still to visit; cur: the rule at hand.
NodeWorker == [pc : NodeWorkerPCs, name : Nodes, node : NodeObj,
               entry : [Rules -> CacheEntry], live : SUBSET Rules,
               todo : SUBSET Rules, cur : SUBSET Rules]

(***************************************************************************)
(* The watch predicates.                                                   *)
(***************************************************************************)
\* Mutant: label changes do not pass.
nodePredicate_NoLabels(old, new) ==
  \/ old.exists # new.exists
  \/ old.conds # new.conds
  \/ old.taints # new.taints

nodePredicate(old, new) ==
  \/ old.exists # new.exists
  \/ old.conds # new.conds
  \/ old.taints # new.taints
  \/ old.label # new.label

\* Mutant: the spec is compared, so a deletion mark does not pass.
rulePredicate_SpecOnly(old, new) == old.exists # new.exists \/ old.dryRun # new.dryRun

\* predicate.GenerationChangedPredicate; creations and deletions pass.
rulePredicate(old, new) == old.exists # new.exists \/ old.gen # new.gen

LagAfter(lag, passes) == IF lag = "event" \/ passes THEN "event" ELSE "quiet"

(***************************************************************************)
(* Writes to the API server.  A write that changes nothing makes no new    *)
(* version.                                                                *)
(***************************************************************************)
WriteNode(n, o) ==
  /\ node' = [node EXCEPT ![n] = o]
  /\ nodeLag' = [nodeLag EXCEPT ![n] =
                   IF o = node[n] THEN @ ELSE LagAfter(@, nodePredicate(node[n], o))]
  /\ UNCHANGED nodeInf

WriteRule(r, o) ==
  /\ rule' = [rule EXCEPT ![r] = o]
  /\ ruleLag' = [ruleLag EXCEPT ![r] =
                   IF o = rule[r] THEN @ ELSE LagAfter(@, rulePredicate(rule[r], o))]
  /\ UNCHANGED ruleInf

\* Mutant: client.MergeFrom without the optimistic lock.
lockedPatchOutcomes_NoLock(n) ==
  {x \in {"patched", "error"} :
     IF x = "patched" THEN node[n].exists ELSE "api" \in Faults \/ ~node[n].exists}

\* A patch under optimistic locking succeeds only from the stored version.  A
\* conflict is retried; each attempt reads the cache again, so the retries end
\* when the informer catches up or, with "conflict" in Faults, when the five
\* attempts of retry.DefaultRetry are used up.  A deleted node is NotFound.
lockedPatchOutcomes(n) ==
  {x \in {"patched", "error"} :
     IF x = "patched"
       THEN nodeLag[n] = "synced"
       ELSE \/ "api" \in Faults
            \/ nodeLag[n] # "synced" /\ (~node[n].exists \/ "conflict" \in Faults)}

addTaintBySpec(n, spec) ==
  CASE ~nodeInf[n].exists               -> {"error"}
    [] hasTaintBySpec(nodeInf[n], spec) -> {"noop"}
    [] OTHER                            -> lockedPatchOutcomes(n)

removeTaintBySpec(n, spec) ==
  CASE ~nodeInf[n].exists                -> {"error"}
    [] ~hasTaintBySpec(nodeInf[n], spec) -> {"noop"}
    [] OTHER                             -> lockedPatchOutcomes(n)

\* The taint list that is sent was built from the cached copy.
PatchTaints(n, act, spec, outcome) ==
  IF outcome = "patched"
    THEN WriteNode(n, [node[n] EXCEPT !.taints =
                         IF act = "add" THEN nodeInf[n].taints \cup {spec.taint}
                                        ELSE nodeInf[n].taints \ {spec.taint}])
    ELSE UNCHANGED nodeVars

\* How evaluateRuleForNode's taint call can end, decided on the copy o.
evaluateOutcomes(n, spec, o) ==
  CASE taintAction(spec, o) = "add"    -> addTaintBySpec(n, spec)
    [] taintAction(spec, o) = "remove" -> removeTaintBySpec(n, spec)
    [] OTHER                           -> {"noop"}

\* Only a successful patch refreshes the caller's copy of the node.
localAfter(n, spec, o, outcome) ==
  IF outcome # "patched" THEN o
  ELSE [node[n] EXCEPT !.taints =
          IF taintAction(spec, o) = "add" THEN nodeInf[n].taints \cup {spec.taint}
                                          ELSE nodeInf[n].taints \ {spec.taint}]

\* The bootstrap marker is patched without a lock, and its failures are logged.
markBootstrapCompleted(n, r) ==
  LET pending == nodeInf[n].exists /\ r \notin nodeInf[n].completed
  IN \/ /\ pending /\ node[n].exists
        /\ WriteNode(n, [node[n] EXCEPT !.completed = @ \cup {r}])
     \/ /\ ~pending \/ ~node[n].exists \/ "api" \in Faults
        /\ UNCHANGED nodeVars

needsMark(spec, o, outcome) ==
  /\ taintAction(spec, o) = "remove"
  /\ outcome # "error"
  /\ spec.mode = "bootstrap-only"

\* ruleCache is replaced entry by entry; the node worker keeps its old pointers.
SetRuleCache(r, e) ==
  /\ ruleCache' = [ruleCache EXCEPT ![r] = e]
  /\ nw' = IF nw = Idle THEN nw ELSE [nw EXCEPT !.live = @ \ {r}]
===============================================================================
