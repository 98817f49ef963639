---------------------------- MODULE RuleReconciler ----------------------------
(***************************************************************************)
(* RuleReconciler.Reconcile, run by one worker.  A step ends where the     *)
(* other worker, the informer or a user can observe or change something:   *)
(* at a patch, at a read of an informer cache and at a ruleCache update.   *)
(***************************************************************************)
EXTENDS ControllerState

RuleDone == rw' = Idle

\* An error, or a RequeueAfter, puts the request back on the queue.
RuleRequeue(r) == rw' = Idle /\ ruleQueue' = ruleQueue \cup {r}

\* Mutant: nothing is deleted from the map.
removeRuleFromCache_Keeps(r) == UNCHANGED <<ruleCache, nw>>

removeRuleFromCache(r) == SetRuleCache(r, NoEntry)

(***************************************************************************)
(* The start of Reconcile: fetch the rule and branch.                      *)
(***************************************************************************)
RuleGet(r) ==
  LET o == ruleInf[r]
      selectorChanged == /\ ruleCache[r].known
                         /\ nodeSelectorChanged(o.spec, ruleCache[r].spec)
      start(pc) == [pc |-> pc, name |-> r, rule |-> o,
                    old |-> IF ruleCache[r].known THEN ruleCache[r].spec ELSE o.spec,
                    snap |-> NoNodes,
                    todo |-> {}, cur |-> {}, errs |-> FALSE]
  IN /\ rw = Idle
     /\ r \in ruleQueue
     /\ ruleQueue' = ruleQueue \ {r}
     /\ \/ ~o.exists /\ removeRuleFromCache(r) /\ RuleDone
        \/ /\ o.exists
           /\ rw' = start(CASE ~o.deleting /\ ~o.finalizer -> "finalizer"
                            [] ~o.deleting /\ o.finalizer /\ selectorChanged -> "cleanupList"
                            [] OTHER -> "cache")
           /\ UNCHANGED <<ruleCache, nw>>
     /\ UNCHANGED <<nodeVars, ruleVars, nodeQueue, budget>>

\* Mutants: the finalizer is set on the worker's copy only; the pass ends
\* without a requeue.
ensureFinalizer_Unpatched ==
  /\ rw # Idle /\ rw.pc = "finalizer"
  /\ rw' = [rw EXCEPT !.pc = "cache"]
  /\ UNCHANGED <<nodeVars, ruleVars, nodeQueue, ruleQueue, ruleCache, nw, budget>>

ensureFinalizer_NoRequeue ==
  /\ rw # Idle /\ rw.pc = "finalizer"
  /\ rule[rw.name].exists /\ ~rule[rw.name].deleting
  /\ WriteRule(rw.name, [rule[rw.name] EXCEPT !.finalizer = TRUE])
  /\ RuleDone
  /\ UNCHANGED <<nodeVars, nodeQueue, ruleQueue, ruleCache, nw, budget>>

\* Adding a finalizer does not change the generation: requeue explicitly.
ensureFinalizer ==
  /\ rw # Idle /\ rw.pc = "finalizer"
  /\ \/ /\ rule[rw.name].exists /\ ~rule[rw.name].deleting
        /\ WriteRule(rw.name, [rule[rw.name] EXCEPT !.finalizer = TRUE])
     \/ /\ ~rule[rw.name].exists \/ rule[rw.name].deleting \/ "api" \in Faults
        /\ UNCHANGED ruleVars
  /\ RuleRequeue(rw.name)
  /\ UNCHANGED <<nodeVars, nodeQueue, ruleCache, nw, budget>>

\* Mutant: an entry that is there is kept.
updateRuleCache_IfAbsent ==
  /\ rw # Idle /\ rw.pc = "cache"
  /\ IF ruleCache[rw.name].known THEN UNCHANGED <<ruleCache, nw>>
                                 ELSE SetRuleCache(rw.name, EntryOf(rw.rule))
  /\ rw' = [rw EXCEPT !.pc = IF rw.rule.deleting THEN "cleanupList" ELSE "list"]
  /\ UNCHANGED <<nodeVars, ruleVars, nodeQueue, ruleQueue, budget>>

\* Both paths publish the rule they read before they look at the nodes: the
\* deletion path so that the node worker skips it, the live path so that no
\* node change falls between the list and the cache.
updateRuleCache ==
  /\ rw # Idle /\ rw.pc = "cache"
  /\ SetRuleCache(rw.name, EntryOf(rw.rule))
  /\ rw' = [rw EXCEPT !.pc = IF rw.rule.deleting THEN "cleanupList" ELSE "list"]
  /\ UNCHANGED <<nodeVars, ruleVars, nodeQueue, ruleQueue, budget>>

(***************************************************************************)
(* cleanupTaintsForRule on deletion, cleanupNodesAfterSelectorChange when  *)
(* the cached rule had another selector.                                   *)
(***************************************************************************)
cleanupTargets ==
  {n \in Nodes :
     /\ nodeInf[n].exists
     /\ hasTaintBySpec(nodeInf[n], rw.rule.spec)
     /\ IF rw.rule.deleting
          THEN ruleAppliesTo(rw.rule.spec, nodeInf[n])
          ELSE ruleAppliesTo(rw.old, nodeInf[n]) /\ ~ruleAppliesTo(rw.rule.spec, nodeInf[n])}

CleanupList ==
  /\ rw # Idle /\ rw.pc = "cleanupList"
  /\ rw' = [rw EXCEPT !.pc = "cleanup", !.todo = cleanupTargets]
  /\ UNCHANGED <<nodeVars, ruleVars, nodeQueue, ruleQueue, ruleCache, nw, budget>>

CleanupNode(n) ==
  /\ rw # Idle /\ rw.pc = "cleanup"
  /\ n \in rw.todo
  /\ \E outcome \in removeTaintBySpec(n, rw.rule.spec) :
       /\ PatchTaints(n, "remove", rw.rule.spec, outcome)
       /\ rw' = [rw EXCEPT !.todo = @ \ {n}, !.errs = @ \/ outcome = "error"]
  /\ UNCHANGED <<ruleVars, nodeQueue, ruleQueue, ruleCache, nw, budget>>

\* Any failed removal requeues; otherwise the deletion path drops the rule from
\* the cache and goes on to the finalizer, the selector path to updateRuleCache.
CleanupDone ==
  /\ rw # Idle /\ rw.pc = "cleanup"
  /\ rw.todo = {}
  /\ \/ rw.errs /\ RuleRequeue(rw.name) /\ UNCHANGED <<ruleCache, nw>>
     \/ /\ ~rw.errs /\ rw.rule.deleting
        /\ removeRuleFromCache(rw.name)
        /\ rw' = [rw EXCEPT !.pc = "release"]
        /\ UNCHANGED ruleQueue
     \/ /\ ~rw.errs /\ ~rw.rule.deleting
        /\ rw' = [rw EXCEPT !.pc = "cache"]
        /\ UNCHANGED <<ruleQueue, ruleCache, nw>>
  /\ UNCHANGED <<nodeVars, ruleVars, nodeQueue, budget>>

\* The API server removes a deleting object once its finalizers are gone.
releaseFinalizer ==
  LET r == rw.name IN
  /\ rw # Idle /\ rw.pc = "release"
  /\ \/ /\ rule[r].exists
        /\ WriteRule(r, IF rule[r].deleting THEN NoRule
                        ELSE [rule[r] EXCEPT !.finalizer = FALSE])
        /\ RuleDone /\ UNCHANGED ruleQueue
     \/ /\ ~rule[r].exists \/ "api" \in Faults
        /\ RuleRequeue(r) /\ UNCHANGED ruleVars
  /\ UNCHANGED <<nodeVars, nodeQueue, ruleCache, nw, budget>>

(***************************************************************************)
(* The live path.                                                          *)
(***************************************************************************)
\* The list of processAllNodesForRule.  The status fields set after its loop
\* are local until updateRuleStatus, and are set here.
processAllNodesForRule ==
  LET applied == {n \in Nodes : ruleAppliesTo(rw.rule.spec, nodeInf[n])} IN
  /\ rw # Idle /\ rw.pc = "list" /\ ~rw.rule.dryRun
  /\ rw' = [rw EXCEPT !.pc = "eval", !.todo = applied,
                      !.snap = [n \in Nodes |-> IF n \in applied THEN nodeInf[n] ELSE NoNode],
                      !.rule.applied = applied, !.rule.observed = rw.rule.gen,
                      !.rule.dry = NoDryRun]
  /\ UNCHANGED <<nodeVars, ruleVars, nodeQueue, ruleQueue, ruleCache, nw, budget>>

processDryRun ==
  /\ rw # Idle /\ rw.pc = "list" /\ rw.rule.dryRun
  /\ rw' = [rw EXCEPT !.pc = "status", !.rule.observed = rw.rule.gen,
                      !.rule.dry = dryRunResultsOf(rw.rule.spec, nodeInf)]
  /\ UNCHANGED <<nodeVars, ruleVars, nodeQueue, ruleQueue, ruleCache, nw, budget>>

\* evaluateRuleForNode on the listed copy of n; a failure goes to FailedNodes.
RuleEvaluate(n) ==
  LET spec == rw.rule.spec
      o == rw.snap[n]
  IN /\ rw # Idle /\ rw.pc = "eval"
     /\ n \in rw.todo
     /\ \E outcome \in evaluateOutcomes(n, spec, o) :
          /\ PatchTaints(n, taintAction(spec, o), spec, outcome)
          /\ rw' = IF outcome = "error"
                     THEN [rw EXCEPT !.todo = @ \ {n}, !.snap[n] = NoNode,
                                     !.rule.failed = @ \cup {n}]
                     ELSE [rw EXCEPT !.todo = @ \ {n}, !.snap[n] = NoNode,
                             !.rule.evals[n] = taintStatusOf(spec, localAfter(n, spec, o, outcome)),
                             !.pc = IF needsMark(spec, o, outcome) THEN "mark" ELSE "eval",
                             !.cur = IF needsMark(spec, o, outcome) THEN {n} ELSE {}]
     /\ UNCHANGED <<ruleVars, nodeQueue, ruleQueue, ruleCache, nw, budget>>

RuleMark ==
  /\ rw # Idle /\ rw.pc = "mark"
  /\ \E n \in rw.cur : markBootstrapCompleted(n, rw.name)
  /\ rw' = [rw EXCEPT !.pc = "eval", !.cur = {}]
  /\ UNCHANGED <<ruleVars, nodeQueue, ruleQueue, ruleCache, nw, budget>>

\* The status patch: the worker's status against the cached rule, no lock.
PatchStatus(r, base, new) ==
  \E e \in MergeStamped(base.evals, new.evals, rule[r].evals, NoEvals),
     f \in MergeStamped(base.failed, new.failed, rule[r].failed, {}) :
    WriteRule(r, [rule[r] EXCEPT
                    !.evals = e, !.failed = f,
                    !.applied = MergePlain(base.applied, new.applied, @),
                    !.observed = MergePlain(base.observed, new.observed, @),
                    !.dry = MergeDry(base.dry, new.dry, @)])

updateRuleStatus ==
  LET r == rw.name IN
  /\ rw # Idle
  /\ rw.pc = "status" \/ (rw.pc = "eval" /\ rw.todo = {})
  /\ \/ /\ ruleInf[r].exists /\ rule[r].exists
        /\ PatchStatus(r, ruleInf[r], rw.rule)
        /\ rw' = [rw EXCEPT !.pc = "prune"]
        /\ UNCHANGED ruleQueue
     \/ /\ ~ruleInf[r].exists \/ ~rule[r].exists \/ "api" \in Faults
        /\ RuleRequeue(r) /\ UNCHANGED ruleVars
  /\ UNCHANGED <<nodeVars, nodeQueue, ruleCache, nw, budget>>

\* cleanupDeletedNodes lists the nodes: the pass ends when its own status has no
\* entry of a node that is gone.
PruneList ==
  LET gone == {n \in Nodes : ~nodeInf[n].exists}
      needed == \E n \in gone : rw.rule.evals[n] # "none"
  IN /\ rw # Idle /\ rw.pc = "prune"
     /\ rw' = IF needed THEN [rw EXCEPT !.pc = "drop", !.todo = gone] ELSE Idle
     /\ UNCHANGED <<nodeVars, ruleVars, nodeQueue, ruleQueue, ruleCache, nw, budget>>

\* It then drops the entries from the list of the rule it reads anew, and writes
\* that list if it had any.
cleanupDeletedNodes ==
  LET r == rw.name
      base == ruleInf[r]
      kept == [n \in Nodes |-> IF n \in rw.todo THEN "none" ELSE base.evals[n]]
      writes == base.exists /\ kept # base.evals
  IN /\ rw # Idle /\ rw.pc = "drop"
     /\ \/ /\ writes /\ rule[r].exists
           /\ WriteRule(r, [rule[r] EXCEPT !.evals = kept])
           /\ RuleDone /\ UNCHANGED ruleQueue
        \/ /\ base.exists /\ ~writes
           /\ RuleDone /\ UNCHANGED <<ruleQueue, ruleVars>>
        \/ /\ ~base.exists \/ (writes /\ (~rule[r].exists \/ "api" \in Faults))
           /\ RuleRequeue(r) /\ UNCHANGED ruleVars
     /\ UNCHANGED <<nodeVars, nodeQueue, ruleCache, nw, budget>>

RuleWorkerStep ==
  \/ \E r \in Rules : RuleGet(r)
  \/ ensureFinalizer
  \/ updateRuleCache
  \/ CleanupList
  \/ \E n \in Nodes : CleanupNode(n)
  \/ CleanupDone
  \/ releaseFinalizer
  \/ processAllNodesForRule
  \/ processDryRun
  \/ \E n \in Nodes : RuleEvaluate(n)
  \/ RuleMark
  \/ updateRuleStatus
  \/ PruneList
  \/ cleanupDeletedNodes
===============================================================================
