---------------------------- MODULE NodeReconciler ----------------------------
(***************************************************************************)
(* NodeReconciler.Reconcile and processNodeAgainstAllRules, run by one     *)
(* worker next to the rule worker.  No error is returned: a request is     *)
(* never put back, the worker relies on the next watch event.              *)
(***************************************************************************)
EXTENDS ControllerState

\* Reconcile: fetch the node; NotFound ends the request.
NodeGet(n) ==
  /\ nw = Idle
  /\ n \in nodeQueue
  /\ nodeQueue' = nodeQueue \ {n}
  /\ nw' = IF nodeInf[n].exists
             THEN [pc |-> "rules", name |-> n, node |-> nodeInf[n],
                   entry |-> [r \in Rules |-> NoEntry], live |-> {},
                   todo |-> {}, cur |-> {}]
             ELSE Idle
  /\ UNCHANGED <<nodeVars, ruleVars, ruleQueue, ruleCache, rw, budget>>

\* The loop of processNodeAgainstAllRules: on to the next rule, or done.
NextRule(w) == IF w.todo = {} THEN Idle ELSE [w EXCEPT !.pc = "next", !.cur = {}]

\* Under the read lock, take the pointers of the applicable rules.
getApplicableRulesForNode ==
  LET applicable == {r \in Rules : ruleCache[r].known /\ ruleAppliesTo(ruleCache[r].spec, nw.node)}
      entries == [r \in Rules |-> IF r \in applicable THEN ruleCache[r] ELSE NoEntry]
  IN /\ nw # Idle /\ nw.pc = "rules"
     /\ nw' = NextRule([nw EXCEPT !.entry = entries, !.live = applicable, !.todo = applicable])
     /\ UNCHANGED <<nodeVars, ruleVars, nodeQueue, ruleQueue, ruleCache, rw, budget>>

\* A failed read counts as not completed.
isBootstrapCompleted(n, r) == nodeInf[n].exists /\ r \in nodeInf[n].completed

skipsRule(r) ==
  \/ nw.entry[r].deleting
  \/ isBootstrapCompleted(nw.name, r) /\ nw.entry[r].spec.mode = "bootstrap-only"
  \/ nw.entry[r].dryRun

NodeNextRule(r) ==
  /\ nw # Idle /\ nw.pc = "next"
  /\ r \in nw.todo
  /\ nw' = IF skipsRule(r)
             THEN NextRule([nw EXCEPT !.todo = @ \ {r}, !.entry[r] = NoEntry, !.live = @ \ {r}])
             ELSE [nw EXCEPT !.todo = @ \ {r}, !.cur = {r}, !.pc = "taint"]
  /\ UNCHANGED <<nodeVars, ruleVars, nodeQueue, ruleQueue, ruleCache, rw, budget>>

\* The status of the cached rule is updated in place: through the pointer, and
\* in ruleCache while the pointer is still the map's.
UpdateEntry(r, e, w) ==
  /\ nw' = [w EXCEPT !.entry[r] = e]
  /\ ruleCache' = IF r \in nw.live THEN [ruleCache EXCEPT ![r] = e] ELSE ruleCache

\* evaluateRuleForNode, or recordNodeFailure when it fails.
NodeEvaluate(r) ==
  LET n == nw.name
      e == nw.entry[r]
      o == nw.node
  IN /\ nw # Idle /\ nw.pc = "taint"
     /\ r \in nw.cur
     /\ \E outcome \in evaluateOutcomes(n, e.spec, o) :
          /\ PatchTaints(n, taintAction(e.spec, o), e.spec, outcome)
          /\ IF outcome = "error"
               THEN UpdateEntry(r, [e EXCEPT !.failed = @ \cup {n}], [nw EXCEPT !.pc = "persist"])
               ELSE LET local == localAfter(n, e.spec, o, outcome) IN
                    UpdateEntry(r, [e EXCEPT !.evals[n] = taintStatusOf(e.spec, local)],
                                [nw EXCEPT !.node = local,
                                   !.pc = IF needsMark(e.spec, o, outcome) THEN "mark" ELSE "persist"])
     /\ UNCHANGED <<ruleVars, nodeQueue, ruleQueue, rw, budget>>

NodeMark ==
  /\ nw # Idle /\ nw.pc = "mark"
  /\ \E r \in nw.cur : markBootstrapCompleted(nw.name, r)
  /\ nw' = [nw EXCEPT !.pc = "persist"]
  /\ UNCHANGED <<ruleVars, nodeQueue, ruleQueue, ruleCache, rw, budget>>

\* The status patch of one rule: the cached rule's lists with this node's
\* evaluation and failure replaced.  Without an evaluation of the node the new
\* list holds an entry with no nodeName, which the CRD rejects as a whole.
PersistStatus(n, r, base, e) ==
  \E v \in MergeStamped(base.evals, [base.evals EXCEPT ![n] = e.evals[n]],
                        rule[r].evals, NoEvals),
     f \in MergeStamped(base.failed, (base.failed \ {n}) \cup (e.failed \cap {n}),
                        rule[r].failed, {}) :
    WriteRule(r, [rule[r] EXCEPT !.evals = v, !.failed = f])

\* Success and failure are both only logged.
NodePersist(r) ==
  LET n == nw.name
      e == nw.entry[r]
      accepted == ruleInf[r].exists /\ rule[r].exists /\ e.evals[n] # "none"
  IN /\ nw # Idle /\ nw.pc = "persist"
     /\ r \in nw.cur
     /\ \/ accepted /\ PersistStatus(n, r, ruleInf[r], e)
        \/ (~accepted \/ "api" \in Faults) /\ UNCHANGED ruleVars
     /\ nw' = NextRule([nw EXCEPT !.entry[r] = NoEntry, !.live = @ \ {r}])
     /\ UNCHANGED <<nodeVars, nodeQueue, ruleQueue, ruleCache, rw, budget>>

NodeWorkerStep ==
  \/ \E n \in Nodes : NodeGet(n)
  \/ getApplicableRulesForNode
  \/ \E r \in Rules : NodeNextRule(r)
  \/ \E r \in Rules : NodeEvaluate(r)
  \/ NodeMark
  \/ \E r \in Rules : NodePersist(r)
===============================================================================
