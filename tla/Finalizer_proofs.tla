---------------------------- MODULE Finalizer_proofs ----------------------------
(***************************************************************************)
(* A rule the node worker may take from the cache carries the finalizer,   *)
(* for every instance in which nobody strips finalizers by hand.           *)
(*                                                                         *)
(* EnforcedImpliesFinalizer relates ruleCache to the API server.  It is    *)
(* not inductive: the cache is filled from what the rule worker read, that *)
(* came from the informer, and the informer lags.  FinalizerInv follows    *)
(* the finalizer along this chain, for live rules and for rules being      *)
(* deleted.                                                                *)
(***************************************************************************)
EXTENDS NodeReadinessController_proofs

Live(o) == o.exists /\ ~o.deleting /\ o.finalizer
Marked(o) == o.exists /\ o.deleting
Protected(r) == rule[r].exists /\ rule[r].finalizer
Working(r) == rw # Idle /\ rw.name = r
Enforceable(r) == ruleCache[r].known /\ ~ruleCache[r].deleting

\* What the informer shows is live, or was deleted and is not live again before
\* the informer has caught up.
InformerPart ==
  \A r \in Rules : /\ Live(ruleInf[r]) => Protected(r)
                   /\ Marked(ruleInf[r]) => ~Live(rule[r])

\* What the rule worker holds.
AddingPart ==
  \A r \in Rules : Working(r) /\ rw.pc = "finalizer" =>
                     /\ ~rw.rule.deleting
                     /\ Marked(ruleInf[r]) => Marked(rule[r])

LivePart ==
  \A r \in Rules : Working(r) /\ rw.pc # "finalizer" /\ ~rw.rule.deleting => Protected(r)

DeletingPart ==
  \A r \in Rules : Working(r) /\ rw.rule.deleting => ~Live(ruleInf[r]) /\ ~Live(rule[r])

CleanupPart ==
  \A r \in Rules : Working(r) /\ rw.rule.deleting /\ rw.pc \in {"cleanupList", "cleanup", "release"}
                     => ~Enforceable(r)

ReleasePart == rw # Idle => (rw.pc = "release" => rw.rule.deleting)

\* The node worker's pointers that are still in the map point to its entries.
PointerPart == nw # Idle => \A r \in nw.live : nw.entry[r] = ruleCache[r]

WorkerPart == AddingPart /\ LivePart /\ DeletingPart /\ CleanupPart /\ ReleasePart

FinalizerInv == InformerPart /\ WorkerPart /\ PointerPart /\ EnforcedImpliesFinalizer

-------------------------------------------------------------------------------
(* Steps that leave the finalizer alone.                                   *)

SameFlags(o, p) == o.exists = p.exists /\ o.deleting = p.deleting /\ o.finalizer = p.finalizer

CleanupPCs == {"cleanupList", "cleanup", "release"}

\* The rule worker stops, stays, or goes on with the rule it read, into the
\* cleanup only on the selector path and to the finalizer not at all.
RuleWorkerKeeps ==
  \/ rw' = Idle
  \/ rw' = rw
  \/ /\ rw # Idle /\ rw' # Idle
     /\ rw'.name = rw.name /\ rw'.rule.deleting = rw.rule.deleting
     /\ rw.pc # "finalizer" /\ rw'.pc # "finalizer" /\ rw'.pc # "release"
     /\ rw'.pc \in CleanupPCs => rw.pc \in CleanupPCs \/ ~rw.rule.deleting

KeepsFinalizer ==
  /\ \A r \in Rules : SameFlags(rule'[r], rule[r])
  /\ ruleInf' = ruleInf
  /\ \A r \in Rules : /\ ruleCache'[r].known = ruleCache[r].known
                      /\ ruleCache'[r].deleting = ruleCache[r].deleting
  /\ RuleWorkerKeeps

ChainInv == InformerPart /\ WorkerPart /\ EnforcedImpliesFinalizer

LEMMA ChainFrame ==
  ASSUME ChainInv, KeepsFinalizer
  PROVE  ChainInv'
<1> USE DEF ChainInv, KeepsFinalizer, SameFlags, CleanupPCs
<1>1. \A r \in Rules : /\ Live(rule[r])' <=> Live(rule[r])
                       /\ Marked(rule[r])' <=> Marked(rule[r])
                       /\ Protected(r)' <=> Protected(r)
                       /\ Enforceable(r)' <=> Enforceable(r)
  BY DEF Live, Marked, Protected, Enforceable
<1>2. InformerPart'
  BY <1>1 DEF InformerPart, Live, Marked
<1>3. EnforcedImpliesFinalizer'
  BY <1>1 DEF EnforcedImpliesFinalizer, Enforceable, Protected
<1>4. CASE rw' = Idle
  BY <1>2, <1>3, <1>4
  DEF WorkerPart, AddingPart, LivePart, DeletingPart, CleanupPart, ReleasePart, Working
<1>5. CASE rw' = rw
  BY <1>1, <1>2, <1>3, <1>5
  DEF WorkerPart, AddingPart, LivePart, DeletingPart, CleanupPart, ReleasePart, Working,
      Live, Marked
<1>6. CASE /\ rw # Idle /\ rw' # Idle
           /\ rw'.name = rw.name /\ rw'.rule.deleting = rw.rule.deleting
           /\ rw.pc # "finalizer" /\ rw'.pc # "finalizer" /\ rw'.pc # "release"
           /\ rw'.pc \in CleanupPCs => rw.pc \in CleanupPCs \/ ~rw.rule.deleting
  BY <1>1, <1>2, <1>3, <1>6
  DEF WorkerPart, AddingPart, LivePart, DeletingPart, CleanupPart, ReleasePart, Working,
      Live, Marked
<1> QED
  BY <1>4, <1>5, <1>6 DEF RuleWorkerKeeps

\* A status patch leaves the metadata of the rule alone.
LEMMA StatusKeepsFlags ==
  ASSUME RulesOK, NEW r \in Rules, NEW o, SameFlags(o, rule[r]), WriteRule(r, o)
  PROVE  (\A q \in Rules : SameFlags(rule'[q], rule[q])) /\ ruleInf' = ruleInf
  BY DEF RulesOK, WriteRule, SameFlags

LEMMA SameRules ==
  ASSUME UNCHANGED ruleVars
  PROVE  (\A q \in Rules : SameFlags(rule'[q], rule[q])) /\ ruleInf' = ruleInf
  BY DEF ruleVars, SameFlags

\* The rule worker's steps between updateRuleCache and the end of Reconcile.
LEMMA RuleWorkerKeepsFinalizer ==
  ASSUME TypeOK,
         \/ CleanupList \/ (\E n \in Nodes : CleanupNode(n))
         \/ processAllNodesForRule \/ processDryRun
         \/ (\E n \in Nodes : RuleEvaluate(n)) \/ RuleMark
         \/ updateRuleStatus \/ PruneList \/ cleanupDeletedNodes
  PROVE  KeepsFinalizer
<1>0. rw # Idle => rw \in RuleWorker /\ rw.name \in Rules /\ rw.rule \in RuleObj
  BY BusyType DEF RuleWorker
<1>1. ruleCache' = ruleCache
  BY DEF CleanupList, CleanupNode, processAllNodesForRule, processDryRun, RuleEvaluate, RuleMark,
         updateRuleStatus, PruneList, cleanupDeletedNodes
<1>2. RulesOK
  BY DEF TypeOK
<1> SUFFICES RuleWorkerKeeps /\ (\A r \in Rules : SameFlags(rule'[r], rule[r])) /\ ruleInf' = ruleInf
  BY <1>1 DEF KeepsFinalizer
<1>3. CASE CleanupList
  <2>1. UNCHANGED ruleVars /\ rw # Idle /\ rw.pc = "cleanupList"
        /\ rw' = [rw EXCEPT !.pc = "cleanup", !.todo = cleanupTargets]
    BY <1>3 DEF CleanupList
  <2> QED
    BY <1>0, <2>1, SameRules DEF RuleWorkerKeeps, RuleWorker, CleanupPCs, Idle
<1>4. ASSUME NEW n \in Nodes, CleanupNode(n)
      PROVE  RuleWorkerKeeps /\ UNCHANGED ruleVars
  <2>1. PICK x : rw' = [rw EXCEPT !.todo = @ \ {n}, !.errs = @ \/ x = "error"]
    BY <1>4 DEF CleanupNode
  <2> QED
    BY <1>0, <1>4, <2>1 DEF CleanupNode, RuleWorkerKeeps, RuleWorker, CleanupPCs, Idle
<1>5. CASE processAllNodesForRule
  <2>1. /\ UNCHANGED ruleVars /\ rw # Idle /\ rw.pc = "list"
        /\ rw'.pc = "eval" /\ rw'.name = rw.name /\ rw'.rule.deleting = rw.rule.deleting
    BY <1>0, <1>5 DEF processAllNodesForRule, RuleWorker, RuleObj
  <2>2. rw' # Idle
    BY <2>1 DEF Idle
  <2> QED
    BY <2>1, <2>2, SameRules DEF RuleWorkerKeeps, CleanupPCs
<1>6. CASE processDryRun
  <2>1. /\ UNCHANGED ruleVars /\ rw # Idle /\ rw.pc = "list"
        /\ rw'.pc = "status" /\ rw'.name = rw.name /\ rw'.rule.deleting = rw.rule.deleting
    BY <1>0, <1>6 DEF processDryRun, RuleWorker, RuleObj
  <2>2. rw' # Idle
    BY <2>1 DEF Idle
  <2> QED
    BY <2>1, <2>2, SameRules DEF RuleWorkerKeeps, CleanupPCs
<1>7. ASSUME NEW n \in Nodes, RuleEvaluate(n)
      PROVE  RuleWorkerKeeps /\ UNCHANGED ruleVars
  <2>1. /\ UNCHANGED ruleVars /\ rw # Idle /\ rw.pc = "eval"
        /\ rw'.pc \in {"eval", "mark"} /\ rw'.name = rw.name
        /\ rw'.rule.deleting = rw.rule.deleting
    <3>1. UNCHANGED ruleVars /\ rw # Idle /\ rw.pc = "eval"
      BY <1>7 DEF RuleEvaluate
    <3> DEFINE spec == rw.rule.spec
               o == rw.snap[n]
               st(x) == taintStatusOf(spec, localAfter(n, spec, o, x))
               pc(x) == IF needsMark(spec, o, x) THEN "mark" ELSE "eval"
               cur(x) == IF needsMark(spec, o, x) THEN {n} ELSE {}
    <3>2. PICK x : rw' = IF x = "error"
            THEN [rw EXCEPT !.todo = @ \ {n}, !.snap[n] = NoNode, !.rule.failed = @ \cup {n}]
            ELSE [rw EXCEPT !.todo = @ \ {n}, !.snap[n] = NoNode, !.rule.evals[n] = st(x),
                            !.pc = pc(x), !.cur = cur(x)]
      BY <1>7 DEF RuleEvaluate
    <3>3. pc(x) \in {"eval", "mark"}
      OBVIOUS
    <3> HIDE DEF spec, o, st, pc, cur
    <3>4. rw'.pc \in {"eval", "mark"} /\ rw'.name = rw.name
      BY <1>0, <3>1, <3>2, <3>3 DEF RuleWorker
    <3>5. rw'.rule.deleting = rw.rule.deleting
      BY <1>0, <3>1, <3>2 DEF RuleWorker, RuleObj
    <3> QED
      BY <3>1, <3>4, <3>5
  <2>2. rw' # Idle
    BY <2>1 DEF Idle
  <2> QED
    BY <2>1, <2>2 DEF RuleWorkerKeeps, CleanupPCs
<1>8. CASE RuleMark
  <2>1. /\ UNCHANGED ruleVars /\ rw # Idle /\ rw.pc = "mark"
        /\ rw'.pc = "eval" /\ rw'.name = rw.name /\ rw'.rule.deleting = rw.rule.deleting
    BY <1>0, <1>8 DEF RuleMark, RuleWorker, RuleObj
  <2>2. rw' # Idle
    BY <2>1 DEF Idle
  <2> QED
    BY <2>1, <2>2, SameRules DEF RuleWorkerKeeps, CleanupPCs
<1>9. CASE updateRuleStatus
  <2>1. CASE UNCHANGED ruleVars /\ rw' = Idle
    BY <2>1, SameRules DEF RuleWorkerKeeps
  <2>2. CASE PatchStatus(rw.name, ruleInf[rw.name], rw.rule) /\ rw' = [rw EXCEPT !.pc = "prune"]
    <3>1. rw # Idle /\ rw.pc \in {"status", "eval"}
      BY <1>9 DEF updateRuleStatus
    <3>2. rw'.pc = "prune" /\ rw'.name = rw.name /\ rw'.rule.deleting = rw.rule.deleting
      BY <1>0, <2>2, <3>1 DEF RuleWorker
    <3>3. RuleWorkerKeeps
      BY <3>1, <3>2 DEF RuleWorkerKeeps, CleanupPCs, Idle
    <3>4. PICK e, f, a, g, d :
            WriteRule(rw.name, [rule[rw.name] EXCEPT !.evals = e, !.failed = f, !.applied = a,
                                                     !.observed = g, !.dry = d])
      BY <2>2 DEF PatchStatus
    <3>5. SameFlags([rule[rw.name] EXCEPT !.evals = e, !.failed = f, !.applied = a,
                                          !.observed = g, !.dry = d], rule[rw.name])
      BY <1>0, <1>2, <3>1 DEF SameFlags, RulesOK, RuleObj
    <3> QED
      BY <1>0, <1>2, <3>1, <3>3, <3>4, <3>5, StatusKeepsFlags
  <2> QED
    BY <1>9, <2>1, <2>2 DEF updateRuleStatus, RuleRequeue
<1>10. CASE cleanupDeletedNodes
  <2>1. rw # Idle /\ rw' = Idle
    BY <1>10 DEF cleanupDeletedNodes, RuleDone, RuleRequeue
  <2>2. CASE UNCHANGED ruleVars
    BY <2>1, <2>2, SameRules DEF RuleWorkerKeeps
  <2>3. ASSUME NEW v, WriteRule(rw.name, [rule[rw.name] EXCEPT !.evals = v])
        PROVE  (\A q \in Rules : SameFlags(rule'[q], rule[q])) /\ ruleInf' = ruleInf
    <3>1. SameFlags([rule[rw.name] EXCEPT !.evals = v], rule[rw.name])
      BY <1>0, <1>2, <2>1 DEF SameFlags, RulesOK, RuleObj
    <3> QED
      BY <1>0, <1>2, <2>1, <2>3, <3>1, StatusKeepsFlags
  <2> QED
    BY <1>10, <2>1, <2>2, <2>3 DEF cleanupDeletedNodes, RuleWorkerKeeps
<1>11. CASE PruneList
  <2>1. UNCHANGED ruleVars
    BY <1>11 DEF PruneList
  <2>2. CASE rw' # Idle
    <3>1. rw # Idle /\ rw.pc = "prune" /\ rw'.pc = "drop" /\ rw'.name = rw.name
          /\ rw'.rule.deleting = rw.rule.deleting
      BY <1>0, <1>11, <2>2 DEF PruneList, RuleWorker
    <3> QED
      BY <2>1, <2>2, <3>1, SameRules DEF RuleWorkerKeeps, CleanupPCs
  <2> QED
    BY <2>1, <2>2, SameRules DEF RuleWorkerKeeps
<1> QED
  BY <1>3, <1>4, <1>5, <1>6, <1>7, <1>8, <1>9, <1>10, <1>11, SameRules

-------------------------------------------------------------------------------
(* The node worker: its in-place status updates go through pointers that   *)
(* either are the cache's or are no longer in the map.                     *)

LEMMA NextRuleKeeps ==
  ASSUME NEW w \in NodeWorker, NextRule(w) # Idle
  PROVE  NextRule(w).entry = w.entry /\ NextRule(w).live = w.live
  BY DEF NextRule, NodeWorker

LEMMA UpdateEntryKeeps ==
  ASSUME TypeOK, PointerPart, NEW r \in Rules, NEW e \in CacheEntry, NEW w \in NodeWorker,
         nw # Idle, w.entry = nw.entry, w.live = nw.live,
         e.known = nw.entry[r].known, e.deleting = nw.entry[r].deleting,
         UpdateEntry(r, e, w)
  PROVE  /\ PointerPart'
         /\ \A q \in Rules : /\ ruleCache'[q].known = ruleCache[q].known
                             /\ ruleCache'[q].deleting = ruleCache[q].deleting
<1>1. nw \in NodeWorker /\ nw.live \subseteq Rules /\ ruleCache \in [Rules -> CacheEntry]
  BY BusyType DEF NodeWorker, TypeOK, CacheOK
<1>2. nw' = [w EXCEPT !.entry[r] = e]
  BY DEF UpdateEntry
<1>3. nw'.live = nw.live /\ nw'.entry = [nw.entry EXCEPT ![r] = e]
  BY <1>2 DEF NodeWorker
<1>4. \A q \in nw.live : nw'.entry[q] = IF q = r THEN e ELSE nw.entry[q]
  BY <1>1, <1>3 DEF NodeWorker
<1>5. CASE r \in nw.live
  <2>1. ruleCache' = [ruleCache EXCEPT ![r] = e]
    BY <1>5 DEF UpdateEntry
  <2>2. ruleCache'[r] = e /\ \A q \in Rules : q # r => ruleCache'[q] = ruleCache[q]
    BY <1>1, <2>1
  <2>3. PointerPart'
    BY <1>1, <1>3, <1>4, <2>2 DEF PointerPart
  <2>4. nw.entry[r] = ruleCache[r]
    BY <1>5 DEF PointerPart
  <2> QED
    BY <2>2, <2>3, <2>4
<1>6. CASE r \notin nw.live
  BY <1>1, <1>3, <1>4, <1>6 DEF UpdateEntry, PointerPart
<1> QED
  BY <1>5, <1>6

LEMMA NodeEvaluateKeeps ==
  ASSUME TypeOK, PointerPart, NEW r \in Rules, NodeEvaluate(r)
  PROVE  /\ PointerPart'
         /\ \A q \in Rules : /\ ruleCache'[q].known = ruleCache[q].known
                             /\ ruleCache'[q].deleting = ruleCache[q].deleting
<1> DEFINE n == nw.name
           e == nw.entry[r]
           local(x) == localAfter(n, e.spec, nw.node, x)
           st(x) == taintStatusOf(e.spec, local(x))
           pc(x) == IF needsMark(e.spec, nw.node, x) THEN "mark" ELSE "persist"
           failed == [e EXCEPT !.failed = @ \cup {n}]
           passed(x) == [e EXCEPT !.evals[n] = st(x)]
<1>1. /\ nw # Idle /\ nw \in NodeWorker /\ n \in Nodes /\ e \in CacheEntry /\ nw.node \in NodeObj
      /\ e.spec \in Specs
  BY BusyType DEF NodeEvaluate, NodeWorker, CacheEntry
<1>2. PICK x : IF x = "error"
                 THEN UpdateEntry(r, failed, [nw EXCEPT !.pc = "persist"])
                 ELSE UpdateEntry(r, passed(x), [nw EXCEPT !.node = local(x), !.pc = pc(x)])
  BY DEF NodeEvaluate
<1>3. CASE x = "error"
  <2>1. failed \in CacheEntry /\ failed.known = e.known /\ failed.deleting = e.deleting
    BY <1>1 DEF CacheEntry
  <2>2. [nw EXCEPT !.pc = "persist"] \in NodeWorker
    BY <1>1 DEF NodeWorker, NodeWorkerPCs
  <2>3. /\ [nw EXCEPT !.pc = "persist"].entry = nw.entry
        /\ [nw EXCEPT !.pc = "persist"].live = nw.live
    BY <1>1 DEF NodeWorker
  <2>4. UpdateEntry(r, failed, [nw EXCEPT !.pc = "persist"])
    BY <1>2, <1>3
  <2> HIDE DEF failed
  <2> QED
    BY <1>1, <2>1, <2>2, <2>3, <2>4, UpdateEntryKeeps
<1>4. CASE x # "error"
  <2>1. st(x) \in TaintStatus /\ pc(x) \in NodeWorkerPCs
    BY DEF taintStatusOf, TaintStatus, NodeWorkerPCs
  <2>2. local(x) \in NodeObj
    BY <1>1, LocalAfterType DEF TypeOK
  <2>3. UpdateEntry(r, passed(x), [nw EXCEPT !.node = local(x), !.pc = pc(x)])
    BY <1>2, <1>4
  <2> HIDE DEF st, pc, local
  <2>4. /\ passed(x) \in CacheEntry
        /\ passed(x).known = e.known /\ passed(x).deleting = e.deleting
    BY <1>1, <2>1 DEF CacheEntry
  <2> DEFINE w == [nw EXCEPT !.node = local(x), !.pc = pc(x)]
  <2>5. w \in NodeWorker /\ w.entry = nw.entry /\ w.live = nw.live
    BY <1>1, <2>1, <2>2 DEF NodeWorker
  <2>6. UpdateEntry(r, passed(x), w)
    BY <2>3
  <2> HIDE DEF passed, w
  <2> QED
    BY <1>1, <2>4, <2>5, <2>6, UpdateEntryKeeps
<1> QED
  BY <1>3, <1>4

LEMMA NodeWorkerKeepsFinalizer ==
  ASSUME TypeOK, PointerPart, NodeWorkerStep
  PROVE  KeepsFinalizer /\ PointerPart'
<1>0. nw # Idle => /\ nw \in NodeWorker /\ nw.live \subseteq Rules /\ nw.name \in Nodes
                   /\ nw.entry \in [Rules -> CacheEntry]
  BY BusyType DEF NodeWorker
<1>1. ASSUME UNCHANGED <<ruleVars, ruleCache, rw>> PROVE KeepsFinalizer
  BY <1>1, SameRules DEF KeepsFinalizer, RuleWorkerKeeps, ruleVars
<1>2. ASSUME NEW n \in Nodes, NodeGet(n) PROVE KeepsFinalizer /\ PointerPart'
  <2>1. nw' = Idle \/ nw'.live = {}
    BY <1>2 DEF NodeGet
  <2> QED
    BY <1>1, <1>2, <2>1 DEF NodeGet, PointerPart
<1>3. CASE getApplicableRulesForNode
  <2> DEFINE applicable == {r \in Rules : ruleCache[r].known /\ ruleAppliesTo(ruleCache[r].spec, nw.node)}
             entries == [r \in Rules |-> IF r \in applicable THEN ruleCache[r] ELSE NoEntry]
             w == [nw EXCEPT !.entry = entries, !.live = applicable, !.todo = applicable]
  <2>1. nw # Idle /\ nw' = NextRule(w) /\ ruleCache' = ruleCache
    BY <1>3 DEF getApplicableRulesForNode
  <2>2. applicable \subseteq Rules /\ entries \in [Rules -> CacheEntry]
    BY NoEntryType DEF TypeOK, CacheOK
  <2>3. \A r \in applicable : entries[r] = ruleCache[r]
    OBVIOUS
  <2> HIDE DEF applicable, entries
  <2>4. w \in NodeWorker /\ w.entry = entries /\ w.live = applicable
    BY <1>0, <2>1, <2>2 DEF NodeWorker
  <2>5. nw' # Idle => nw'.entry = entries /\ nw'.live = applicable
    BY <2>1, <2>4, NextRuleKeeps
  <2>6. PointerPart'
    BY <2>1, <2>3, <2>5 DEF PointerPart
  <2> QED
    BY <1>1, <1>3, <2>6 DEF getApplicableRulesForNode
<1>4. ASSUME NEW r \in Rules, nw # Idle, ruleCache' = ruleCache,
             nw' = NextRule([nw EXCEPT !.entry[r] = NoEntry, !.live = @ \ {r}])
             \/ nw' = NextRule([nw EXCEPT !.todo = @ \ {r}, !.entry[r] = NoEntry, !.live = @ \ {r}])
      PROVE  PointerPart'
  <2>1. PICK w : /\ w \in NodeWorker /\ nw' = NextRule(w)
                 /\ w.entry = [nw.entry EXCEPT ![r] = NoEntry] /\ w.live = nw.live \ {r}
    <3>1. ASSUME NEW w, w = [nw EXCEPT !.entry[r] = NoEntry, !.live = @ \ {r}]
                        \/ w = [nw EXCEPT !.todo = @ \ {r}, !.entry[r] = NoEntry, !.live = @ \ {r}]
          PROVE  /\ w \in NodeWorker
                 /\ w.entry = [nw.entry EXCEPT ![r] = NoEntry] /\ w.live = nw.live \ {r}
      <4>1. CASE w = [nw EXCEPT !.entry[r] = NoEntry, !.live = @ \ {r}]
        BY <1>0, <1>4, <4>1, NoEntryType DEF NodeWorker
      <4>2. CASE w = [nw EXCEPT !.todo = @ \ {r}, !.entry[r] = NoEntry, !.live = @ \ {r}]
        BY <1>0, <1>4, <4>2, NoEntryType DEF NodeWorker
      <4> QED
        BY <3>1, <4>1, <4>2
    <3> QED
      BY <1>4, <3>1
  <2>2. nw' # Idle => nw'.entry = w.entry /\ nw'.live = w.live
    BY <2>1, NextRuleKeeps
  <2>3. \A q \in w.live : w.entry[q] = nw.entry[q] /\ q \in nw.live
    BY <1>0, <1>4, <2>1
  <2> QED
    BY <1>4, <2>2, <2>3 DEF PointerPart
<1>5. ASSUME NEW r \in Rules, NodeNextRule(r) PROVE KeepsFinalizer /\ PointerPart'
  <2>1. KeepsFinalizer
    BY <1>1, <1>5 DEF NodeNextRule
  <2>2. CASE skipsRule(r)
    BY <1>4, <1>5, <2>1, <2>2 DEF NodeNextRule
  <2>3. CASE ~skipsRule(r)
    <3>1. nw # Idle /\ nw' = [nw EXCEPT !.todo = @ \ {r}, !.cur = {r}, !.pc = "taint"]
      BY <1>5, <2>3 DEF NodeNextRule
    <3>2. nw'.live = nw.live /\ nw'.entry = nw.entry
      BY <1>0, <3>1 DEF NodeWorker
    <3> QED
      BY <1>5, <2>1, <3>1, <3>2 DEF NodeNextRule, PointerPart
  <2> QED
    BY <2>2, <2>3
<1>6. ASSUME NEW r \in Rules, NodeEvaluate(r) PROVE KeepsFinalizer /\ PointerPart'
  BY <1>6, NodeEvaluateKeeps, SameRules DEF NodeEvaluate, KeepsFinalizer, RuleWorkerKeeps
<1>7. CASE NodeMark
  <2>1. nw # Idle /\ nw' = [nw EXCEPT !.pc = "persist"]
    BY <1>7 DEF NodeMark
  <2>2. nw'.live = nw.live /\ nw'.entry = nw.entry
    BY <1>0, <2>1 DEF NodeWorker
  <2> QED
    BY <1>1, <1>7, <2>1, <2>2 DEF NodeMark, PointerPart
<1>8. ASSUME NEW r \in Rules, NodePersist(r) PROVE KeepsFinalizer /\ PointerPart'
  <2>1. PointerPart'
    BY <1>4, <1>8 DEF NodePersist
  <2>2. (\A q \in Rules : SameFlags(rule'[q], rule[q])) /\ ruleInf' = ruleInf
    <3>1. CASE UNCHANGED ruleVars
      BY <3>1, SameRules
    <3>2. CASE PersistStatus(nw.name, r, ruleInf[r], nw.entry[r])
      <4>1. PICK v, f : WriteRule(r, [rule[r] EXCEPT !.evals = v, !.failed = f])
        BY <3>2 DEF PersistStatus
      <4>2. SameFlags([rule[r] EXCEPT !.evals = v, !.failed = f], rule[r])
        BY DEF SameFlags, TypeOK, RulesOK, RuleObj
      <4> QED
        BY <4>1, <4>2, StatusKeepsFlags DEF TypeOK
    <3> QED
      BY <1>8, <3>1, <3>2 DEF NodePersist
  <2> QED
    BY <1>8, <2>1, <2>2 DEF NodePersist, KeepsFinalizer, RuleWorkerKeeps
<1> QED
  BY <1>2, <1>3, <1>5, <1>6, <1>7, <1>8 DEF NodeWorkerStep

-------------------------------------------------------------------------------
(* The rule worker's steps that read the rule, publish it or change its    *)
(* finalizer.                                                              *)

LEMMA SetRuleCachePointer ==
  ASSUME TypeOK, PointerPart, NEW r \in Rules, NEW e, SetRuleCache(r, e)
  PROVE  /\ PointerPart'
         /\ ruleCache'[r] = e
         /\ \A q \in Rules : q # r => ruleCache'[q] = ruleCache[q]
<1>1. ruleCache' = [ruleCache EXCEPT ![r] = e] /\ ruleCache \in [Rules -> CacheEntry]
  BY DEF SetRuleCache, TypeOK, CacheOK
<1>2. ruleCache'[r] = e /\ \A q \in Rules : q # r => ruleCache'[q] = ruleCache[q]
  BY <1>1
<1>3. PointerPart'
  <2>1. CASE nw = Idle
    BY <2>1 DEF SetRuleCache, PointerPart
  <2>2. CASE nw # Idle
    <3>1. nw \in NodeWorker /\ nw.live \subseteq Rules
      BY <2>2, BusyType DEF NodeWorker
    <3>2. nw' = [nw EXCEPT !.live = @ \ {r}]
      BY <2>2 DEF SetRuleCache
    <3>3. nw'.live = nw.live \ {r} /\ nw'.entry = nw.entry
      BY <3>1, <3>2 DEF NodeWorker
    <3> QED
      BY <1>2, <2>2, <3>1, <3>3 DEF PointerPart
  <2> QED
    BY <2>1, <2>2
<1> QED
  BY <1>2, <1>3

LEMMA NoEntryUnknown == ~NoEntry.known
  BY NoRuleType, EntryOfType DEF NoEntry, CacheEntry

\* A pass starts on the delete path only when the rule is not live any more.
LEMMA RuleGetFinalizer ==
  ASSUME TypeOK, FinalizerInv, NEW r \in Rules, RuleGet(r)
  PROVE  FinalizerInv'
<1> USE DEF FinalizerInv
<1>1. rw = Idle /\ UNCHANGED ruleVars
  BY DEF RuleGet
<1>2. InformerPart'
  BY <1>1 DEF InformerPart, Protected, ruleVars
<1>3. CASE ~ruleInf[r].exists /\ removeRuleFromCache(r) /\ RuleDone
  <2>1. SetRuleCache(r, NoEntry) /\ rw' = Idle
    BY <1>3 DEF removeRuleFromCache, RuleDone
  <2>2. /\ PointerPart' /\ ruleCache'[r] = NoEntry
        /\ \A q \in Rules : q # r => ruleCache'[q] = ruleCache[q]
    BY <2>1, SetRuleCachePointer
  <2>3. EnforcedImpliesFinalizer'
    BY <1>1, <2>2, NoEntryUnknown DEF EnforcedImpliesFinalizer, ruleVars
  <2>4. WorkerPart'
    BY <2>1 DEF WorkerPart, AddingPart, LivePart, DeletingPart, CleanupPart, ReleasePart, Working
  <2> QED
    BY <1>2, <2>2, <2>3, <2>4
<1>4. CASE ruleInf[r].exists /\ UNCHANGED <<ruleCache, nw>>
  <2>1. PointerPart' /\ EnforcedImpliesFinalizer'
    BY <1>1, <1>4 DEF PointerPart, EnforcedImpliesFinalizer, ruleVars
  <2>2. CASE rw' = Idle
    BY <1>2, <2>1, <2>2
    DEF WorkerPart, AddingPart, LivePart, DeletingPart, CleanupPart, ReleasePart, Working
  <2>3. CASE rw' # Idle
    <3>1. /\ rw'.name = r /\ rw'.rule = ruleInf[r]
          /\ rw'.pc = CASE ~ruleInf[r].deleting /\ ~ruleInf[r].finalizer -> "finalizer"
                        [] /\ ~ruleInf[r].deleting /\ ruleInf[r].finalizer
                           /\ ruleCache[r].known
                           /\ nodeSelectorChanged(ruleInf[r].spec, ruleCache[r].spec) -> "cleanupList"
                        [] OTHER -> "cache"
      BY <1>4, <2>3 DEF RuleGet, RuleDone
    <3>2. \/ rw'.pc = "finalizer" /\ ~ruleInf[r].deleting
          \/ rw'.pc \in {"cache", "cleanupList"} /\ Live(ruleInf[r])
          \/ rw'.pc = "cache" /\ Marked(ruleInf[r])
      BY <1>4, <3>1 DEF Live, Marked
    <3>3. /\ Live(ruleInf[r]) => Protected(r)
          /\ Marked(ruleInf[r]) => ~Live(rule[r])
          /\ Marked(ruleInf[r]) => ~Live(ruleInf[r])
          /\ Live(ruleInf[r]) => ~ruleInf[r].deleting
      BY DEF InformerPart, Live, Marked
    <3>4. rule' = rule /\ ruleInf' = ruleInf
      BY <1>1 DEF ruleVars
    <3>5. AddingPart' /\ ReleasePart'
      BY <3>1, <3>2, <3>4 DEF AddingPart, ReleasePart, Working, Marked
    <3>6. LivePart'
      BY <3>1, <3>2, <3>3, <3>4 DEF LivePart, Working, Protected, Marked
    <3>7. DeletingPart'
      BY <3>1, <3>2, <3>3, <3>4 DEF DeletingPart, Working, Live
    <3>8. CleanupPart'
      BY <3>1, <3>2, <3>3 DEF CleanupPart, Working
    <3> QED
      BY <1>2, <2>1, <3>5, <3>6, <3>7, <3>8 DEF WorkerPart
  <2> QED
    BY <2>2, <2>3
<1> QED
  BY <1>3, <1>4 DEF RuleGet

\* The finalizer is never added to a rule that was seen being deleted.
LEMMA EnsureFinalizerKeeps ==
  ASSUME TypeOK, FinalizerInv, ensureFinalizer
  PROVE  FinalizerInv'
<1> USE DEF FinalizerInv
<1> DEFINE r == rw.name
<1>1. rw # Idle /\ rw.pc = "finalizer" /\ rw' = Idle /\ UNCHANGED <<ruleCache, nw>>
  BY DEF ensureFinalizer, RuleRequeue
<1>2. r \in Rules
  BY <1>1, BusyType DEF RuleWorker
<1>3. PointerPart'
  BY <1>1 DEF PointerPart
<1>4. WorkerPart'
  BY <1>1 DEF WorkerPart, AddingPart, LivePart, DeletingPart, CleanupPart, ReleasePart, Working
<1>5. CASE UNCHANGED ruleVars
  <2>1. InformerPart'
    BY <1>5 DEF InformerPart, Protected, ruleVars
  <2>2. EnforcedImpliesFinalizer'
    BY <1>1, <1>5 DEF EnforcedImpliesFinalizer, ruleVars
  <2> QED
    BY <1>3, <1>4, <2>1, <2>2
<1>6. CASE /\ rule[r].exists /\ ~rule[r].deleting
           /\ WriteRule(r, [rule[r] EXCEPT !.finalizer = TRUE])
  <2>1. /\ ruleInf' = ruleInf
        /\ rule'[r] = [rule[r] EXCEPT !.finalizer = TRUE]
        /\ \A q \in Rules : q # r => rule'[q] = rule[q]
    BY <1>2, <1>6 DEF WriteRule, TypeOK, RulesOK
  <2>2. rule'[r].exists /\ rule'[r].finalizer
    BY <1>2, <1>6, <2>1 DEF TypeOK, RulesOK, RuleObj
  <2>3. ~Marked(ruleInf[r])
    BY <1>1, <1>2, <1>6 DEF WorkerPart, AddingPart, Working, Marked
  <2>4. InformerPart'
    BY <2>1, <2>2, <2>3 DEF InformerPart, Protected, Live, Marked
  <2>5. EnforcedImpliesFinalizer'
    BY <1>1, <2>1, <2>2 DEF EnforcedImpliesFinalizer
  <2> QED
    BY <1>3, <1>4, <2>4, <2>5
<1> QED
  BY <1>5, <1>6 DEF ensureFinalizer

\* What is published is protected, or marked as being deleted.
LEMMA UpdateRuleCacheKeeps ==
  ASSUME TypeOK, FinalizerInv, updateRuleCache
  PROVE  FinalizerInv'
<1> USE DEF FinalizerInv
<1> DEFINE r == rw.name
           pc == IF rw.rule.deleting THEN "cleanupList" ELSE "list"
<1>1. /\ rw # Idle /\ rw.pc = "cache" /\ SetRuleCache(r, EntryOf(rw.rule)) /\ UNCHANGED ruleVars
      /\ rw' = [rw EXCEPT !.pc = pc]
  BY DEF updateRuleCache
<1>2. rw \in RuleWorker /\ r \in Rules /\ rw.rule \in RuleObj
  BY <1>1, BusyType DEF RuleWorker
<1>3. /\ PointerPart' /\ ruleCache'[r] = EntryOf(rw.rule)
      /\ \A q \in Rules : q # r => ruleCache'[q] = ruleCache[q]
  BY <1>1, <1>2, SetRuleCachePointer
<1>4. ruleCache'[r].deleting = rw.rule.deleting
  BY <1>3 DEF EntryOf
<1>5. rule' = rule /\ ruleInf' = ruleInf
  BY <1>1 DEF ruleVars
<1>6. /\ rw' # Idle /\ rw'.name = r /\ rw'.rule = rw.rule
      /\ rw'.pc = IF rw.rule.deleting THEN "cleanupList" ELSE "list"
  BY <1>1, <1>2 DEF RuleWorker, Idle
<1>7. ~rw.rule.deleting => Protected(r)
  BY <1>1, <1>2 DEF WorkerPart, LivePart, Working
<1>8. InformerPart'
  BY <1>5 DEF InformerPart, Protected
<1>9. EnforcedImpliesFinalizer'
  BY <1>2, <1>3, <1>4, <1>5, <1>7 DEF EnforcedImpliesFinalizer, Protected
<1>10. AddingPart' /\ ReleasePart'
  BY <1>6 DEF AddingPart, ReleasePart, Working
<1>11. LivePart'
  BY <1>5, <1>6, <1>7 DEF LivePart, Working, Protected
<1>12. DeletingPart'
  BY <1>1, <1>5, <1>6 DEF WorkerPart, DeletingPart, Working, Live
<1>13. CleanupPart'
  BY <1>4, <1>6 DEF CleanupPart, Working, Enforceable
<1> QED
  BY <1>3, <1>8, <1>9, <1>10, <1>11, <1>12, <1>13 DEF WorkerPart

LEMMA CleanupDoneKeeps ==
  ASSUME TypeOK, FinalizerInv, CleanupDone
  PROVE  FinalizerInv'
<1> USE DEF FinalizerInv
<1> DEFINE r == rw.name
<1>1. rw # Idle /\ rw.pc = "cleanup" /\ UNCHANGED ruleVars
  BY DEF CleanupDone
<1>2. rw \in RuleWorker /\ r \in Rules
  BY <1>1, BusyType DEF RuleWorker
<1>3. rule' = rule /\ ruleInf' = ruleInf
  BY <1>1 DEF ruleVars
<1>4. CASE rw' = Idle /\ UNCHANGED <<ruleCache, nw>>
  BY <1>3, <1>4
  DEF PointerPart, InformerPart, EnforcedImpliesFinalizer, Protected, WorkerPart, AddingPart,
      LivePart, DeletingPart, CleanupPart, ReleasePart, Working
<1>5. CASE ~rw.rule.deleting /\ rw' = [rw EXCEPT !.pc = "cache"] /\ UNCHANGED <<ruleCache, nw>>
  <2>1. rw' # Idle /\ rw'.name = r /\ rw'.rule = rw.rule /\ rw'.pc = "cache"
    BY <1>2, <1>5 DEF RuleWorker, Idle
  <2>2. PointerPart'
    BY <1>5 DEF PointerPart
  <2>3. KeepsFinalizer
    BY <1>1, <1>3, <1>5, <2>1
    DEF KeepsFinalizer, SameFlags, RuleWorkerKeeps, CleanupPCs
  <2> QED
    BY <2>2, <2>3, ChainFrame DEF ChainInv
<1>6. CASE rw.rule.deleting /\ removeRuleFromCache(r) /\ rw' = [rw EXCEPT !.pc = "release"]
  <2>1. rw' # Idle /\ rw'.name = r /\ rw'.rule = rw.rule /\ rw'.pc = "release"
    BY <1>2, <1>6 DEF RuleWorker, Idle
  <2>2. /\ PointerPart' /\ ruleCache'[r] = NoEntry
        /\ \A q \in Rules : q # r => ruleCache'[q] = ruleCache[q]
    BY <1>2, <1>6, SetRuleCachePointer DEF removeRuleFromCache
  <2>3. InformerPart'
    BY <1>3 DEF InformerPart, Protected
  <2>4. EnforcedImpliesFinalizer'
    BY <1>3, <2>2, NoEntryUnknown DEF EnforcedImpliesFinalizer
  <2>5. AddingPart' /\ LivePart' /\ ReleasePart'
    BY <1>6, <2>1 DEF AddingPart, LivePart, ReleasePart, Working
  <2>6. DeletingPart'
    BY <1>1, <1>3, <2>1 DEF WorkerPart, DeletingPart, Working, Live
  <2>7. CleanupPart'
    BY <2>1, <2>2, NoEntryUnknown DEF CleanupPart, Working, Enforceable
  <2> QED
    BY <2>2, <2>3, <2>4, <2>5, <2>6, <2>7 DEF WorkerPart
<1> QED
  BY <1>4, <1>5, <1>6 DEF CleanupDone, RuleRequeue

\* The finalizer is taken off a rule that nobody enforces and nobody sees live.
LEMMA ReleaseFinalizerKeeps ==
  ASSUME TypeOK, FinalizerInv, releaseFinalizer
  PROVE  FinalizerInv'
<1> USE DEF FinalizerInv
<1> DEFINE r == rw.name
<1>1. rw # Idle /\ rw.pc = "release" /\ rw' = Idle /\ UNCHANGED <<ruleCache, nw>>
  BY DEF releaseFinalizer, RuleDone, RuleRequeue
<1>2. r \in Rules
  BY <1>1, BusyType DEF RuleWorker
<1>3. PointerPart'
  BY <1>1 DEF PointerPart
<1>4. WorkerPart'
  BY <1>1 DEF WorkerPart, AddingPart, LivePart, DeletingPart, CleanupPart, ReleasePart, Working
<1>5. ~Live(ruleInf[r]) /\ ~Enforceable(r)
  BY <1>1, <1>2 DEF WorkerPart, ReleasePart, DeletingPart, CleanupPart, Working
<1>6. CASE UNCHANGED ruleVars
  BY <1>1, <1>3, <1>4, <1>6 DEF InformerPart, Protected, EnforcedImpliesFinalizer, ruleVars
<1>7. CASE WriteRule(r, IF rule[r].deleting THEN NoRule ELSE [rule[r] EXCEPT !.finalizer = FALSE])
  <2>1. /\ ruleInf' = ruleInf
        /\ rule'[r] = IF rule[r].deleting THEN NoRule ELSE [rule[r] EXCEPT !.finalizer = FALSE]
        /\ \A q \in Rules : q # r => rule'[q] = rule[q]
    BY <1>2, <1>7 DEF WriteRule, TypeOK, RulesOK
  <2>2. ~NoRule.exists
    BY DEF NoRule, FreshRule
  <2>3. ~Live(rule'[r])
    BY <1>2, <2>1, <2>2 DEF Live, TypeOK, RulesOK, RuleObj
  <2>4. InformerPart'
    BY <1>5, <2>1, <2>3 DEF InformerPart, Protected, Live, Marked
  <2>5. EnforcedImpliesFinalizer'
    BY <1>1, <1>5, <2>1 DEF EnforcedImpliesFinalizer, Enforceable
  <2> QED
    BY <1>3, <1>4, <2>4, <2>5
<1> QED
  BY <1>6, <1>7 DEF releaseFinalizer

-------------------------------------------------------------------------------
(* The cluster.                                                            *)

\* Users create, mark and remove rules; none of it makes a rule live at once.
LEMMA RuleEnvKeeps ==
  ASSUME TypeOK, FinalizerInv, "force" \notin EnvOps, NEW r \in Rules, RuleEnvStep(r)
  PROVE  FinalizerInv'
<1> USE DEF FinalizerInv
<1>1. UNCHANGED <<ruleCache, rw, nw, ruleInf>>
  BY DEF RuleEnvStep, RuleCreate, RuleDelete, DryRunToggle, ForceFinalizer, RuleEnv, WriteRule
<1>2. PointerPart'
  BY <1>1 DEF PointerPart
<1>3. ASSUME NEW o, WriteRule(r, o),
             \/ ~rule[r].exists /\ o.exists /\ ~o.deleting /\ ~o.finalizer
             \/ Live(rule[r]) /\ o.exists /\ o.deleting /\ o.finalizer
             \/ ~rule[r].finalizer /\ ~rule[r].deleting /\ ~o.exists
      PROVE  FinalizerInv'
  <2>1. rule'[r] = o /\ \A q \in Rules : q # r => rule'[q] = rule[q]
    BY <1>3 DEF WriteRule, TypeOK, RulesOK
  <2>2. Protected(r) => Protected(r)'
    BY <1>3, <2>1 DEF Protected, Live
  <2>3. ~Live(rule'[r])
    BY <1>3, <2>1 DEF Live
  <2>4. Marked(rule[r]) => Marked(rule'[r])
    BY <1>3 DEF Marked, Live
  <2>5. InformerPart'
    BY <1>1, <2>1, <2>2, <2>3 DEF InformerPart, Protected, Live, Marked
  <2>6. EnforcedImpliesFinalizer'
    BY <1>1, <2>1, <2>2 DEF EnforcedImpliesFinalizer, Protected
  <2>7. AddingPart'
    BY <1>1, <2>1, <2>4 DEF WorkerPart, AddingPart, Working, Marked
  <2>8. LivePart'
    BY <1>1, <2>1, <2>2 DEF WorkerPart, LivePart, Working, Protected
  <2>9. DeletingPart'
    BY <1>1, <2>1, <2>3 DEF WorkerPart, DeletingPart, Working, Live
  <2>10. CleanupPart' /\ ReleasePart'
    BY <1>1 DEF WorkerPart, CleanupPart, ReleasePart, Working, Enforceable
  <2> QED
    BY <1>2, <2>5, <2>6, <2>7, <2>8, <2>9, <2>10 DEF WorkerPart
<1>4. ASSUME NEW s \in Specs, NEW d \in BOOLEAN, RuleCreate(r, s, d) PROVE FinalizerInv'
  <2>1. FreshRule(s, d).exists /\ ~FreshRule(s, d).deleting /\ ~FreshRule(s, d).finalizer
    BY DEF FreshRule
  <2>2. ~rule[r].exists /\ WriteRule(r, FreshRule(s, d))
    BY <1>4 DEF RuleCreate, RuleEnv
  <2> QED
    BY <1>3, <2>1, <2>2
<1>5. CASE RuleDelete(r)
  <2> DEFINE marked == [rule[r] EXCEPT !.deleting = TRUE, !.gen = rule[r].gen + 1]
  <2>1. rule[r].exists /\ ~rule[r].deleting /\ WriteRule(r, IF rule[r].finalizer THEN marked ELSE NoRule)
    BY <1>5 DEF RuleDelete, RuleEnv
  <2>2. ~NoRule.exists
    BY DEF NoRule, FreshRule
  <2>3. rule[r].finalizer => marked.exists /\ marked.deleting /\ marked.finalizer
    BY <2>1 DEF TypeOK, RulesOK, RuleObj
  <2> HIDE DEF marked
  <2>4. CASE rule[r].finalizer
    <3>1. WriteRule(r, marked)
      BY <2>1, <2>4
    <3> QED
      BY <1>3, <2>1, <2>3, <2>4, <3>1 DEF Live
  <2>5. CASE ~rule[r].finalizer
    <3>1. WriteRule(r, NoRule)
      BY <2>1, <2>5
    <3> QED
      BY <1>3, <2>1, <2>2, <2>5, <3>1
  <2> QED
    BY <2>4, <2>5
<1>6. CASE DryRunToggle(r)
  <2> DEFINE o == [rule[r] EXCEPT !.dryRun = ~rule[r].dryRun, !.gen = rule[r].gen + 1]
  <2>1. WriteRule(r, o)
    BY <1>6 DEF DryRunToggle, RuleEnv
  <2>2. SameFlags(o, rule[r])
    BY DEF SameFlags, TypeOK, RulesOK, RuleObj
  <2> HIDE DEF o
  <2>3. KeepsFinalizer
    BY <1>1, <2>1, <2>2, StatusKeepsFlags DEF KeepsFinalizer, RuleWorkerKeeps, TypeOK
  <2> QED
    BY <1>2, <2>3, ChainFrame DEF ChainInv
<1> QED
  BY <1>4, <1>5, <1>6 DEF RuleEnvStep, ForceFinalizer, Env

LEMMA ClusterKeeps ==
  ASSUME TypeOK, FinalizerInv, "force" \notin EnvOps, InformerStep \/ EnvStep
  PROVE  FinalizerInv'
<1> USE DEF FinalizerInv
<1>1. ASSUME NEW r \in Rules, SyncRule(r) PROVE FinalizerInv'
  <2>1. /\ UNCHANGED <<rule, ruleCache, rw, nw>> /\ ruleInf'[r] = rule[r]
        /\ \A q \in Rules : q # r => ruleInf'[q] = ruleInf[q]
    BY <1>1 DEF SyncRule, TypeOK, RulesOK
  <2>2. PointerPart' /\ EnforcedImpliesFinalizer'
    BY <2>1 DEF PointerPart, EnforcedImpliesFinalizer
  <2>3. InformerPart'
    BY <2>1 DEF InformerPart, Protected, Live, Marked
  <2>4. AddingPart' /\ LivePart' /\ CleanupPart' /\ ReleasePart'
    BY <2>1 DEF WorkerPart, AddingPart, LivePart, CleanupPart, ReleasePart, Working, Protected,
                Enforceable, Marked
  <2>5. DeletingPart'
    BY <2>1 DEF WorkerPart, DeletingPart, Working, Live
  <2> QED
    BY <2>2, <2>3, <2>4, <2>5 DEF WorkerPart
<1>2. ASSUME UNCHANGED <<ruleVars, ruleCache, rw, nw>> PROVE FinalizerInv'
  <2>1. PointerPart'
    BY <1>2 DEF PointerPart
  <2>2. KeepsFinalizer
    BY <1>2, SameRules DEF KeepsFinalizer, RuleWorkerKeeps
  <2> QED
    BY <2>1, <2>2, ChainFrame DEF ChainInv
<1>3. ASSUME NEW n \in Nodes, SyncNode(n) \/ NodeEnvStep(n) PROVE FinalizerInv'
  BY <1>2, <1>3 DEF SyncNode, NodeEnvStep, ConditionChange, LabelChange, TaintChange, NodeTouch,
                    NodeCreate, NodeDelete, NodeEnv
<1>4. CASE Crash
  <2>1. /\ rw' = Idle /\ nw' = Idle /\ rule' = rule /\ ruleInf' = rule
        /\ \A r \in Rules : ruleCache'[r] = NoEntry
    BY <1>4 DEF Crash
  <2>2. PointerPart' /\ EnforcedImpliesFinalizer'
    BY <2>1, NoEntryUnknown DEF PointerPart, EnforcedImpliesFinalizer
  <2>3. InformerPart'
    BY <2>1 DEF InformerPart, Protected, Live, Marked
  <2>4. WorkerPart'
    BY <2>1 DEF WorkerPart, AddingPart, LivePart, DeletingPart, CleanupPart, ReleasePart, Working
  <2> QED
    BY <2>2, <2>3, <2>4
<1> QED
  BY <1>1, <1>3, <1>4, RuleEnvKeeps DEF InformerStep, EnvStep

LEMMA FinalizerHolds ==
  ASSUME "force" \notin EnvOps
  PROVE  Spec => []FinalizerInv
<1>1. Init => FinalizerInv
  <2> SUFFICES ASSUME Init PROVE FinalizerInv
    OBVIOUS
  <2>1. /\ rw = Idle /\ nw = Idle /\ ruleInf = rule /\ \A r \in Rules : ruleCache[r] = NoEntry
    BY DEF Init
  <2>2. InformerPart
    BY <2>1 DEF InformerPart, Protected, Live, Marked
  <2>3. WorkerPart /\ PointerPart
    BY <2>1 DEF WorkerPart, AddingPart, LivePart, DeletingPart, CleanupPart, ReleasePart, Working,
                PointerPart
  <2>4. EnforcedImpliesFinalizer
    BY <2>1, NoEntryUnknown DEF EnforcedImpliesFinalizer
  <2> QED
    BY <2>2, <2>3, <2>4 DEF FinalizerInv
<1>2. TypeOK /\ FinalizerInv /\ [Next]_vars => FinalizerInv'
  <2>1. ASSUME TypeOK, FinalizerInv, UNCHANGED vars PROVE FinalizerInv'
    <3>1. KeepsFinalizer
      BY <2>1, SameRules DEF vars, KeepsFinalizer, RuleWorkerKeeps
    <3>2. PointerPart'
      BY <2>1 DEF vars, FinalizerInv, PointerPart
    <3> QED
      BY <2>1, <3>1, <3>2, ChainFrame DEF ChainInv, FinalizerInv
  <2>2. ASSUME TypeOK, FinalizerInv, KeepsFinalizer, PointerPart' PROVE FinalizerInv'
    BY <2>2, ChainFrame DEF ChainInv, FinalizerInv
  <2>3. ASSUME TypeOK, FinalizerInv, RuleWorkerStep PROVE FinalizerInv'
    <3>1. ASSUME \/ CleanupList \/ (\E n \in Nodes : CleanupNode(n))
                 \/ processAllNodesForRule \/ processDryRun
                 \/ (\E n \in Nodes : RuleEvaluate(n)) \/ RuleMark
                 \/ updateRuleStatus \/ PruneList \/ cleanupDeletedNodes
          PROVE  FinalizerInv'
      <4>1. UNCHANGED <<ruleCache, nw>>
        BY <3>1 DEF CleanupList, CleanupNode, processAllNodesForRule, processDryRun,
                    RuleEvaluate, RuleMark, updateRuleStatus, PruneList, cleanupDeletedNodes
      <4>2. PointerPart'
        BY <2>3, <4>1 DEF FinalizerInv, PointerPart
      <4> QED
        BY <2>2, <2>3, <3>1, <4>2, RuleWorkerKeepsFinalizer
    <3> QED
      BY <2>3, <3>1, RuleGetFinalizer, EnsureFinalizerKeeps, UpdateRuleCacheKeeps,
         CleanupDoneKeeps, ReleaseFinalizerKeeps
      DEF RuleWorkerStep
  <2>4. ASSUME TypeOK, FinalizerInv, NodeWorkerStep PROVE FinalizerInv'
    BY <2>2, <2>4, NodeWorkerKeepsFinalizer DEF FinalizerInv
  <2> QED
    BY <2>1, <2>3, <2>4, ClusterKeeps DEF Next
<1> QED
  BY <1>1, <1>2, TypeCorrect, PTL DEF Spec

\* For every set of nodes, rules, specs and faults, and every environment in
\* which nobody strips a finalizer by hand: a rule the node worker may take from
\* the cache to enforce it exists and carries the finalizer, through restarts,
\* stale reads, failed patches, and rules deleted and recreated under the same
\* name.
THEOREM FinalizerProtects ==
  ASSUME "force" \notin EnvOps
  PROVE  Spec => []EnforcedImpliesFinalizer
<1>1. FinalizerInv => EnforcedImpliesFinalizer
  BY DEF FinalizerInv
<1> QED
  BY <1>1, FinalizerHolds, PTL
===============================================================================
