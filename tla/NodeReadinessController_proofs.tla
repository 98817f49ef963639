-------------------- MODULE NodeReadinessController_proofs --------------------
(***************************************************************************)
(* Theorems about NodeReadinessController, for every set of nodes, rules,  *)
(* specs and environment operations.                                       *)
(***************************************************************************)
EXTENDS NodeReadinessController, FiniteSetTheorems, TLAPS

-------------------------------------------------------------------------------
(* The objects.                                                            *)

\* The placeholder of an absent node is a node object.
LEMMA NoNodeType == NoNode \in NodeObj /\ NoNodes \in [Nodes -> NodeObj]
<1>1. AnyLabel \in Labels
  BY LabelsAssumption DEF AnyLabel
<1> QED
  BY <1>1 DEF NoNode, NoNodes, NodeObj

LEMMA NoDryRunType == NoDryRun \in DryRunResults
  BY DEF NoDryRun, DryRunResults

\* What the API server stores when a rule is created is a rule object.
LEMMA FreshRuleType ==
  ASSUME NEW s \in Specs, NEW d \in BOOLEAN
  PROVE  FreshRule(s, d) \in RuleObj
  BY NoDryRunType DEF FreshRule, RuleObj, NoEvals, TaintStatus

LEMMA NoRuleType == NoRule \in RuleObj
<1>1. AnySpec \in Specs
  BY SpecsAssumption DEF AnySpec
<1>2. FreshRule(AnySpec, FALSE) \in RuleObj
  BY <1>1, FreshRuleType
<1> QED
  BY <1>2 DEF NoRule, RuleObj

\* Adding or removing the finalizer leaves a rule object.
LEMMA FinalizerType ==
  ASSUME NEW o \in RuleObj, NEW b \in BOOLEAN
  PROVE  [o EXCEPT !.finalizer = b] \in RuleObj
  BY DEF RuleObj

\* So does a new generation, for a deletion or a dryRun change.
LEMMA GenerationType ==
  ASSUME NEW o \in RuleObj, NEW b \in BOOLEAN, NEW g \in Nat
  PROVE  /\ [o EXCEPT !.deleting = b, !.gen = g] \in RuleObj
         /\ [o EXCEPT !.dryRun = b, !.gen = g] \in RuleObj
  BY DEF RuleObj

LEMMA EntryOfType ==
  ASSUME NEW o \in RuleObj
  PROVE  EntryOf(o) \in CacheEntry
  BY DEF EntryOf, CacheEntry, RuleObj

LEMMA NoEntryType == NoEntry \in CacheEntry
  BY NoRuleType, EntryOfType DEF NoEntry, CacheEntry

\* Replacing the taints of a node leaves a node object.
LEMMA TaintsType ==
  ASSUME NEW o \in NodeObj, NEW ts \in SUBSET Taints
  PROVE  [o EXCEPT !.taints = ts] \in NodeObj
  BY DEF NodeObj

LEMMA DryRunResultsType ==
  ASSUME NEW spec \in Specs, NEW os \in [Nodes -> NodeObj]
  PROVE  dryRunResultsOf(spec, os) \in DryRunResults
<1> DEFINE affected == {n \in Nodes : ruleAppliesTo(spec, os[n])}
           add == {n \in affected : taintAction(spec, os[n]) = "add"}
           remove == {n \in affected : taintAction(spec, os[n]) = "remove"}
           risky == {n \in affected :
                       \E c \in DOMAIN spec.req : getConditionStatus(os[n], c) = "Unknown"}
<1>1. \A S : S \subseteq Nodes => Cardinality(S) \in Nat
  BY NodesAssumption, FS_Subset, FS_CardinalityType
<1>2. /\ affected \subseteq Nodes /\ add \subseteq Nodes
      /\ remove \subseteq Nodes /\ risky \subseteq Nodes
  OBVIOUS
<1>3. /\ Cardinality(affected) \in Nat /\ Cardinality(add) \in Nat
      /\ Cardinality(remove) \in Nat /\ Cardinality(risky) \in Nat
  BY <1>1, <1>2
<1> HIDE DEF affected, add, remove, risky
<1>4. dryRunResultsOf(spec, os) =
        [present |-> TRUE, affected |-> Cardinality(affected), add |-> Cardinality(add),
         remove |-> Cardinality(remove), risky |-> Cardinality(risky)]
  BY DEF dryRunResultsOf, affected, add, remove, risky
<1> QED
  BY <1>3, <1>4 DEF DryRunResults

LEMMA MergeDryType ==
  ASSUME NEW b \in DryRunResults, NEW m \in DryRunResults, NEW a \in DryRunResults
  PROVE  MergeDry(b, m, a) \in DryRunResults
  BY NoDryRunType DEF MergeDry, MergePlain, DryRunResults

-------------------------------------------------------------------------------
(* The shared operators of ControllerState.                                *)

LEMMA LagType ==
  ASSUME NEW l \in Lags, NEW p
  PROVE  LagAfter(l, p) \in Lags
  BY DEF LagAfter, Lags

LEMMA WriteNodeType ==
  ASSUME NodesOK, NEW n \in Nodes, NEW o \in NodeObj, WriteNode(n, o)
  PROVE  NodesOK'
<1>1. node' \in [Nodes -> NodeObj] /\ nodeInf' \in [Nodes -> NodeObj]
  BY DEF NodesOK, WriteNode
<1>2. nodeLag' \in [Nodes -> Lags]
  BY LagType DEF NodesOK, WriteNode
<1> QED
  BY <1>1, <1>2 DEF NodesOK

LEMMA WriteRuleType ==
  ASSUME RulesOK, NEW r \in Rules, NEW o \in RuleObj, WriteRule(r, o)
  PROVE  RulesOK'
<1>1. rule' \in [Rules -> RuleObj] /\ ruleInf' \in [Rules -> RuleObj]
  BY DEF RulesOK, WriteRule
<1>2. ruleLag' \in [Rules -> Lags]
  BY LagType DEF RulesOK, WriteRule
<1> QED
  BY <1>1, <1>2 DEF RulesOK

LEMMA PatchTaintsType ==
  ASSUME NodesOK, NEW n \in Nodes, NEW act, NEW spec \in Specs, NEW outcome,
         PatchTaints(n, act, spec, outcome)
  PROVE  NodesOK'
<1> DEFINE ts == IF act = "add" THEN nodeInf[n].taints \cup {spec.taint}
                                ELSE nodeInf[n].taints \ {spec.taint}
<1>1. CASE outcome = "patched"
  <2>1. ts \in SUBSET Taints
    BY SpecsAssumption DEF ValidSpec, NodesOK, NodeObj
  <2>2. [node[n] EXCEPT !.taints = ts] \in NodeObj
    BY <2>1, TaintsType DEF NodesOK
  <2>3. WriteNode(n, [node[n] EXCEPT !.taints = ts])
    BY <1>1 DEF PatchTaints
  <2> QED
    BY <2>2, <2>3, WriteNodeType
<1>2. CASE outcome # "patched"
  BY <1>2 DEF PatchTaints, NodesOK, nodeVars
<1> QED
  BY <1>1, <1>2

LEMMA LocalAfterType ==
  ASSUME NodesOK, NEW n \in Nodes, NEW spec \in Specs, NEW o \in NodeObj, NEW outcome
  PROVE  localAfter(n, spec, o, outcome) \in NodeObj
<1> DEFINE ts == IF taintAction(spec, o) = "add" THEN nodeInf[n].taints \cup {spec.taint}
                                                 ELSE nodeInf[n].taints \ {spec.taint}
<1>1. ts \in SUBSET Taints
  BY SpecsAssumption DEF ValidSpec, NodesOK, NodeObj
<1>2. [node[n] EXCEPT !.taints = ts] \in NodeObj
  BY <1>1, TaintsType DEF NodesOK
<1> QED
  BY <1>2 DEF localAfter

LEMMA MarkType ==
  ASSUME NodesOK, NEW n \in Nodes, NEW r \in Rules, markBootstrapCompleted(n, r)
  PROVE  NodesOK'
<1>1. [node[n] EXCEPT !.completed = @ \cup {r}] \in NodeObj
  BY DEF NodesOK, NodeObj
<1>2. CASE WriteNode(n, [node[n] EXCEPT !.completed = @ \cup {r}])
  BY <1>1, <1>2, WriteNodeType
<1>3. CASE UNCHANGED nodeVars
  BY <1>3 DEF NodesOK, nodeVars
<1> QED
  BY <1>2, <1>3 DEF markBootstrapCompleted

LEMMA SetRuleCacheType ==
  ASSUME CacheOK, NodeWorkerOK, NEW r \in Rules, NEW e \in CacheEntry, SetRuleCache(r, e)
  PROVE  CacheOK' /\ NodeWorkerOK'
<1>1. CacheOK'
  BY DEF CacheOK, SetRuleCache
<1>2. NodeWorkerOK'
  BY DEF NodeWorkerOK, SetRuleCache, NodeWorker
<1> QED
  BY <1>1, <1>2

-------------------------------------------------------------------------------
(* Type correctness, one lemma per action of the rule worker.              *)

LEMMA RuleGetType ==
  ASSUME TypeOK, NEW r \in Rules, RuleGet(r)
  PROVE  TypeOK'
<1> DEFINE o == ruleInf[r]
           selectorChanged == ruleCache[r].known /\ nodeSelectorChanged(o.spec, ruleCache[r].spec)
           pc == CASE ~o.deleting /\ ~o.finalizer -> "finalizer"
                   [] ~o.deleting /\ o.finalizer /\ selectorChanged -> "cleanupList"
                   [] OTHER -> "cache"
           old == IF ruleCache[r].known THEN ruleCache[r].spec ELSE o.spec
           w == [pc |-> pc, name |-> r, rule |-> o, old |-> old, snap |-> NoNodes,
                 todo |-> {}, cur |-> {}, errs |-> FALSE]
<1>1. NodesOK' /\ RulesOK' /\ QueuesOK' /\ budget' \in 0..MaxEnv
  BY DEF RuleGet, TypeOK, NodesOK, RulesOK, QueuesOK, nodeVars, ruleVars
<1>2. CASE ~o.exists /\ removeRuleFromCache(r) /\ RuleDone
  <2>1. CacheOK' /\ NodeWorkerOK'
    BY <1>2, NoEntryType, SetRuleCacheType DEF removeRuleFromCache, TypeOK
  <2>2. RuleWorkerOK'
    BY <1>2 DEF RuleDone, RuleWorkerOK
  <2> QED
    BY <1>1, <2>1, <2>2 DEF TypeOK
<1>3. CASE o.exists /\ rw' = w /\ UNCHANGED <<ruleCache, nw>>
  <2>1. CacheOK' /\ NodeWorkerOK'
    BY <1>3 DEF TypeOK, CacheOK, NodeWorkerOK
  <2>2. o \in RuleObj /\ old \in Specs
    BY DEF TypeOK, RulesOK, CacheOK, RuleObj, CacheEntry
  <2>3. pc \in RuleWorkerPCs
    BY DEF RuleWorkerPCs
  <2> HIDE DEF o, old, pc
  <2>4. w \in RuleWorker
    BY <2>2, <2>3, NoNodeType DEF RuleWorker
  <2>5. RuleWorkerOK'
    BY <1>3, <2>4 DEF RuleWorkerOK
  <2> QED
    BY <1>1, <2>1, <2>5 DEF TypeOK
<1> QED
  BY <1>2, <1>3 DEF RuleGet

\* A busy worker has a full record.
LEMMA BusyType ==
  ASSUME TypeOK
  PROVE  (rw # Idle => rw \in RuleWorker) /\ (nw # Idle => nw \in NodeWorker)
  BY DEF TypeOK, RuleWorkerOK, NodeWorkerOK

LEMMA RequeueType ==
  ASSUME TypeOK, NEW r \in Rules, RuleRequeue(r), UNCHANGED nodeQueue
  PROVE  RuleWorkerOK' /\ QueuesOK'
  BY DEF RuleRequeue, TypeOK, QueuesOK, RuleWorkerOK

LEMMA EnsureFinalizerType ==
  ASSUME TypeOK, ensureFinalizer
  PROVE  TypeOK'
<1> DEFINE r == rw.name
<1>1. r \in Rules
  BY BusyType DEF ensureFinalizer, RuleWorker
<1>2. RuleWorkerOK' /\ QueuesOK'
  BY <1>1, RequeueType DEF ensureFinalizer
<1>3. NodesOK' /\ CacheOK' /\ NodeWorkerOK' /\ budget' \in 0..MaxEnv
  BY DEF ensureFinalizer, TypeOK, NodesOK, CacheOK, NodeWorkerOK, nodeVars
<1>4. RulesOK'
  <2>1. CASE WriteRule(r, [rule[r] EXCEPT !.finalizer = TRUE])
    <3>0. rule[r] \in RuleObj
      BY <1>1 DEF TypeOK, RulesOK
    <3>1. [rule[r] EXCEPT !.finalizer = TRUE] \in RuleObj
      BY <3>0, FinalizerType
    <3> QED
      BY <1>1, <2>1, <3>1, WriteRuleType DEF TypeOK
  <2>2. CASE UNCHANGED ruleVars
    BY <2>2 DEF TypeOK, RulesOK, ruleVars
  <2> QED
    BY <2>1, <2>2 DEF ensureFinalizer
<1> QED
  BY <1>2, <1>3, <1>4 DEF TypeOK

LEMMA UpdateRuleCacheType ==
  ASSUME TypeOK, updateRuleCache
  PROVE  TypeOK'
<1>1. rw \in RuleWorker /\ rw.name \in Rules /\ rw.rule \in RuleObj
  BY BusyType DEF updateRuleCache, RuleWorker
<1>2. CacheOK' /\ NodeWorkerOK'
  BY <1>1, EntryOfType, SetRuleCacheType DEF updateRuleCache, TypeOK
<1>3. RuleWorkerOK'
  BY <1>1 DEF updateRuleCache, RuleWorkerOK, RuleWorker, RuleWorkerPCs
<1>4. NodesOK' /\ RulesOK' /\ QueuesOK' /\ budget' \in 0..MaxEnv
  BY DEF updateRuleCache, TypeOK, NodesOK, RulesOK, QueuesOK, nodeVars, ruleVars
<1> QED
  BY <1>2, <1>3, <1>4 DEF TypeOK

LEMMA CleanupListType ==
  ASSUME TypeOK, CleanupList
  PROVE  TypeOK'
<1>1. rw \in RuleWorker
  BY BusyType DEF CleanupList
<1>2. cleanupTargets \in SUBSET Nodes
  BY DEF cleanupTargets
<1>3. RuleWorkerOK'
  BY <1>1, <1>2 DEF CleanupList, RuleWorkerOK, RuleWorker, RuleWorkerPCs
<1> QED
  BY <1>3 DEF CleanupList, TypeOK, NodesOK, RulesOK, QueuesOK, CacheOK, NodeWorkerOK,
              nodeVars, ruleVars

LEMMA CleanupNodeType ==
  ASSUME TypeOK, NEW n \in Nodes, CleanupNode(n)
  PROVE  TypeOK'
<1>1. rw \in RuleWorker /\ rw.rule.spec \in Specs
  BY BusyType DEF CleanupNode, RuleWorker, RuleObj
<1>2. PICK outcome \in removeTaintBySpec(n, rw.rule.spec) :
        /\ PatchTaints(n, "remove", rw.rule.spec, outcome)
        /\ rw' = [rw EXCEPT !.todo = @ \ {n}, !.errs = @ \/ outcome = "error"]
  BY DEF CleanupNode
<1>3. NodesOK'
  BY <1>1, <1>2, PatchTaintsType DEF TypeOK
<1>4. RuleWorkerOK'
  BY <1>1, <1>2 DEF RuleWorkerOK, RuleWorker
<1> QED
  BY <1>3, <1>4 DEF CleanupNode, TypeOK, RulesOK, QueuesOK, CacheOK, NodeWorkerOK, ruleVars

LEMMA CleanupDoneType ==
  ASSUME TypeOK, CleanupDone
  PROVE  TypeOK'
<1>1. rw \in RuleWorker /\ rw.name \in Rules
  BY BusyType DEF CleanupDone, RuleWorker
<1>2. NodesOK' /\ RulesOK' /\ nodeQueue' = nodeQueue /\ budget' \in 0..MaxEnv
  BY DEF CleanupDone, TypeOK, NodesOK, RulesOK, nodeVars, ruleVars
<1>3. CASE RuleRequeue(rw.name) /\ UNCHANGED <<ruleCache, nw>>
  BY <1>1, <1>2, <1>3, RequeueType DEF TypeOK, CacheOK, NodeWorkerOK
<1>4. CASE removeRuleFromCache(rw.name) /\ rw' = [rw EXCEPT !.pc = "release"] /\ UNCHANGED ruleQueue
  <2>1. CacheOK' /\ NodeWorkerOK'
    BY <1>1, <1>4, NoEntryType, SetRuleCacheType DEF removeRuleFromCache, TypeOK
  <2>2. RuleWorkerOK'
    BY <1>1, <1>4 DEF RuleWorkerOK, RuleWorker, RuleWorkerPCs
  <2> QED
    BY <1>2, <1>4, <2>1, <2>2 DEF TypeOK, QueuesOK
<1>5. CASE rw' = [rw EXCEPT !.pc = "cache"] /\ UNCHANGED <<ruleQueue, ruleCache, nw>>
  <2>1. RuleWorkerOK'
    BY <1>1, <1>5 DEF RuleWorkerOK, RuleWorker, RuleWorkerPCs
  <2> QED
    BY <1>2, <1>5, <2>1 DEF TypeOK, QueuesOK, CacheOK, NodeWorkerOK
<1> QED
  BY <1>3, <1>4, <1>5 DEF CleanupDone

LEMMA ReleaseFinalizerType ==
  ASSUME TypeOK, releaseFinalizer
  PROVE  TypeOK'
<1> DEFINE r == rw.name
           o == IF rule[r].deleting THEN NoRule ELSE [rule[r] EXCEPT !.finalizer = FALSE]
<1>1. r \in Rules
  BY BusyType DEF releaseFinalizer, RuleWorker
<1>2. NodesOK' /\ CacheOK' /\ NodeWorkerOK' /\ nodeQueue' = nodeQueue /\ budget' \in 0..MaxEnv
  BY DEF releaseFinalizer, TypeOK, NodesOK, CacheOK, NodeWorkerOK, nodeVars
<1>3. CASE WriteRule(r, o) /\ RuleDone /\ UNCHANGED ruleQueue
  <2>1. o \in RuleObj
    BY <1>1, NoRuleType, FinalizerType DEF TypeOK, RulesOK
  <2>2. RulesOK'
    BY <1>1, <1>3, <2>1, WriteRuleType DEF TypeOK
  <2> QED
    BY <1>2, <1>3, <2>2 DEF TypeOK, QueuesOK, RuleDone, RuleWorkerOK
<1>4. CASE RuleRequeue(r) /\ UNCHANGED ruleVars
  BY <1>1, <1>2, <1>4, RequeueType DEF TypeOK, RulesOK, ruleVars
<1> QED
  BY <1>3, <1>4 DEF releaseFinalizer

LEMMA ProcessAllNodesType ==
  ASSUME TypeOK, processAllNodesForRule
  PROVE  TypeOK'
<1> DEFINE applied == {n \in Nodes : ruleAppliesTo(rw.rule.spec, nodeInf[n])}
           snap == [n \in Nodes |-> IF n \in applied THEN nodeInf[n] ELSE NoNode]
           o == [rw.rule EXCEPT !.applied = applied, !.observed = rw.rule.gen, !.dry = NoDryRun]
<1>1. rw \in RuleWorker /\ rw.rule \in RuleObj
  BY BusyType DEF processAllNodesForRule, RuleWorker
<1>2. applied \in SUBSET Nodes /\ snap \in [Nodes -> NodeObj]
  BY NoNodeType DEF TypeOK, NodesOK
<1>3. rw' = [rw EXCEPT !.pc = "eval", !.todo = applied, !.snap = snap, !.rule = o]
  BY <1>1 DEF processAllNodesForRule, RuleWorker
<1> HIDE DEF applied, snap
<1>4. o \in RuleObj
  BY <1>1, <1>2, NoDryRunType DEF RuleObj
<1> HIDE DEF o
<1>5. RuleWorkerOK'
  BY <1>1, <1>2, <1>3, <1>4 DEF RuleWorkerOK, RuleWorker, RuleWorkerPCs
<1> QED
  BY <1>5 DEF processAllNodesForRule, TypeOK, NodesOK, RulesOK, QueuesOK, CacheOK,
              NodeWorkerOK, nodeVars, ruleVars

LEMMA ProcessDryRunType ==
  ASSUME TypeOK, processDryRun
  PROVE  TypeOK'
<1> DEFINE dry == dryRunResultsOf(rw.rule.spec, nodeInf)
           o == [rw.rule EXCEPT !.observed = rw.rule.gen, !.dry = dry]
<1>1. rw \in RuleWorker /\ rw.rule \in RuleObj /\ rw.rule.spec \in Specs
  BY BusyType DEF processDryRun, RuleWorker, RuleObj
<1>2. dry \in DryRunResults
  BY <1>1, DryRunResultsType DEF TypeOK, NodesOK
<1>3. rw' = [rw EXCEPT !.pc = "status", !.rule = o]
  BY <1>1 DEF processDryRun, RuleWorker
<1> HIDE DEF dry
<1>4. o \in RuleObj
  BY <1>1, <1>2 DEF RuleObj
<1> HIDE DEF o
<1>5. RuleWorkerOK'
  BY <1>1, <1>3, <1>4 DEF RuleWorkerOK, RuleWorker, RuleWorkerPCs
<1> QED
  BY <1>5 DEF processDryRun, TypeOK, NodesOK, RulesOK, QueuesOK, CacheOK,
              NodeWorkerOK, nodeVars, ruleVars

LEMMA RuleEvaluateType ==
  ASSUME TypeOK, NEW n \in Nodes, RuleEvaluate(n)
  PROVE  TypeOK'
<1> DEFINE spec == rw.rule.spec
           o == rw.snap[n]
           local(x) == localAfter(n, spec, o, x)
           fail == [rw EXCEPT !.todo = @ \ {n}, !.snap[n] = NoNode, !.rule.failed = @ \cup {n}]
           pass(x) == [rw EXCEPT !.todo = @ \ {n}, !.snap[n] = NoNode,
                         !.rule.evals[n] = taintStatusOf(spec, local(x)),
                         !.pc = IF needsMark(spec, o, x) THEN "mark" ELSE "eval",
                         !.cur = IF needsMark(spec, o, x) THEN {n} ELSE {}]
<1>1. rw \in RuleWorker /\ rw.rule \in RuleObj /\ spec \in Specs
  BY BusyType DEF RuleEvaluate, RuleWorker, RuleObj
<1>2. PICK x \in evaluateOutcomes(n, spec, o) :
        /\ PatchTaints(n, taintAction(spec, o), spec, x)
        /\ rw' = IF x = "error" THEN fail ELSE pass(x)
  BY DEF RuleEvaluate
<1>3. NodesOK'
  BY <1>1, <1>2, PatchTaintsType DEF TypeOK
<1>4. fail \in RuleWorker
  BY <1>1, NoNodeType DEF RuleWorker, RuleObj
<1>5. pass(x) \in RuleWorker
  <2> DEFINE st == taintStatusOf(spec, local(x))
             pc == IF needsMark(spec, o, x) THEN "mark" ELSE "eval"
             cur == IF needsMark(spec, o, x) THEN {n} ELSE {}
  <2>1. st \in TaintStatus /\ pc \in RuleWorkerPCs /\ cur \in SUBSET Nodes
    BY DEF taintStatusOf, TaintStatus, RuleWorkerPCs
  <2> HIDE DEF st, pc, cur
  <2>2. [rw EXCEPT !.todo = @ \ {n}, !.snap[n] = NoNode, !.rule.evals[n] = st,
                   !.pc = pc, !.cur = cur] \in RuleWorker
    BY <1>1, <2>1, NoNodeType DEF RuleWorker, RuleObj
  <2> QED
    BY <2>2 DEF st, pc, cur
<1>6. RuleWorkerOK'
  BY <1>2, <1>4, <1>5 DEF RuleWorkerOK
<1> QED
  BY <1>3, <1>6 DEF RuleEvaluate, TypeOK, RulesOK, QueuesOK, CacheOK, NodeWorkerOK, ruleVars

LEMMA RuleMarkType ==
  ASSUME TypeOK, RuleMark
  PROVE  TypeOK'
<1>1. rw \in RuleWorker /\ rw.name \in Rules /\ rw.cur \in SUBSET Nodes
  BY BusyType DEF RuleMark, RuleWorker
<1>2. NodesOK'
  BY <1>1, MarkType DEF RuleMark, TypeOK
<1>3. RuleWorkerOK'
  BY <1>1 DEF RuleMark, RuleWorkerOK, RuleWorker, RuleWorkerPCs
<1> QED
  BY <1>2, <1>3 DEF RuleMark, TypeOK, RulesOK, QueuesOK, CacheOK, NodeWorkerOK, ruleVars

\* A status patch leaves a rule object, whatever stale copy it was computed from.
LEMMA PatchStatusType ==
  ASSUME RulesOK, NEW r \in Rules, NEW b \in RuleObj, NEW m \in RuleObj, PatchStatus(r, b, m)
  PROVE  RulesOK'
<1> DEFINE a == rule[r]
           applied == MergePlain(b.applied, m.applied, a.applied)
           observed == MergePlain(b.observed, m.observed, a.observed)
           dry == MergeDry(b.dry, m.dry, a.dry)
           patched(e, f) == [a EXCEPT !.evals = e, !.failed = f, !.applied = applied,
                                      !.observed = observed, !.dry = dry]
<1>1. a \in RuleObj
  BY DEF RulesOK
<1>2. PICK e \in MergeStamped(b.evals, m.evals, a.evals, NoEvals),
           f \in MergeStamped(b.failed, m.failed, a.failed, {}) : WriteRule(r, patched(e, f))
  BY <1>1 DEF PatchStatus, RuleObj
<1>3. e \in [Nodes -> TaintStatus] /\ f \in SUBSET Nodes
  BY <1>1 DEF MergeStamped, RuleObj
<1>4. applied \in SUBSET Nodes /\ observed \in Nat
  BY <1>1 DEF MergePlain, RuleObj
<1>5. dry \in DryRunResults
  BY <1>1, MergeDryType DEF RuleObj
<1> HIDE DEF applied, observed, dry
<1>6. patched(e, f) \in RuleObj
  BY <1>1, <1>3, <1>4, <1>5 DEF RuleObj
<1> QED
  BY <1>2, <1>6, WriteRuleType

LEMMA UpdateRuleStatusType ==
  ASSUME TypeOK, updateRuleStatus
  PROVE  TypeOK'
<1> DEFINE r == rw.name
<1>1. rw \in RuleWorker /\ r \in Rules /\ rw.rule \in RuleObj
  BY BusyType DEF updateRuleStatus, RuleWorker
<1>2. NodesOK' /\ CacheOK' /\ NodeWorkerOK' /\ nodeQueue' = nodeQueue /\ budget' \in 0..MaxEnv
  BY DEF updateRuleStatus, TypeOK, NodesOK, CacheOK, NodeWorkerOK, nodeVars
<1>3. CASE PatchStatus(r, ruleInf[r], rw.rule) /\ rw' = [rw EXCEPT !.pc = "prune"]
             /\ UNCHANGED ruleQueue
  <2>1. ruleInf[r] \in RuleObj
    BY <1>1 DEF TypeOK, RulesOK
  <2>2. RulesOK'
    BY <1>1, <1>3, <2>1, PatchStatusType DEF TypeOK
  <2>3. RuleWorkerOK'
    BY <1>1, <1>3 DEF RuleWorkerOK, RuleWorker, RuleWorkerPCs
  <2> QED
    BY <1>2, <1>3, <2>2, <2>3 DEF TypeOK, QueuesOK
<1>4. CASE RuleRequeue(r) /\ UNCHANGED ruleVars
  BY <1>1, <1>2, <1>4, RequeueType DEF TypeOK, RulesOK, ruleVars
<1> QED
  BY <1>3, <1>4 DEF updateRuleStatus

LEMMA PruneListType ==
  ASSUME TypeOK, PruneList
  PROVE  TypeOK'
<1>1. rw \in RuleWorker
  BY BusyType DEF PruneList
<1>2. {n \in Nodes : ~nodeInf[n].exists} \in SUBSET Nodes
  OBVIOUS
<1>3. RuleWorkerOK'
  BY <1>1, <1>2 DEF PruneList, RuleWorkerOK, RuleWorker, RuleWorkerPCs
<1> QED
  BY <1>3 DEF PruneList, TypeOK, NodesOK, RulesOK, QueuesOK, CacheOK, NodeWorkerOK, nodeVars, ruleVars

LEMMA CleanupDeletedNodesType ==
  ASSUME TypeOK, cleanupDeletedNodes
  PROVE  TypeOK'
<1> DEFINE r == rw.name
           evals == [n \in Nodes |-> IF n \in rw.todo THEN "none" ELSE ruleInf[r].evals[n]]
<1>1. r \in Rules
  BY BusyType DEF cleanupDeletedNodes, RuleWorker
<1>2. NodesOK' /\ CacheOK' /\ NodeWorkerOK' /\ nodeQueue' = nodeQueue /\ budget' \in 0..MaxEnv
  BY DEF cleanupDeletedNodes, TypeOK, NodesOK, CacheOK, NodeWorkerOK, nodeVars
<1>3. CASE WriteRule(r, [rule[r] EXCEPT !.evals = evals]) /\ RuleDone /\ UNCHANGED ruleQueue
  <2>1. ruleInf[r] \in RuleObj /\ rule[r] \in RuleObj
    BY <1>1 DEF TypeOK, RulesOK
  <2>2. evals \in [Nodes -> TaintStatus]
    BY <2>1 DEF RuleObj, TaintStatus
  <2> HIDE DEF evals
  <2>3. [rule[r] EXCEPT !.evals = evals] \in RuleObj
    BY <2>1, <2>2 DEF RuleObj
  <2>4. RulesOK'
    BY <1>1, <1>3, <2>3, WriteRuleType DEF TypeOK
  <2> QED
    BY <1>2, <1>3, <2>4 DEF TypeOK, QueuesOK, RuleDone, RuleWorkerOK
<1>4. CASE RuleDone /\ UNCHANGED <<ruleQueue, ruleVars>>
  BY <1>2, <1>4 DEF TypeOK, QueuesOK, RulesOK, RuleDone, RuleWorkerOK, ruleVars
<1>5. CASE RuleRequeue(r) /\ UNCHANGED ruleVars
  BY <1>1, <1>2, <1>5, RequeueType DEF TypeOK, RulesOK, ruleVars
<1> QED
  BY <1>3, <1>4, <1>5 DEF cleanupDeletedNodes

LEMMA RuleWorkerType ==
  ASSUME TypeOK, RuleWorkerStep
  PROVE  TypeOK'
  BY RuleGetType, EnsureFinalizerType, UpdateRuleCacheType, CleanupListType, CleanupNodeType,
     CleanupDoneType, ReleaseFinalizerType, ProcessAllNodesType, ProcessDryRunType,
     RuleEvaluateType, RuleMarkType, UpdateRuleStatusType, PruneListType,
     CleanupDeletedNodesType
  DEF RuleWorkerStep

-------------------------------------------------------------------------------
(* Type correctness of the node worker.                                    *)

LEMMA NodeGetType ==
  ASSUME TypeOK, NEW n \in Nodes, NodeGet(n)
  PROVE  TypeOK'
<1>1. [r \in Rules |-> NoEntry] \in [Rules -> CacheEntry] /\ nodeInf[n] \in NodeObj
  BY NoEntryType DEF TypeOK, NodesOK
<1>2. [pc |-> "rules", name |-> n, node |-> nodeInf[n], entry |-> [r \in Rules |-> NoEntry],
       live |-> {}, todo |-> {}, cur |-> {}] \in NodeWorker
  BY <1>1 DEF NodeWorker, NodeWorkerPCs
<1>3. NodeWorkerOK'
  BY <1>2 DEF NodeGet, NodeWorkerOK
<1> QED
  BY <1>3 DEF NodeGet, TypeOK, NodesOK, RulesOK, QueuesOK, CacheOK, RuleWorkerOK,
              nodeVars, ruleVars

LEMMA NextRuleType ==
  ASSUME NEW w \in NodeWorker
  PROVE  NextRule(w) \in NodeWorker \cup {Idle}
  BY DEF NextRule, NodeWorker, NodeWorkerPCs

LEMMA GetApplicableRulesType ==
  ASSUME TypeOK, getApplicableRulesForNode
  PROVE  TypeOK'
<1> DEFINE applicable == {r \in Rules : ruleCache[r].known /\ ruleAppliesTo(ruleCache[r].spec, nw.node)}
           entries == [r \in Rules |-> IF r \in applicable THEN ruleCache[r] ELSE NoEntry]
           w == [nw EXCEPT !.entry = entries, !.live = applicable, !.todo = applicable]
<1>1. nw \in NodeWorker
  BY BusyType DEF getApplicableRulesForNode
<1>2. applicable \in SUBSET Rules /\ entries \in [Rules -> CacheEntry]
  BY NoEntryType DEF TypeOK, CacheOK
<1>3. nw' = NextRule(w)
  BY DEF getApplicableRulesForNode
<1> HIDE DEF applicable, entries
<1>4. w \in NodeWorker
  BY <1>1, <1>2 DEF NodeWorker
<1>5. NodeWorkerOK'
  BY <1>3, <1>4, NextRuleType DEF NodeWorkerOK
<1> QED
  BY <1>5 DEF getApplicableRulesForNode, TypeOK, NodesOK, RulesOK, QueuesOK, CacheOK,
              RuleWorkerOK, nodeVars, ruleVars

LEMMA NodeNextRuleType ==
  ASSUME TypeOK, NEW r \in Rules, NodeNextRule(r)
  PROVE  TypeOK'
<1>1. nw \in NodeWorker
  BY BusyType DEF NodeNextRule
<1>2. [nw EXCEPT !.todo = @ \ {r}, !.entry[r] = NoEntry, !.live = @ \ {r}] \in NodeWorker
  BY <1>1, NoEntryType DEF NodeWorker
<1>3. [nw EXCEPT !.todo = @ \ {r}, !.cur = {r}, !.pc = "taint"] \in NodeWorker
  BY <1>1 DEF NodeWorker, NodeWorkerPCs
<1>4. NodeWorkerOK'
  BY <1>2, <1>3, NextRuleType DEF NodeNextRule, NodeWorkerOK
<1> QED
  BY <1>4 DEF NodeNextRule, TypeOK, NodesOK, RulesOK, QueuesOK, CacheOK, RuleWorkerOK,
              nodeVars, ruleVars

LEMMA UpdateEntryType ==
  ASSUME TypeOK, NEW r \in Rules, NEW e \in CacheEntry, NEW w \in NodeWorker, UpdateEntry(r, e, w)
  PROVE  NodeWorkerOK' /\ CacheOK'
<1>1. NodeWorkerOK'
  BY DEF UpdateEntry, NodeWorkerOK, NodeWorker
<1>2. CacheOK'
  BY DEF UpdateEntry, TypeOK, CacheOK
<1> QED
  BY <1>1, <1>2

LEMMA NodeEvaluateType ==
  ASSUME TypeOK, NEW r \in Rules, NodeEvaluate(r)
  PROVE  TypeOK'
<1> DEFINE n == nw.name
           e == nw.entry[r]
           o == nw.node
           local(x) == localAfter(n, e.spec, o, x)
           pc(x) == IF needsMark(e.spec, o, x) THEN "mark" ELSE "persist"
           fail == UpdateEntry(r, [e EXCEPT !.failed = @ \cup {n}], [nw EXCEPT !.pc = "persist"])
           pass(x) == UpdateEntry(r, [e EXCEPT !.evals[n] = taintStatusOf(e.spec, local(x))],
                                  [nw EXCEPT !.node = local(x), !.pc = pc(x)])
<1>1. /\ nw \in NodeWorker /\ n \in Nodes /\ o \in NodeObj
      /\ e \in CacheEntry
  BY BusyType DEF NodeEvaluate, NodeWorker
<1>2. e.spec \in Specs
  BY <1>1 DEF CacheEntry
<1>3. PICK x \in evaluateOutcomes(n, e.spec, o) :
        /\ PatchTaints(n, taintAction(e.spec, o), e.spec, x)
        /\ IF x = "error" THEN fail ELSE pass(x)
  BY DEF NodeEvaluate
<1>4. NodesOK'
  BY <1>1, <1>2, <1>3, PatchTaintsType DEF TypeOK
<1>5. ASSUME fail PROVE NodeWorkerOK' /\ CacheOK'
  <2>1. [e EXCEPT !.failed = @ \cup {n}] \in CacheEntry
    BY <1>1 DEF CacheEntry
  <2>2. [nw EXCEPT !.pc = "persist"] \in NodeWorker
    BY <1>1 DEF NodeWorker, NodeWorkerPCs
  <2> QED
    BY <1>5, <2>1, <2>2, UpdateEntryType
<1>6. ASSUME pass(x) PROVE NodeWorkerOK' /\ CacheOK'
  <2>1. taintStatusOf(e.spec, local(x)) \in TaintStatus
    BY DEF taintStatusOf, TaintStatus
  <2>2. [e EXCEPT !.evals[n] = taintStatusOf(e.spec, local(x))] \in CacheEntry
    BY <1>1, <2>1 DEF CacheEntry
  <2>3. local(x) \in NodeObj
    BY <1>1, <1>2, LocalAfterType DEF TypeOK
  <2>4. pc(x) \in NodeWorkerPCs
    BY DEF NodeWorkerPCs
  <2> HIDE DEF local, pc
  <2>5. [nw EXCEPT !.node = local(x), !.pc = pc(x)] \in NodeWorker
    BY <1>1, <2>3, <2>4 DEF NodeWorker
  <2> QED
    BY <1>6, <2>2, <2>5, UpdateEntryType
<1>7. NodeWorkerOK' /\ CacheOK'
  BY <1>3, <1>5, <1>6
<1> QED
  BY <1>4, <1>7 DEF NodeEvaluate, TypeOK, RulesOK, QueuesOK, RuleWorkerOK, ruleVars

LEMMA NodeMarkType ==
  ASSUME TypeOK, NodeMark
  PROVE  TypeOK'
<1>1. nw \in NodeWorker /\ nw.name \in Nodes /\ nw.cur \in SUBSET Rules
  BY BusyType DEF NodeMark, NodeWorker
<1>2. NodesOK'
  BY <1>1, MarkType DEF NodeMark, TypeOK
<1>3. NodeWorkerOK'
  BY <1>1 DEF NodeMark, NodeWorkerOK, NodeWorker, NodeWorkerPCs
<1> QED
  BY <1>2, <1>3 DEF NodeMark, TypeOK, RulesOK, QueuesOK, CacheOK, RuleWorkerOK, ruleVars

LEMMA PersistStatusType ==
  ASSUME RulesOK, NEW n \in Nodes, NEW r \in Rules, NEW b \in RuleObj, NEW e \in CacheEntry,
         PersistStatus(n, r, b, e)
  PROVE  RulesOK'
<1> DEFINE a == rule[r]
           es == [b.evals EXCEPT ![n] = e.evals[n]]
           fs == (b.failed \ {n}) \cup (e.failed \cap {n})
<1>1. PICK v \in MergeStamped(b.evals, es, a.evals, NoEvals),
           f \in MergeStamped(b.failed, fs, a.failed, {}) :
        WriteRule(r, [a EXCEPT !.evals = v, !.failed = f])
  BY DEF PersistStatus
<1>2. a \in RuleObj /\ es \in [Nodes -> TaintStatus] /\ fs \in SUBSET Nodes
  BY DEF RulesOK, RuleObj, CacheEntry
<1> HIDE DEF es, fs
<1>3. v \in [Nodes -> TaintStatus] /\ f \in SUBSET Nodes
  BY <1>2 DEF MergeStamped, RuleObj
<1>4. [a EXCEPT !.evals = v, !.failed = f] \in RuleObj
  BY <1>2, <1>3 DEF RuleObj
<1> QED
  BY <1>1, <1>4, WriteRuleType

LEMMA NodePersistType ==
  ASSUME TypeOK, NEW r \in Rules, NodePersist(r)
  PROVE  TypeOK'
<1> DEFINE n == nw.name
           e == nw.entry[r]
<1>1. nw \in NodeWorker /\ n \in Nodes /\ e \in CacheEntry
  BY BusyType DEF NodePersist, NodeWorker
<1>2. RulesOK'
  <2>1. CASE PersistStatus(n, r, ruleInf[r], e)
    <3>1. ruleInf[r] \in RuleObj
      BY DEF TypeOK, RulesOK
    <3> QED
      BY <1>1, <2>1, <3>1, PersistStatusType DEF TypeOK
  <2>2. CASE UNCHANGED ruleVars
    BY <2>2 DEF TypeOK, RulesOK, ruleVars
  <2> QED
    BY <2>1, <2>2 DEF NodePersist
<1>3. [nw EXCEPT !.entry[r] = NoEntry, !.live = @ \ {r}] \in NodeWorker
  BY <1>1, NoEntryType DEF NodeWorker
<1>4. NodeWorkerOK'
  BY <1>3, NextRuleType DEF NodePersist, NodeWorkerOK
<1> QED
  BY <1>2, <1>4 DEF NodePersist, TypeOK, NodesOK, QueuesOK, CacheOK, RuleWorkerOK, nodeVars

LEMMA NodeWorkerType ==
  ASSUME TypeOK, NodeWorkerStep
  PROVE  TypeOK'
  BY NodeGetType, GetApplicableRulesType, NodeNextRuleType, NodeEvaluateType, NodeMarkType,
     NodePersistType
  DEF NodeWorkerStep

-------------------------------------------------------------------------------
(* Type correctness of the cluster, and the theorem.                       *)

LEMMA InitType ==
  ASSUME Init
  PROVE  TypeOK
<1>1. InitRules \subseteq [Rules -> RuleObj]
  <2>1. {NoRule} \cup {FreshRule(s, d) : s \in Specs, d \in BOOLEAN} \subseteq RuleObj
    BY NoRuleType, FreshRuleType
  <2> QED
    BY <2>1, EnvAssumption
<1>2. NodesOK /\ RulesOK
  BY <1>1, EnvAssumption DEF Init, NodesOK, RulesOK, Lags
<1>3. CacheOK
  BY NoEntryType DEF Init, CacheOK
<1> QED
  BY <1>2, <1>3, EnvAssumption DEF Init, TypeOK, QueuesOK, RuleWorkerOK, NodeWorkerOK

LEMMA SyncType ==
  ASSUME TypeOK, InformerStep
  PROVE  TypeOK'
<1>1. ASSUME NEW n \in Nodes, SyncNode(n) PROVE TypeOK'
  BY <1>1 DEF SyncNode, TypeOK, NodesOK, RulesOK, QueuesOK, CacheOK, RuleWorkerOK,
              NodeWorkerOK, Lags, ruleVars
<1>2. ASSUME NEW r \in Rules, SyncRule(r) PROVE TypeOK'
  BY <1>2 DEF SyncRule, TypeOK, NodesOK, RulesOK, QueuesOK, CacheOK, RuleWorkerOK,
              NodeWorkerOK, Lags, nodeVars
<1> QED
  BY <1>1, <1>2 DEF InformerStep

LEMMA BudgetType ==
  ASSUME TypeOK, NEW op, Env(op)
  PROVE  budget' \in 0..MaxEnv
  BY EnvAssumption DEF TypeOK, Env

LEMMA NodeEnvType ==
  ASSUME TypeOK, NEW n \in Nodes, NEW o \in NodeObj, NodeEnv(n, o), NEW op, Env(op)
  PROVE  TypeOK'
<1>1. NodesOK'
  BY WriteNodeType DEF NodeEnv, TypeOK
<1> QED
  BY <1>1, BudgetType DEF NodeEnv, TypeOK, RulesOK, QueuesOK, CacheOK, RuleWorkerOK,
                          NodeWorkerOK, ruleVars

LEMMA RuleEnvType ==
  ASSUME TypeOK, NEW r \in Rules, NEW o \in RuleObj, RuleEnv(r, o), NEW op, Env(op)
  PROVE  TypeOK'
<1>1. RulesOK'
  BY WriteRuleType DEF RuleEnv, TypeOK
<1> QED
  BY <1>1, BudgetType DEF RuleEnv, TypeOK, NodesOK, QueuesOK, CacheOK, RuleWorkerOK,
                          NodeWorkerOK, nodeVars

LEMMA NodeEnvStepType ==
  ASSUME TypeOK, NEW n \in Nodes, NodeEnvStep(n)
  PROVE  TypeOK'
<1>0. node[n] \in NodeObj
  BY DEF TypeOK, NodesOK
<1>1. ASSUME NEW c \in Conds, NEW st \in ConditionStatus, ConditionChange(n, c, st) PROVE TypeOK'
  <2>1. [node[n] EXCEPT !.conds[c] = st] \in NodeObj
    BY <1>0 DEF NodeObj
  <2> QED
    BY <1>1, <2>1, NodeEnvType DEF ConditionChange
<1>2. ASSUME NEW l \in Labels, LabelChange(n, l) PROVE TypeOK'
  <2>1. [node[n] EXCEPT !.label = l] \in NodeObj
    BY <1>0 DEF NodeObj
  <2> QED
    BY <1>2, <2>1, NodeEnvType DEF LabelChange
<1>3. ASSUME NEW ts \in SUBSET Taints, TaintChange(n, ts) PROVE TypeOK'
  BY <1>0, <1>3, TaintsType, NodeEnvType DEF TaintChange
<1>4. CASE NodeTouch(n)
  <2>1. NodesOK'
    BY <1>4, LagType DEF NodeTouch, TypeOK, NodesOK
  <2> QED
    BY <1>4, <2>1, BudgetType DEF NodeTouch, TypeOK, RulesOK, QueuesOK, CacheOK, RuleWorkerOK,
                                  NodeWorkerOK, ruleVars
<1>5. ASSUME NEW l \in Labels, NEW ts \in SUBSET Taints, NodeCreate(n, l, ts) PROVE TypeOK'
  <2>1. [NoNode EXCEPT !.exists = TRUE, !.label = l, !.taints = ts] \in NodeObj
    BY NoNodeType DEF NodeObj
  <2> QED
    BY <1>5, <2>1, NodeEnvType DEF NodeCreate
<1>6. CASE NodeDelete(n)
  BY <1>6, NoNodeType, NodeEnvType DEF NodeDelete
<1> QED
  BY <1>1, <1>2, <1>3, <1>4, <1>5, <1>6 DEF NodeEnvStep

LEMMA RuleEnvStepType ==
  ASSUME TypeOK, NEW r \in Rules, RuleEnvStep(r)
  PROVE  TypeOK'
<1>0. rule[r] \in RuleObj
  BY DEF TypeOK, RulesOK
<1>a. rule[r].gen + 1 \in Nat /\ (~rule[r].dryRun) \in BOOLEAN
  BY <1>0 DEF RuleObj
<1>1. ASSUME NEW s \in Specs, NEW d \in BOOLEAN, RuleCreate(r, s, d) PROVE TypeOK'
  BY <1>1, FreshRuleType, RuleEnvType DEF RuleCreate
<1>2. CASE RuleDelete(r)
  <2> DEFINE o == IF rule[r].finalizer
                    THEN [rule[r] EXCEPT !.deleting = TRUE, !.gen = rule[r].gen + 1]
                    ELSE NoRule
  <2>1. o \in RuleObj
    BY <1>a, <1>0, NoRuleType, GenerationType
  <2>2. RuleEnv(r, o) /\ Env("ruleDelete")
    BY <1>2 DEF RuleDelete
  <2> QED
    BY <2>1, <2>2, RuleEnvType
<1>3. CASE DryRunToggle(r)
  <2>1. [rule[r] EXCEPT !.dryRun = ~rule[r].dryRun, !.gen = rule[r].gen + 1] \in RuleObj
    BY <1>a, <1>0, GenerationType
  <2> QED
    BY <1>3, <2>1, RuleEnvType DEF DryRunToggle
<1>4. CASE ForceFinalizer(r)
  BY <1>4, NoRuleType, RuleEnvType DEF ForceFinalizer
<1> QED
  BY <1>1, <1>2, <1>3, <1>4 DEF RuleEnvStep

LEMMA CrashType ==
  ASSUME TypeOK, Crash
  PROVE  TypeOK'
<1>1. NodesOK' /\ RulesOK' /\ QueuesOK'
  BY DEF Crash, TypeOK, NodesOK, RulesOK, QueuesOK, Lags
<1>2. CacheOK' /\ RuleWorkerOK' /\ NodeWorkerOK'
  BY NoEntryType DEF Crash, CacheOK, RuleWorkerOK, NodeWorkerOK
<1> QED
  BY <1>1, <1>2, BudgetType DEF Crash, TypeOK

LEMMA StutterType ==
  ASSUME TypeOK, UNCHANGED vars
  PROVE  TypeOK'
  BY DEF TypeOK, NodesOK, RulesOK, QueuesOK, CacheOK, RuleWorkerOK, NodeWorkerOK,
         vars, nodeVars, ruleVars

LEMMA NextType ==
  ASSUME TypeOK, [Next]_vars
  PROVE  TypeOK'
  BY RuleWorkerType, NodeWorkerType, SyncType, NodeEnvStepType, RuleEnvStepType, CrashType,
     StutterType
  DEF Next, EnvStep

\* The state of the controller and of the cluster keeps its shape.
THEOREM TypeCorrect == Spec => []TypeOK
<1>1. Init => TypeOK
  BY InitType
<1>2. TypeOK /\ [Next]_vars => TypeOK'
  BY NextType
<1> QED
  BY <1>1, <1>2, PTL DEF Spec

-------------------------------------------------------------------------------
(* OnlyOwnTaint.  A taint patch replaces the list by one computed from the *)
(* informer's copy.  It is harmless because it only succeeds when the lag  *)
(* is "synced", and then the copy is the stored object.                    *)

InformerCoherent == \A n \in Nodes : nodeLag[n] = "synced" => nodeInf[n] = node[n]

\* What OnlyOwnTaint allows a step to do to the nodes.
OwnStep ==
  \A n \in Nodes :
    /\ node'[n].taints \ OwnTaints = node[n].taints \ OwnTaints
    /\ node'[n].exists = node[n].exists
    /\ node'[n].conds = node[n].conds
    /\ node'[n].label = node[n].label
    /\ node[n].completed \subseteq node'[n].completed

LEMMA WriteNodeCoherent ==
  ASSUME NodesOK, InformerCoherent, NEW n \in Nodes, NEW o, WriteNode(n, o)
  PROVE  InformerCoherent'
<1> SUFFICES ASSUME NEW m \in Nodes, nodeLag'[m] = "synced"
             PROVE  nodeInf'[m] = node'[m]
  BY DEF InformerCoherent
<1>1. nodeInf' = nodeInf
  BY DEF WriteNode
<1>2. CASE m # n
  BY <1>1, <1>2 DEF WriteNode, NodesOK, InformerCoherent
<1>3. CASE m = n /\ o = node[n]
  BY <1>1, <1>3 DEF WriteNode, NodesOK, InformerCoherent
<1>4. CASE m = n /\ o # node[n]
  <2>1. nodeLag'[n] = LagAfter(nodeLag[n], nodePredicate(node[n], o))
    BY <1>4 DEF WriteNode, NodesOK
  <2> QED
    BY <1>4, <2>1 DEF LagAfter
<1> QED
  BY <1>2, <1>3, <1>4

LEMMA PatchTaintsCoherent ==
  ASSUME NodesOK, InformerCoherent, NEW n \in Nodes, NEW act, NEW spec, NEW x,
         PatchTaints(n, act, spec, x)
  PROVE  InformerCoherent'
<1>1. CASE x = "patched"
  BY <1>1, WriteNodeCoherent DEF PatchTaints
<1>2. CASE x # "patched"
  BY <1>2 DEF PatchTaints, InformerCoherent, nodeVars
<1> QED
  BY <1>1, <1>2

LEMMA MarkCoherent ==
  ASSUME NodesOK, InformerCoherent, NEW n \in Nodes, NEW r \in Rules, markBootstrapCompleted(n, r)
  PROVE  InformerCoherent'
<1>1. CASE WriteNode(n, [node[n] EXCEPT !.completed = @ \cup {r}])
  BY <1>1, WriteNodeCoherent
<1>2. CASE UNCHANGED nodeVars
  BY <1>2 DEF InformerCoherent, nodeVars
<1> QED
  BY <1>1, <1>2 DEF markBootstrapCompleted

\* The optimistic lock: a patch that succeeds was computed from the stored node.
LEMMA LockHolds ==
  ASSUME NEW n \in Nodes, NEW spec, NEW o,
         NEW x \in removeTaintBySpec(n, spec) \cup evaluateOutcomes(n, spec, o), x = "patched"
  PROVE  nodeLag[n] = "synced"
<1>1. x \in lockedPatchOutcomes(n)
  BY DEF removeTaintBySpec, addTaintBySpec, evaluateOutcomes
<1> QED
  BY <1>1 DEF lockedPatchOutcomes

LEMMA PatchTaintsOwn ==
  ASSUME NodesOK, InformerCoherent, NEW n \in Nodes, NEW act, NEW spec, NEW x,
         x = "patched" => nodeLag[n] = "synced",
         spec.taint \in OwnTaints, PatchTaints(n, act, spec, x)
  PROVE  OwnStep
<1>1. CASE x = "patched"
  <2> DEFINE ts == IF act = "add" THEN nodeInf[n].taints \cup {spec.taint}
                                  ELSE nodeInf[n].taints \ {spec.taint}
  <2>1. nodeInf[n].taints = node[n].taints
    BY <1>1 DEF InformerCoherent
  <2>2. ts \ OwnTaints = node[n].taints \ OwnTaints
    BY <2>1
  <2>3. node' = [node EXCEPT ![n] = [node[n] EXCEPT !.taints = ts]]
    BY <1>1 DEF PatchTaints, WriteNode
  <2> HIDE DEF ts
  <2>4. node'[n] = [node[n] EXCEPT !.taints = ts]
    BY <2>3 DEF NodesOK
  <2>5. /\ node'[n].taints = ts /\ node'[n].exists = node[n].exists
        /\ node'[n].conds = node[n].conds /\ node'[n].label = node[n].label
        /\ node'[n].completed = node[n].completed
    BY <2>4 DEF NodesOK, NodeObj
  <2>6. \A m \in Nodes : m # n => node'[m] = node[m]
    BY <2>3 DEF NodesOK
  <2> QED
    BY <2>2, <2>5, <2>6 DEF OwnStep
<1>2. CASE x # "patched"
  BY <1>2 DEF PatchTaints, OwnStep, nodeVars
<1> QED
  BY <1>1, <1>2

LEMMA MarkOwn ==
  ASSUME NodesOK, NEW n \in Nodes, NEW r \in Rules, markBootstrapCompleted(n, r)
  PROVE  OwnStep
<1>1. CASE WriteNode(n, [node[n] EXCEPT !.completed = @ \cup {r}])
  <2>1. node' = [node EXCEPT ![n] = [node[n] EXCEPT !.completed = @ \cup {r}]]
    BY <1>1 DEF WriteNode
  <2>2. node'[n] = [node[n] EXCEPT !.completed = @ \cup {r}]
    BY <2>1 DEF NodesOK
  <2>3. /\ node'[n].taints = node[n].taints /\ node'[n].exists = node[n].exists
        /\ node'[n].conds = node[n].conds /\ node'[n].label = node[n].label
        /\ node'[n].completed = node[n].completed \cup {r}
    BY <2>2 DEF NodesOK, NodeObj
  <2>4. \A m \in Nodes : m # n => node'[m] = node[m]
    BY <2>1 DEF NodesOK
  <2> QED
    BY <2>3, <2>4 DEF OwnStep
<1>2. CASE UNCHANGED nodeVars
  BY <1>2 DEF OwnStep, nodeVars
<1> QED
  BY <1>1, <1>2 DEF markBootstrapCompleted

\* Every worker step keeps the informers coherent and touches only its own taint.
LEMMA WorkerOwn ==
  ASSUME TypeOK, InformerCoherent, RuleWorkerStep \/ NodeWorkerStep
  PROVE  InformerCoherent' /\ OwnStep
<1>0. NodesOK
  BY DEF TypeOK
<1>1. ASSUME UNCHANGED nodeVars PROVE InformerCoherent' /\ OwnStep
  BY <1>1 DEF InformerCoherent, OwnStep, nodeVars
<1>2. ASSUME NEW n \in Nodes, CleanupNode(n) PROVE InformerCoherent' /\ OwnStep
  <2> DEFINE spec == rw.rule.spec
  <2>1. PICK x \in removeTaintBySpec(n, spec) : PatchTaints(n, "remove", spec, x)
    BY <1>2 DEF CleanupNode
  <2>2. x = "patched" => nodeLag[n] = "synced"
    BY LockHolds
  <2>3. spec.taint \in OwnTaints
    BY <1>2 DEF OwnTaints, CleanupNode
  <2> HIDE DEF spec
  <2> QED
    BY <1>0, <2>1, <2>2, <2>3, PatchTaintsCoherent, PatchTaintsOwn
<1>3. ASSUME NEW n \in Nodes, RuleEvaluate(n) PROVE InformerCoherent' /\ OwnStep
  <2> DEFINE spec == rw.rule.spec
             o == rw.snap[n]
  <2>1. PICK x \in evaluateOutcomes(n, spec, o) : PatchTaints(n, taintAction(spec, o), spec, x)
    BY <1>3 DEF RuleEvaluate
  <2>2. x = "patched" => nodeLag[n] = "synced"
    BY LockHolds
  <2>3. spec.taint \in OwnTaints
    BY <1>3 DEF OwnTaints, RuleEvaluate
  <2> HIDE DEF spec, o
  <2> QED
    BY <1>0, <2>1, <2>2, <2>3, PatchTaintsCoherent, PatchTaintsOwn
<1>4. ASSUME NEW r \in Rules, NodeEvaluate(r) PROVE InformerCoherent' /\ OwnStep
  <2> DEFINE n == nw.name
             spec == nw.entry[r].spec
             o == nw.node
  <2>0. n \in Nodes
    BY <1>4, BusyType DEF NodeEvaluate, NodeWorker
  <2>1. PICK x \in evaluateOutcomes(n, spec, o) : PatchTaints(n, taintAction(spec, o), spec, x)
    BY <1>4 DEF NodeEvaluate
  <2>2. x = "patched" => nodeLag[n] = "synced"
    BY <2>0, LockHolds
  <2>3. spec.taint \in OwnTaints
    BY <1>4 DEF OwnTaints, NodeEvaluate
  <2> HIDE DEF n, spec, o
  <2> QED
    BY <1>0, <2>0, <2>1, <2>2, <2>3, PatchTaintsCoherent, PatchTaintsOwn
<1>5. CASE RuleMark
  <2>1. rw.name \in Rules /\ rw.cur \in SUBSET Nodes
    BY <1>5, BusyType DEF RuleMark, RuleWorker
  <2> QED
    BY <1>0, <1>5, <2>1, MarkCoherent, MarkOwn DEF RuleMark
<1>6. CASE NodeMark
  <2>1. nw.name \in Nodes /\ nw.cur \in SUBSET Rules
    BY <1>6, BusyType DEF NodeMark, NodeWorker
  <2> QED
    BY <1>0, <1>6, <2>1, MarkCoherent, MarkOwn DEF NodeMark
<1>7. CASE RuleWorkerStep
  BY <1>1, <1>2, <1>3, <1>5, <1>7
  DEF RuleWorkerStep, RuleGet, ensureFinalizer, updateRuleCache, CleanupList, CleanupDone,
      releaseFinalizer, processAllNodesForRule, processDryRun, updateRuleStatus,
      PruneList, cleanupDeletedNodes
<1>8. CASE NodeWorkerStep
  BY <1>1, <1>4, <1>6, <1>8
  DEF NodeWorkerStep, NodeGet, getApplicableRulesForNode, NodeNextRule, NodePersist
<1> QED
  BY <1>7, <1>8

LEMMA NodeEnvCoherent ==
  ASSUME TypeOK, InformerCoherent, NEW n \in Nodes, NodeEnvStep(n)
  PROVE  InformerCoherent'
<1>1. ASSUME NEW o, NodeEnv(n, o) PROVE InformerCoherent'
  BY <1>1, WriteNodeCoherent DEF NodeEnv, TypeOK
<1>2. CASE NodeTouch(n)
  <2>1. nodeLag'[n] # "synced"
    BY <1>2 DEF NodeTouch, LagAfter, TypeOK, NodesOK
  <2>2. \A m \in Nodes : m # n => nodeLag'[m] = nodeLag[m]
    BY <1>2 DEF NodeTouch, TypeOK, NodesOK
  <2> QED
    BY <1>2, <2>1, <2>2 DEF NodeTouch, InformerCoherent
<1> QED
  BY <1>1, <1>2 DEF NodeEnvStep, ConditionChange, LabelChange, TaintChange, NodeCreate, NodeDelete

LEMMA ClusterCoherent ==
  ASSUME TypeOK, InformerCoherent, InformerStep \/ EnvStep
  PROVE  InformerCoherent'
<1>1. ASSUME NEW n \in Nodes, SyncNode(n) PROVE InformerCoherent'
  BY <1>1 DEF SyncNode, InformerCoherent, TypeOK, NodesOK
<1>2. ASSUME UNCHANGED nodeVars PROVE InformerCoherent'
  BY <1>2 DEF InformerCoherent, nodeVars
<1>3. ASSUME NEW r \in Rules, SyncRule(r) \/ RuleEnvStep(r) PROVE InformerCoherent'
  BY <1>2, <1>3 DEF SyncRule, RuleEnvStep, RuleCreate, RuleDelete, DryRunToggle, ForceFinalizer,
                    RuleEnv
<1>4. CASE Crash
  BY <1>4 DEF Crash, InformerCoherent
<1> QED
  BY <1>1, <1>3, <1>4, NodeEnvCoherent DEF InformerStep, EnvStep

\* An informer step changes no node, an environment step spends budget.
LEMMA ClusterOwn ==
  ASSUME TypeOK, InformerStep \/ EnvStep, budget' = budget
  PROVE  OwnStep
<1>1. ASSUME NEW op, Env(op) PROVE FALSE
  BY <1>1, EnvAssumption DEF Env, TypeOK
<1>2. InformerStep
  BY <1>1 DEF EnvStep, NodeEnvStep, RuleEnvStep, Crash, ConditionChange, LabelChange, TaintChange,
              NodeTouch, NodeCreate, NodeDelete, RuleCreate, RuleDelete, DryRunToggle,
              ForceFinalizer
<1>3. node' = node
  BY <1>2 DEF InformerStep, SyncNode, SyncRule, nodeVars
<1> QED
  BY <1>3 DEF OwnStep

\* Whatever is done to a node meanwhile, and whichever patches fail, the two
\* workers change no taint but that of the rule at hand, no condition and no
\* label, and remove no bootstrap marker: the optimistic lock of addTaintBySpec
\* and removeTaintBySpec suffices although both send a whole list.
THEOREM OwnTaintOnly == Spec => OnlyOwnTaint
<1> DEFINE Inv == TypeOK /\ InformerCoherent
<1>1. Init => InformerCoherent
  BY DEF Init, InformerCoherent
<1>2. Inv /\ [Next]_vars => InformerCoherent'
  <2>1. ASSUME Inv, UNCHANGED vars PROVE InformerCoherent'
    BY <2>1 DEF InformerCoherent, vars, nodeVars
  <2> QED
    BY <2>1, WorkerOwn, ClusterCoherent DEF Next
<1>3. Inv /\ [Next]_vars =>
        [budget' = budget =>
           \A n \in Nodes :
             /\ node'[n].taints \ OwnTaints = node[n].taints \ OwnTaints
             /\ node'[n].exists = node[n].exists
             /\ node'[n].conds = node[n].conds
             /\ node'[n].label = node[n].label
             /\ node[n].completed \subseteq node'[n].completed]_vars
  <2> SUFFICES ASSUME Inv, Next, budget' = budget PROVE OwnStep
    BY DEF OwnStep
  <2> QED
    BY WorkerOwn, ClusterOwn DEF Next
<1> QED
  BY <1>1, <1>2, <1>3, TypeCorrect, PTL DEF Spec, OnlyOwnTaint
===============================================================================
