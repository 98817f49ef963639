---------------------------- MODULE Forgotten_proofs ----------------------------
(***************************************************************************)
(* No generation of a rule is forgotten, for every instance in which       *)
(* nobody strips finalizers by hand.                                       *)
(*                                                                         *)
(* NoForgottenRule is about a rule that has nobody's attention any more.   *)
(* Why its last pass left it processed takes the history of that pass:     *)
(* with no event to come and no request queued, the pass worked on the     *)
(* stored generation (AgreePart), and its status patch, which leaves out   *)
(* what the lagging copy already shows, did store that generation          *)
(* (ObservedPart), since passes report generations in increasing order     *)
(* (StoredPart, InformerGens, PassGens).                                   *)
(***************************************************************************)
EXTENDS Finalizer_proofs

Pending(r) == ruleLag[r] = "event" \/ r \in ruleQueue

\* The worker is at r, past the finalizer, on the live path or the selector's.
LivePass(r) == Working(r) /\ rw.pc # "finalizer" /\ ~rw.rule.deleting

\* The same version, as far as the watch predicate tells versions apart.
Agree(o, p) == o.exists = p.exists /\ o.deleting = p.deleting /\ o.gen = p.gen

AgreePart ==
  \A r \in Rules : /\ ruleLag[r] # "event" => Agree(ruleInf[r], rule[r])
                   /\ Working(r) /\ ~Pending(r) => Agree(rw.rule, rule[r])

StoredPart == \A r \in Rules : rule[r].observed <= rule[r].gen

InformerGens ==
  \A r \in Rules : Live(ruleInf[r]) => /\ ruleInf[r].observed <= ruleInf[r].gen
                                       /\ rule[r].observed <= ruleInf[r].gen
                                       /\ ruleInf[r].gen <= rule[r].gen

PassGens ==
  \A r \in Rules : LivePass(r) => /\ ruleInf[r].observed <= rw.rule.gen
                                  /\ rule[r].observed <= rw.rule.gen
                                  /\ rw.rule.gen <= rule[r].gen
                                  /\ Live(ruleInf[r]) => rw.rule.gen <= ruleInf[r].gen

\* A status patch that leaves observedGeneration out leaves the right one.
ObservedPart ==
  \A r \in Rules : ruleLag[r] # "event" /\ ruleInf[r].observed = rule[r].gen
                     => rule[r].observed = rule[r].gen

PrunePCs == {"prune", "drop"}

ReportPCs == {"eval", "mark", "status"} \cup PrunePCs

PassPart ==
  rw # Idle => /\ rw.pc \in ReportPCs \cup {"list"} => ~rw.rule.deleting
               /\ rw.pc \in ReportPCs => rw.rule.observed = rw.rule.gen

PrunePart ==
  \A r \in Rules : Working(r) /\ rw.pc \in PrunePCs /\ ~Pending(r)
                     => rule[r].observed = rule[r].gen

GensPart == StoredPart /\ InformerGens /\ PassGens /\ ObservedPart

ForgottenInv == AgreePart /\ GensPart /\ PassPart /\ PrunePart /\ NoForgottenRule

-------------------------------------------------------------------------------
(* Steps that leave generations alone.                                     *)

SameVersion(o, p) == /\ Agree(o, p) /\ o.observed = p.observed
                     /\ p.finalizer => o.finalizer

\* The rule worker stays, goes on with the version it read, or ends its pass
\* with the request back on the queue, or after the pruning.
PassContinues ==
  \/ rw' = rw
  \/ /\ rw # Idle /\ rw' # Idle
     /\ rw'.name = rw.name /\ Agree(rw'.rule, rw.rule)
     /\ rw.pc # "finalizer" /\ (rw'.pc \in PrunePCs => rw.pc \in PrunePCs)
     /\ PassPart'
  \/ /\ rw # Idle /\ rw' = Idle
     /\ rw.pc \in PrunePCs \/ ruleLag'[rw.name] = "event" \/ rw.name \in ruleQueue'

RulesKeep ==
  /\ \A r \in Rules : /\ SameVersion(rule'[r], rule[r])
                      /\ ruleLag'[r] = "event" <=> ruleLag[r] = "event"
  /\ ruleInf' = ruleInf

KeepsGens == RulesKeep /\ ruleQueue \subseteq ruleQueue' /\ PassContinues

\* After the pruning a rule without attention is processed.
LEMMA PruneEnds ==
  ASSUME FinalizerInv, ForgottenInv, NEW r \in Rules, Working(r), rw.pc \in PrunePCs, ~Pending(r)
  PROVE  rule[r].finalizer /\ ~rule[r].deleting /\ rule[r].observed = rule[r].gen
<1>1. ~rw.rule.deleting
  BY DEF ForgottenInv, PassPart, ReportPCs, PrunePCs, Working
<1>2. Protected(r)
  BY <1>1 DEF FinalizerInv, WorkerPart, LivePart, PrunePCs
<1>3. ~rule[r].deleting
  BY <1>1 DEF ForgottenInv, AgreePart, Agree
<1> QED
  BY <1>2, <1>3 DEF Protected, ForgottenInv, PrunePart

LEMMA GensFrame ==
  ASSUME TypeOK, FinalizerInv, ForgottenInv, KeepsGens
  PROVE  ForgottenInv'
<1>0. \A r \in Rules : Pending(r) => Pending(r)'
  BY DEF KeepsGens, RulesKeep, Pending
<1>1. \A r \in Rules : /\ rule'[r].exists = rule[r].exists /\ rule'[r].deleting = rule[r].deleting
                       /\ rule'[r].gen = rule[r].gen /\ rule'[r].observed = rule[r].observed
                       /\ ruleLag'[r] = "event" <=> ruleLag[r] = "event"
  BY DEF KeepsGens, RulesKeep, SameVersion, Agree
<1>2. ruleInf' = ruleInf
  BY DEF KeepsGens, RulesKeep
<1>3. \A r \in Rules : Working(r)' => Working(r) /\ Agree(rw'.rule, rw.rule)
  BY DEF KeepsGens, PassContinues, Working, Agree
<1>4. \A r \in Rules : LivePass(r)' => LivePass(r)
  BY DEF KeepsGens, PassContinues, Working, Agree, LivePass
<1>5. PassPart'
  BY DEF KeepsGens, PassContinues, ForgottenInv, PassPart
<1>6. AgreePart'
  <2> SUFFICES ASSUME NEW r \in Rules
               PROVE  /\ ruleLag'[r] # "event" => Agree(ruleInf'[r], rule'[r])
                      /\ Working(r)' /\ ~Pending(r)' => Agree(rw'.rule, rule'[r])
    BY DEF AgreePart
  <2>1. ASSUME ruleLag'[r] # "event" PROVE Agree(ruleInf'[r], rule'[r])
    <3>1. Agree(ruleInf[r], rule[r])
      BY <1>1, <2>1 DEF ForgottenInv, AgreePart
    <3> QED
      BY <1>1, <1>2, <3>1 DEF Agree
  <2>2. ASSUME Working(r)', ~Pending(r)' PROVE Agree(rw'.rule, rule'[r])
    <3>1. Agree(rw.rule, rule[r])
      BY <1>0, <1>3, <2>2 DEF ForgottenInv, AgreePart
    <3> QED
      BY <1>1, <1>3, <2>2, <3>1 DEF Agree
  <2> QED
    BY <2>1, <2>2
<1>7. StoredPart' /\ InformerGens' /\ ObservedPart'
  BY <1>1, <1>2 DEF ForgottenInv, GensPart, StoredPart, InformerGens, ObservedPart, Agree, Live
<1>8. PassGens'
  BY <1>1, <1>2, <1>3, <1>4 DEF ForgottenInv, GensPart, PassGens, Agree, Live, LivePass
<1>9. PrunePart'
  <2> SUFFICES ASSUME NEW r \in Rules, Working(r)', rw'.pc \in PrunePCs, ~Pending(r)'
               PROVE  rule'[r].observed = rule'[r].gen
    BY DEF PrunePart
  <2>1. Working(r) /\ rw.pc \in PrunePCs /\ ~Pending(r)
    BY <1>0, <1>3 DEF KeepsGens, PassContinues, Working
  <2> QED
    BY <1>1, <2>1 DEF ForgottenInv, PrunePart, Agree
<1>10. NoForgottenRule'
  <2> SUFFICES ASSUME NEW r \in Rules, rule'[r].exists, ~Pending(r)', ~Working(r)'
               PROVE  rule'[r].finalizer /\ ~rule'[r].deleting /\ rule'[r].observed = rule'[r].gen
    BY DEF NoForgottenRule, Pending, Working
  <2>1. rule[r].exists /\ ~Pending(r)
    BY <1>0, <1>1 DEF Agree
  <2>2. CASE ~Working(r)
    <3>1. rule[r].finalizer /\ ~rule[r].deleting /\ rule[r].observed = rule[r].gen
      BY <2>1, <2>2 DEF ForgottenInv, NoForgottenRule, Pending, Working
    <3> QED
      BY <1>1, <3>1 DEF Agree, KeepsGens, RulesKeep, SameVersion
  <2>3. CASE Working(r)
    <3>1. rw.pc \in PrunePCs
      BY <2>3 DEF KeepsGens, PassContinues, Working, Pending
    <3>2. rule[r].finalizer /\ ~rule[r].deleting /\ rule[r].observed = rule[r].gen
      BY <2>1, <2>3, <3>1, PruneEnds
    <3> QED
      BY <1>1, <3>2 DEF Agree, KeepsGens, RulesKeep, SameVersion
  <2> QED
    BY <2>2, <2>3
<1> QED
  BY <1>5, <1>6, <1>7, <1>8, <1>9, <1>10 DEF ForgottenInv, GensPart

LEMMA SameRulesKeep ==
  ASSUME UNCHANGED ruleVars
  PROVE  RulesKeep
  BY DEF ruleVars, RulesKeep, SameVersion, Agree

\* A write that the watch predicate does not pass.
LEMMA QuietWriteKeeps ==
  ASSUME RulesOK, NEW r \in Rules, NEW o, SameVersion(o, rule[r]), WriteRule(r, o)
  PROVE  RulesKeep
<1>1. ~rulePredicate(rule[r], o)
  BY DEF SameVersion, Agree, rulePredicate
<1>2. /\ rule'[r] = o /\ ruleInf' = ruleInf
      /\ ruleLag'[r] = IF o = rule[r] THEN ruleLag[r] ELSE LagAfter(ruleLag[r], FALSE)
      /\ \A q \in Rules : q # r => rule'[q] = rule[q] /\ ruleLag'[q] = ruleLag[q]
  BY <1>1 DEF WriteRule, RulesOK, LagAfter
<1> QED
  BY <1>2 DEF RulesKeep, SameVersion, Agree, LagAfter

\* A pass that goes on: it keeps the version it read, and reports it once it
\* has set observedGeneration.
LEMMA GoesOn ==
  ASSUME rw # Idle, rw' # Idle, rw'.name = rw.name, Agree(rw'.rule, rw.rule),
         rw.pc # "finalizer", rw'.pc \in PrunePCs => rw.pc \in PrunePCs,
         rw'.pc \in ReportPCs \cup {"list"} => ~rw'.rule.deleting,
         rw'.pc \in ReportPCs => rw'.rule.observed = rw'.rule.gen
  PROVE  PassContinues
  BY DEF PassContinues, PassPart

LEMMA RuleWorkerKeepsGens ==
  ASSUME TypeOK, PassPart,
         \/ updateRuleCache \/ CleanupList \/ (\E n \in Nodes : CleanupNode(n)) \/ CleanupDone
         \/ processAllNodesForRule \/ processDryRun
         \/ (\E n \in Nodes : RuleEvaluate(n)) \/ RuleMark \/ PruneList
  PROVE  KeepsGens
<1> USE DEF ReportPCs, PrunePCs
<1>0. rw # Idle /\ rw \in RuleWorker /\ rw.name \in Rules /\ rw.rule \in RuleObj
  BY BusyType
  DEF RuleWorker, updateRuleCache, CleanupList, CleanupNode, CleanupDone, processAllNodesForRule,
      processDryRun, RuleEvaluate, RuleMark, PruneList
<1>1. UNCHANGED ruleVars /\ ruleQueue \subseteq ruleQueue'
  BY DEF updateRuleCache, CleanupList, CleanupNode, CleanupDone, processAllNodesForRule,
         processDryRun, RuleEvaluate, RuleMark, PruneList, RuleRequeue
<1> SUFFICES PassContinues
  BY <1>1, SameRulesKeep DEF KeepsGens
<1>2. ASSUME rw'.rule = rw.rule, rw'.name = rw.name, rw' # Idle, rw.pc # "finalizer",
             rw'.pc \in {"cache", "cleanupList", "cleanup", "release"}
             \/ (rw'.pc = "list" /\ ~rw.rule.deleting)
      PROVE  PassContinues
  BY <1>0, <1>2, GoesOn DEF Agree
<1>3. ASSUME Agree(rw'.rule, rw.rule), rw'.name = rw.name, rw' # Idle,
             rw.pc # "finalizer", rw'.pc \in {"eval", "mark", "status"}, ~rw.rule.deleting,
             rw'.rule.observed = rw.rule.gen
      PROVE  PassContinues
  BY <1>0, <1>3, GoesOn DEF Agree
<1>4. CASE updateRuleCache
  <2>1. rw' = [rw EXCEPT !.pc = IF rw.rule.deleting THEN "cleanupList" ELSE "list"] /\ rw.pc = "cache"
    BY <1>4 DEF updateRuleCache
  <2> QED
    BY <1>0, <1>2, <2>1 DEF RuleWorker, Idle
<1>5. CASE CleanupList
  <2>1. rw.pc = "cleanupList" /\ rw' = [rw EXCEPT !.pc = "cleanup", !.todo = cleanupTargets]
    BY <1>5 DEF CleanupList
  <2> QED
    BY <1>0, <1>2, <2>1 DEF RuleWorker, Idle
<1>6. ASSUME NEW n \in Nodes, CleanupNode(n) PROVE PassContinues
  <2>1. PICK x : rw' = [rw EXCEPT !.todo = @ \ {n}, !.errs = @ \/ x = "error"]
    BY <1>6 DEF CleanupNode
  <2>2. rw.pc = "cleanup"
    BY <1>6 DEF CleanupNode
  <2> QED
    BY <1>0, <1>2, <2>1, <2>2 DEF RuleWorker, Idle
<1>7. CASE CleanupDone
  <2>1. CASE rw' = Idle /\ ruleQueue' = ruleQueue \cup {rw.name}
    BY <1>0, <2>1 DEF PassContinues
  <2>2. CASE rw.pc = "cleanup" /\ \E pc \in {"release", "cache"} : rw' = [rw EXCEPT !.pc = pc]
    BY <1>0, <1>2, <2>2 DEF RuleWorker, Idle
  <2> QED
    BY <1>7, <2>1, <2>2 DEF CleanupDone, RuleRequeue
<1>8. CASE processAllNodesForRule
  <2>1. /\ rw.pc = "list" /\ rw'.pc = "eval" /\ rw'.name = rw.name /\ Agree(rw'.rule, rw.rule)
        /\ rw'.rule.observed = rw.rule.gen
    BY <1>0, <1>8 DEF processAllNodesForRule, RuleWorker, RuleObj, Agree
  <2>2. ~rw.rule.deleting
    BY <1>0, <2>1 DEF PassPart
  <2> QED
    BY <1>0, <1>3, <2>1, <2>2 DEF Idle
<1>9. CASE processDryRun
  <2>1. /\ rw.pc = "list" /\ rw'.pc = "status" /\ rw'.name = rw.name /\ Agree(rw'.rule, rw.rule)
        /\ rw'.rule.observed = rw.rule.gen
    BY <1>0, <1>9 DEF processDryRun, RuleWorker, RuleObj, Agree
  <2>2. ~rw.rule.deleting
    BY <1>0, <2>1 DEF PassPart
  <2> QED
    BY <1>0, <1>3, <2>1, <2>2 DEF Idle
<1>10. ASSUME NEW n \in Nodes, RuleEvaluate(n) PROVE PassContinues
  <2> DEFINE spec == rw.rule.spec
             o == rw.snap[n]
             st(x) == taintStatusOf(spec, localAfter(n, spec, o, x))
             pc(x) == IF needsMark(spec, o, x) THEN "mark" ELSE "eval"
             cur(x) == IF needsMark(spec, o, x) THEN {n} ELSE {}
  <2>1. PICK x : rw' = IF x = "error"
          THEN [rw EXCEPT !.todo = @ \ {n}, !.snap[n] = NoNode, !.rule.failed = @ \cup {n}]
          ELSE [rw EXCEPT !.todo = @ \ {n}, !.snap[n] = NoNode, !.rule.evals[n] = st(x),
                          !.pc = pc(x), !.cur = cur(x)]
    BY <1>10 DEF RuleEvaluate
  <2>2. rw.pc = "eval" /\ pc(x) \in {"eval", "mark"}
    BY <1>10 DEF RuleEvaluate
  <2> HIDE DEF spec, o, st, pc, cur
  <2>3. rw'.pc \in {"eval", "mark"} /\ rw'.name = rw.name
    BY <1>0, <2>1, <2>2 DEF RuleWorker
  <2>4. Agree(rw'.rule, rw.rule) /\ rw'.rule.observed = rw.rule.observed
    BY <1>0, <2>1 DEF RuleWorker, RuleObj, Agree
  <2>5. ~rw.rule.deleting /\ rw.rule.observed = rw.rule.gen
    BY <1>0, <2>2 DEF PassPart
  <2> QED
    BY <1>0, <1>3, <2>2, <2>3, <2>4, <2>5 DEF Idle
<1>11. CASE RuleMark
  <2>1. rw.pc = "mark" /\ rw'.pc = "eval" /\ rw'.name = rw.name /\ rw'.rule = rw.rule
    BY <1>0, <1>11 DEF RuleMark, RuleWorker
  <2>2. ~rw.rule.deleting /\ rw.rule.observed = rw.rule.gen
    BY <1>0, <2>1 DEF PassPart
  <2> QED
    BY <1>0, <1>3, <2>1, <2>2 DEF Idle, Agree
<1>12. CASE PruneList
  <2>1. rw.pc = "prune" /\ rw' \in {Idle, [rw EXCEPT !.pc = "drop", !.todo = rw'.todo]}
    BY <1>0, <1>12 DEF PruneList, RuleWorker
  <2>2. ~rw.rule.deleting /\ rw.rule.observed = rw.rule.gen
    BY <1>0, <2>1 DEF PassPart
  <2>3. CASE rw' = Idle
    BY <1>0, <2>1, <2>3 DEF PassContinues
  <2>4. CASE rw' = [rw EXCEPT !.pc = "drop", !.todo = rw'.todo]
    <3>1. rw'.pc = "drop" /\ rw'.name = rw.name /\ rw'.rule = rw.rule
      BY <1>0, <2>4 DEF RuleWorker
    <3> QED
      BY <1>0, <2>1, <2>2, <3>1, GoesOn DEF Idle, Agree
  <2> QED
    BY <2>1, <2>3, <2>4
<1> QED
  BY <1>4, <1>5, <1>6, <1>7, <1>8, <1>9, <1>10, <1>11, <1>12

LEMMA NodeWorkerKeepsGens ==
  ASSUME TypeOK, NodeWorkerStep
  PROVE  KeepsGens
<1>1. rw' = rw /\ ruleQueue' = ruleQueue
  BY DEF NodeWorkerStep, NodeGet, getApplicableRulesForNode, NodeNextRule, NodeEvaluate, NodeMark,
         NodePersist
<1>2. CASE UNCHANGED ruleVars
  BY <1>1, <1>2, SameRulesKeep DEF KeepsGens, PassContinues
<1>3. ASSUME NEW r \in Rules, PersistStatus(nw.name, r, ruleInf[r], nw.entry[r]) PROVE KeepsGens
  <2>1. PICK v, f : WriteRule(r, [rule[r] EXCEPT !.evals = v, !.failed = f])
    BY <1>3 DEF PersistStatus
  <2>2. SameVersion([rule[r] EXCEPT !.evals = v, !.failed = f], rule[r])
    BY DEF SameVersion, Agree, TypeOK, RulesOK, RuleObj
  <2>3. RulesKeep
    BY <2>1, <2>2, QuietWriteKeeps DEF TypeOK
  <2> QED
    BY <1>1, <2>3 DEF KeepsGens, PassContinues
<1> QED
  BY <1>2, <1>3
  DEF NodeWorkerStep, NodeGet, getApplicableRulesForNode, NodeNextRule, NodeEvaluate, NodeMark,
      NodePersist

\* Adding the finalizer and pruning the evaluations change no version the
\* watch predicate passes; the first requeues, the second ends the pass.
LEMMA QuietPatchKeepsGens ==
  ASSUME TypeOK, ensureFinalizer \/ cleanupDeletedNodes
  PROVE  KeepsGens
<1>0. rw # Idle /\ rw.name \in Rules /\ rw' = Idle
  BY BusyType DEF RuleWorker, ensureFinalizer, cleanupDeletedNodes, RuleRequeue, RuleDone
<1> DEFINE r == rw.name
<1>1. ruleQueue \subseteq ruleQueue' /\ PassContinues
  BY <1>0 DEF PassContinues, PrunePCs, ensureFinalizer, cleanupDeletedNodes, RuleRequeue
<1>2. CASE UNCHANGED ruleVars
  BY <1>1, <1>2, SameRulesKeep DEF KeepsGens
<1>3. CASE WriteRule(r, [rule[r] EXCEPT !.finalizer = TRUE])
  <2>1. SameVersion([rule[r] EXCEPT !.finalizer = TRUE], rule[r])
    BY <1>0 DEF SameVersion, Agree, TypeOK, RulesOK, RuleObj
  <2> QED
    BY <1>0, <1>1, <1>3, <2>1, QuietWriteKeeps DEF KeepsGens, TypeOK
<1>4. ASSUME NEW v, WriteRule(r, [rule[r] EXCEPT !.evals = v]) PROVE KeepsGens
  <2>1. SameVersion([rule[r] EXCEPT !.evals = v], rule[r])
    BY <1>0 DEF SameVersion, Agree, TypeOK, RulesOK, RuleObj
  <2> QED
    BY <1>0, <1>1, <1>4, <2>1, QuietWriteKeeps DEF KeepsGens, TypeOK
<1> QED
  BY <1>2, <1>3, <1>4 DEF ensureFinalizer, cleanupDeletedNodes

LEMMA OthersKeepGens ==
  ASSUME (\E n \in Nodes : SyncNode(n) \/ NodeEnvStep(n)) \/ UNCHANGED vars
  PROVE  KeepsGens
<1>1. UNCHANGED <<ruleVars, ruleQueue, rw>>
  BY DEF vars, SyncNode, NodeEnvStep, ConditionChange, LabelChange, TaintChange, NodeTouch,
         NodeCreate, NodeDelete, NodeEnv
<1> QED
  BY <1>1, SameRulesKeep DEF KeepsGens, PassContinues

-------------------------------------------------------------------------------
(* A write that the watch predicate passes: the rule gets attention.       *)

\* What such a write may do to the generations: none goes back while a copy of
\* the rule is live.
Advances(r, o) ==
  /\ o.observed <= o.gen
  /\ Live(ruleInf[r]) \/ LivePass(r) => o.observed = rule[r].observed /\ rule[r].gen <= o.gen

LEMMA EventWriteKeeps ==
  ASSUME TypeOK, ForgottenInv, NEW r \in Rules, NEW o \in RuleObj, WriteRule(r, o),
         rulePredicate(rule[r], o), Advances(r, o), ruleQueue' = ruleQueue,
         rw' = rw \/ (rw' = Idle /\ Working(r))
  PROVE  ForgottenInv'
<1>1. /\ rule'[r] = o /\ ruleLag'[r] = "event" /\ ruleInf' = ruleInf
      /\ \A q \in Rules : q # r => rule'[q] = rule[q] /\ ruleLag'[q] = ruleLag[q]
  <2>1. o # rule[r]
    BY DEF rulePredicate
  <2> QED
    BY <2>1 DEF WriteRule, TypeOK, RulesOK, LagAfter
<1>2. Pending(r)'
  BY <1>1 DEF Pending
<1>3. \A q \in Rules : q # r => (Pending(q)' <=> Pending(q))
  BY <1>1 DEF Pending
<1>4. \A q \in Rules : Working(q)' => rw' = rw /\ Working(q)
  BY DEF Working
<1>5. \A q \in Rules : q # r => (Working(q)' <=> Working(q))
  BY DEF Working
<1>6. AgreePart'
  BY <1>1, <1>2, <1>3, <1>4 DEF ForgottenInv, AgreePart
<1>7. StoredPart' /\ ObservedPart'
  BY <1>1 DEF ForgottenInv, GensPart, StoredPart, ObservedPart, Advances
<1>8. o.gen \in Int /\ o.observed \in Int
  BY DEF RuleObj
<1>9. InformerGens'
  <2>1. ASSUME NEW q \in Rules, Live(ruleInf[q])
        PROVE  /\ ruleInf[q].observed <= ruleInf[q].gen
               /\ rule'[q].observed <= ruleInf[q].gen
               /\ ruleInf[q].gen <= rule'[q].gen
    <3>1. /\ ruleInf[q].observed <= ruleInf[q].gen /\ rule[q].observed <= ruleInf[q].gen
          /\ ruleInf[q].gen <= rule[q].gen
      BY <2>1 DEF ForgottenInv, GensPart, InformerGens
    <3>2. ruleInf[q].gen \in Int /\ rule[q].gen \in Int
      BY DEF TypeOK, RulesOK, RuleObj
    <3> QED
      BY <1>1, <1>8, <2>1, <3>1, <3>2 DEF Advances
  <2> QED
    BY <1>1, <2>1 DEF InformerGens, Live
<1>10. PassGens'
  <2>1. ASSUME NEW q \in Rules, LivePass(q)'
        PROVE  LivePass(q) /\ rw' = rw /\ rw.rule.gen \in Int
    BY <1>4, <2>1, BusyType DEF LivePass, Working, RuleWorker, RuleObj
  <2>2. ASSUME NEW q \in Rules, LivePass(q), rw.rule.gen \in Int
        PROVE  /\ ruleInf[q].observed <= rw.rule.gen
               /\ rule'[q].observed <= rw.rule.gen
               /\ rw.rule.gen <= rule'[q].gen
               /\ Live(ruleInf[q]) => rw.rule.gen <= ruleInf[q].gen
    <3>1. /\ ruleInf[q].observed <= rw.rule.gen
          /\ rule[q].observed <= rw.rule.gen
          /\ rw.rule.gen <= rule[q].gen
          /\ Live(ruleInf[q]) => rw.rule.gen <= ruleInf[q].gen
      BY <2>2 DEF ForgottenInv, GensPart, PassGens
    <3>2. rule[q].gen \in Int
      BY DEF TypeOK, RulesOK, RuleObj
    <3> QED
      BY <1>1, <1>8, <2>2, <3>1, <3>2 DEF Advances
  <2> QED
    BY <1>1, <2>1, <2>2 DEF PassGens, Live
<1>11. PassPart'
  BY DEF ForgottenInv, PassPart
<1>12. PrunePart'
  BY <1>1, <1>2, <1>3, <1>4 DEF ForgottenInv, PrunePart
<1>13. NoForgottenRule'
  BY <1>1, <1>2, <1>3, <1>5 DEF ForgottenInv, NoForgottenRule, Pending, Working
<1> QED
  BY <1>6, <1>7, <1>9, <1>10, <1>11, <1>12, <1>13 DEF ForgottenInv, GensPart

\* An object that comes or goes passes the watch predicate.
LEMMA ComingPasses ==
  ASSUME NEW o \in RuleObj, NEW p \in RuleObj, ~o.exists, p.exists
  PROVE  rulePredicate(o, p)
  BY DEF rulePredicate, RuleObj

LEMMA GoingPasses ==
  ASSUME NEW o \in RuleObj, NEW p \in RuleObj, o.exists, ~p.exists
  PROVE  rulePredicate(o, p)
  BY DEF rulePredicate, RuleObj

\* A change of the spec, or a deletion mark, raises the generation.
LEMMA RaiseType ==
  ASSUME NEW p \in RuleObj, NEW b \in BOOLEAN
  PROVE  /\ [p EXCEPT !.deleting = b, !.gen = p.gen + 1].gen = p.gen + 1
         /\ [p EXCEPT !.deleting = b, !.gen = p.gen + 1].observed = p.observed
         /\ [p EXCEPT !.deleting = b, !.gen = p.gen + 1] \in RuleObj
         /\ [p EXCEPT !.dryRun = b, !.gen = p.gen + 1].gen = p.gen + 1
         /\ [p EXCEPT !.dryRun = b, !.gen = p.gen + 1].observed = p.observed
         /\ [p EXCEPT !.dryRun = b, !.gen = p.gen + 1] \in RuleObj
<1>1. p.gen + 1 \in Nat
  BY DEF RuleObj
<1> QED
  BY <1>1, GenerationType DEF RuleObj

LEMMA GenerationTypes ==
  ASSUME TypeOK
  PROVE  /\ \A r \in Rules : /\ rule[r].gen \in Int /\ rule[r].observed \in Int
                             /\ ruleInf[r].gen \in Int /\ ruleInf[r].observed \in Int
         /\ rw # Idle => rw.rule.gen \in Int /\ rw.rule.observed \in Int
<1>1. rw # Idle => rw.rule \in RuleObj
  BY BusyType DEF RuleWorker
<1> QED
  BY <1>1 DEF TypeOK, RulesOK, RuleObj

\* Users only change a live rule by raising its generation.
LEMMA RuleEnvAdvances ==
  ASSUME TypeOK, FinalizerInv, ForgottenInv, "force" \notin EnvOps, NEW r \in Rules, RuleEnvStep(r)
  PROVE  ForgottenInv'
<1>1. rw' = rw /\ ruleQueue' = ruleQueue
  BY DEF RuleEnvStep, RuleCreate, RuleDelete, DryRunToggle, ForceFinalizer, RuleEnv
<1>2. ASSUME NEW o \in RuleObj, WriteRule(r, o), rulePredicate(rule[r], o), Advances(r, o)
      PROVE  ForgottenInv'
  BY <1>1, <1>2, EventWriteKeeps
<1>3. Live(ruleInf[r]) \/ LivePass(r) => Protected(r)
  BY DEF FinalizerInv, InformerPart, WorkerPart, LivePart, LivePass
<1>4. rule[r] \in RuleObj /\ rule[r].gen \in Nat /\ rule[r].observed \in Nat
  BY DEF TypeOK, RulesOK, RuleObj
<1>5. rule[r].observed <= rule[r].gen
  BY DEF ForgottenInv, GensPart, StoredPart
<1>6. NoRule \in RuleObj /\ ~NoRule.exists /\ NoRule.observed = 0 /\ NoRule.gen = 0
  BY NoRuleType DEF NoRule, FreshRule
<1>7. ASSUME NEW s \in Specs, NEW d \in BOOLEAN, RuleCreate(r, s, d) PROVE ForgottenInv'
  <2> DEFINE o == FreshRule(s, d)
  <2>1. o \in RuleObj
    BY FreshRuleType
  <2>2. o.exists /\ o.observed = 0 /\ o.gen = 1
    BY DEF FreshRule
  <2>3. ~rule[r].exists /\ WriteRule(r, o)
    BY <1>7 DEF RuleCreate, RuleEnv
  <2> HIDE DEF o
  <2>4. rulePredicate(rule[r], o) /\ Advances(r, o)
    BY <1>3, <1>4, <2>1, <2>2, <2>3, ComingPasses DEF Advances, Protected
  <2> QED
    BY <1>2, <2>1, <2>3, <2>4
<1>8. CASE RuleDelete(r) /\ rule[r].finalizer
  <2> DEFINE o == [rule[r] EXCEPT !.deleting = TRUE, !.gen = rule[r].gen + 1]
  <2>1. WriteRule(r, o)
    BY <1>8 DEF RuleDelete, RuleEnv
  <2>2. o \in RuleObj /\ o.gen = rule[r].gen + 1 /\ o.observed = rule[r].observed
    BY <1>4, RaiseType
  <2> HIDE DEF o
  <2>3. rulePredicate(rule[r], o) /\ Advances(r, o)
    BY <1>4, <1>5, <2>2 DEF rulePredicate, Advances
  <2> QED
    BY <1>2, <2>1, <2>2, <2>3
<1>9. CASE RuleDelete(r) /\ ~rule[r].finalizer
  <2>1. rule[r].exists /\ WriteRule(r, NoRule)
    BY <1>9 DEF RuleDelete, RuleEnv
  <2>2. rulePredicate(rule[r], NoRule)
    BY <1>4, <1>6, <2>1, GoingPasses
  <2>3. Advances(r, NoRule)
    BY <1>3, <1>6, <1>9 DEF Advances, Protected
  <2> QED
    BY <1>2, <1>6, <2>1, <2>2, <2>3
<1>10. CASE DryRunToggle(r)
  <2> DEFINE o == [rule[r] EXCEPT !.dryRun = ~rule[r].dryRun, !.gen = rule[r].gen + 1]
  <2>1. WriteRule(r, o)
    BY <1>10 DEF DryRunToggle, RuleEnv
  <2>2. o \in RuleObj /\ o.gen = rule[r].gen + 1 /\ o.observed = rule[r].observed
    <3>1. rule[r] \in RuleObj
      BY <1>4
    <3>2. (~rule[r].dryRun) \in BOOLEAN
      BY <3>1 DEF RuleObj
    <3> QED
      BY <3>1, <3>2, RaiseType
  <2> HIDE DEF o
  <2>3. rulePredicate(rule[r], o) /\ Advances(r, o)
    BY <1>4, <1>5, <2>2 DEF rulePredicate, Advances
  <2> QED
    BY <1>2, <2>1, <2>2, <2>3
<1> QED
  BY <1>7, <1>8, <1>9, <1>10 DEF RuleEnvStep, ForceFinalizer, Env

\* The delete path ends with the object gone, which is an event; on a rule that
\* is not marked (it was recreated meanwhile) the patch changes nothing, and
\* the event of the recreation is still to come.
LEMMA ReleaseKeepsGens ==
  ASSUME TypeOK, FinalizerInv, ForgottenInv, releaseFinalizer
  PROVE  ForgottenInv'
<1> DEFINE r == rw.name
<1>1. rw # Idle /\ rw' = Idle /\ rw.pc = "release" /\ r \in Rules
  BY BusyType DEF releaseFinalizer, RuleRequeue, RuleDone, RuleWorker
<1>2. rw.rule.deleting /\ Working(r)
  BY <1>1 DEF FinalizerInv, WorkerPart, ReleasePart, Working
<1>3. ~Live(ruleInf[r]) /\ ~Live(rule[r]) /\ ~LivePass(r)
  BY <1>1, <1>2 DEF FinalizerInv, WorkerPart, DeletingPart, LivePass
<1>4. CASE RuleRequeue(r) /\ UNCHANGED ruleVars
  <2>1. KeepsGens
    BY <1>1, <1>4, SameRulesKeep DEF KeepsGens, PassContinues, RuleRequeue
  <2> QED
    BY <2>1, GensFrame
<1>5. CASE rule[r].deleting /\ rule[r].exists /\ WriteRule(r, NoRule) /\ ruleQueue' = ruleQueue
  <2>1. NoRule \in RuleObj /\ ~NoRule.exists /\ NoRule.observed = 0 /\ NoRule.gen = 0
    BY NoRuleType DEF NoRule, FreshRule
  <2>2. rulePredicate(rule[r], NoRule)
    <3>1. rule[r] \in RuleObj
      BY <1>1 DEF TypeOK, RulesOK
    <3> QED
      BY <1>5, <2>1, <3>1, GoingPasses
  <2>3. Advances(r, NoRule)
    BY <1>3, <2>1 DEF Advances
  <2> QED
    BY <1>1, <1>2, <1>5, <2>1, <2>2, <2>3, EventWriteKeeps
<1>6. CASE /\ ~rule[r].deleting /\ rule[r].exists /\ ruleQueue' = ruleQueue
           /\ WriteRule(r, [rule[r] EXCEPT !.finalizer = FALSE])
  <2>1. rule[r] \in RuleObj
    BY <1>1 DEF TypeOK, RulesOK
  <2>2. SameVersion([rule[r] EXCEPT !.finalizer = FALSE], rule[r])
    BY <1>3, <1>6, <2>1 DEF SameVersion, Agree, RuleObj, Live
  <2>3. RulesKeep
    BY <1>1, <1>6, <2>2, QuietWriteKeeps DEF TypeOK
  <2>4. Pending(r)
    BY <1>1, <1>2, <1>6 DEF ForgottenInv, AgreePart, Agree
  <2>5. KeepsGens
    BY <1>1, <1>6, <2>3, <2>4 DEF KeepsGens, PassContinues, RulesKeep, Pending
  <2> QED
    BY <2>5, GensFrame
<1> QED
  BY <1>4, <1>5, <1>6 DEF releaseFinalizer, RuleDone

-------------------------------------------------------------------------------
(* The steps that read, report or refresh the version.                     *)

\* A pass starts on what the informer shows; when that is out of date, the
\* event that says so is still to come.
LEMMA RuleGetKeepsGens ==
  ASSUME TypeOK, ForgottenInv, NEW r \in Rules, RuleGet(r)
  PROVE  ForgottenInv'
<1>1. /\ rw = Idle /\ rule' = rule /\ ruleInf' = ruleInf /\ ruleLag' = ruleLag
      /\ ruleQueue' = ruleQueue \ {r}
  BY DEF RuleGet, ruleVars
<1>2. \A q \in Rules : q # r => (Pending(q)' <=> Pending(q))
  BY <1>1 DEF Pending
<1>3. ~Pending(r)' => ruleLag[r] # "event"
  BY <1>1 DEF Pending
<1>4. StoredPart' /\ InformerGens' /\ ObservedPart'
  BY <1>1 DEF ForgottenInv, GensPart, StoredPart, InformerGens, ObservedPart, Live
<1>5. \A q \in Rules : ruleLag[q] # "event" => Agree(ruleInf[q], rule[q])
  BY DEF ForgottenInv, AgreePart
<1>6. CASE ~ruleInf[r].exists /\ rw' = Idle
  <2>1. AgreePart' /\ PassGens' /\ PassPart' /\ PrunePart'
    BY <1>1, <1>5, <1>6 DEF AgreePart, PassGens, PassPart, PrunePart, LivePass, Working
  <2>2. ~Pending(r)' => ~rule[r].exists
    BY <1>3, <1>5, <1>6 DEF Agree
  <2>3. NoForgottenRule'
    BY <1>1, <1>2, <2>2, <1>6 DEF ForgottenInv, NoForgottenRule, Pending
  <2> QED
    BY <1>4, <2>1, <2>3 DEF ForgottenInv, GensPart
<1>7. CASE ruleInf[r].exists
  <2>1. /\ rw' # Idle /\ rw'.name = r /\ rw'.rule = ruleInf[r]
        /\ rw'.pc = CASE ~ruleInf[r].deleting /\ ~ruleInf[r].finalizer -> "finalizer"
                      [] /\ ~ruleInf[r].deleting /\ ruleInf[r].finalizer
                         /\ ruleCache[r].known
                         /\ nodeSelectorChanged(ruleInf[r].spec, ruleCache[r].spec) -> "cleanupList"
                      [] OTHER -> "cache"
    BY <1>7 DEF RuleGet, RuleDone, Idle
  <2>2. /\ rw'.pc \in {"finalizer", "cleanupList", "cache"}
        /\ rw'.pc # "finalizer" /\ ~ruleInf[r].deleting => Live(ruleInf[r])
    BY <1>7, <2>1 DEF Live
  <2>3. \A q \in Rules : Working(q)' <=> q = r
    BY <2>1 DEF Working
  <2>4. AgreePart'
    BY <1>1, <1>3, <1>5, <2>1, <2>3 DEF AgreePart
  <2>5. LivePass(r)' => Live(ruleInf[r])
    BY <2>1, <2>2 DEF LivePass
  <2>6. Live(ruleInf[r]) => /\ ruleInf[r].observed <= ruleInf[r].gen
                            /\ rule[r].observed <= ruleInf[r].gen
                            /\ ruleInf[r].gen <= rule[r].gen
    BY DEF ForgottenInv, GensPart, InformerGens
  <2>7. ruleInf[r].gen <= ruleInf[r].gen
    BY GenerationTypes
  <2>8. \A q \in Rules : LivePass(q)' => q = r
    BY <2>3 DEF LivePass
  <2>9. PassGens'
    BY <1>1, <2>1, <2>5, <2>6, <2>7, <2>8 DEF PassGens
  <2>10. PassPart' /\ PrunePart'
    BY <2>2 DEF PassPart, PrunePart, ReportPCs, PrunePCs
  <2>11. NoForgottenRule'
    BY <1>1, <1>2, <2>1 DEF ForgottenInv, NoForgottenRule, Pending
  <2> QED
    BY <1>4, <2>4, <2>9, <2>10, <2>11 DEF ForgottenInv, GensPart
<1> QED
  BY <1>6, <1>7 DEF RuleGet, RuleDone

\* The informer catches up: what it shows is what is stored, and an event it
\* delivers is in the queue.
LEMMA SyncRuleKeepsGens ==
  ASSUME TypeOK, ForgottenInv, NEW r \in Rules, SyncRule(r)
  PROVE  ForgottenInv'
<1>1. /\ rule' = rule /\ rw' = rw
      /\ ruleInf'[r] = rule[r] /\ ruleLag'[r] = "synced"
      /\ \A q \in Rules : q # r => ruleInf'[q] = ruleInf[q] /\ ruleLag'[q] = ruleLag[q]
  BY DEF SyncRule, TypeOK, RulesOK
<1>2. \A q \in Rules : Pending(q)' <=> Pending(q)
  BY <1>1 DEF SyncRule, Pending
<1>3. \A q \in Rules : (Working(q)' <=> Working(q)) /\ (LivePass(q)' <=> LivePass(q))
  BY <1>1 DEF Working, LivePass
<1>4. AgreePart'
  BY <1>1, <1>2, <1>3 DEF ForgottenInv, AgreePart, Agree
<1>5. StoredPart' /\ InformerGens' /\ ObservedPart'
  <2>1. rule[r].gen <= rule[r].gen
    BY GenerationTypes
  <2> QED
    BY <1>1, <2>1 DEF ForgottenInv, GensPart, StoredPart, InformerGens, ObservedPart, Live
<1>6. PassGens'
  BY <1>1, <1>3 DEF ForgottenInv, GensPart, PassGens, Live
<1>7. PassPart' /\ PrunePart'
  BY <1>1, <1>2, <1>3 DEF ForgottenInv, PassPart, PrunePart
<1>8. NoForgottenRule'
  BY <1>1, <1>2 DEF ForgottenInv, NoForgottenRule, Pending
<1> QED
  BY <1>4, <1>5, <1>6, <1>7, <1>8 DEF ForgottenInv, GensPart

\* After a restart every rule is listed, and queued.
Restarted == /\ RulesOK /\ StoredPart
             /\ ruleInf = rule /\ (\A r \in Rules : ruleLag[r] = "synced")
             /\ ruleQueue = {r \in Rules : rule[r].exists} /\ rw = Idle

LEMMA FreshStart == Restarted => ForgottenInv
<1> SUFFICES ASSUME Restarted PROVE ForgottenInv
  OBVIOUS
<1> USE DEF Restarted
<1>1. AgreePart /\ PassGens /\ PassPart /\ PrunePart
  BY DEF AgreePart, Agree, PassGens, PassPart, PrunePart, LivePass, Working
<1>2. \A r \in Rules : rule[r].gen <= rule[r].gen
  BY DEF RulesOK, RuleObj
<1>3. InformerGens /\ ObservedPart
  BY <1>2 DEF StoredPart, InformerGens, ObservedPart
<1>4. NoForgottenRule
  BY DEF NoForgottenRule
<1> QED
  BY <1>1, <1>3, <1>4 DEF ForgottenInv, GensPart

LEMMA CrashKeepsGens ==
  ASSUME TypeOK', ForgottenInv, Crash
  PROVE  ForgottenInv'
<1>1. Restarted'
  BY DEF Restarted, Crash, TypeOK, ForgottenInv, GensPart, StoredPart
<1> QED
  BY <1>1, FreshStart, PTL

\* The status patch reports the generation of the pass, unless the lagging copy
\* already shows it: then the API server has it too.
LEMMA UpdateRuleStatusKeepsGens ==
  ASSUME TypeOK, FinalizerInv, ForgottenInv, updateRuleStatus
  PROVE  ForgottenInv'
<1> DEFINE r == rw.name
           g == rw.rule.gen
<1>1. rw # Idle /\ rw.pc \in {"status", "eval"} /\ r \in Rules /\ rw \in RuleWorker
  BY BusyType DEF updateRuleStatus, RuleWorker
<1>2. CASE RuleRequeue(r) /\ UNCHANGED ruleVars
  <2>1. KeepsGens
    BY <1>1, <1>2, SameRulesKeep DEF KeepsGens, PassContinues, RuleRequeue
  <2> QED
    BY <2>1, GensFrame
<1>3. ASSUME PatchStatus(r, ruleInf[r], rw.rule), rw' = [rw EXCEPT !.pc = "prune"],
             ruleQueue' = ruleQueue
      PROVE  ForgottenInv'
  <2>1. PICK e, f, a, d, o :
          /\ o = MergePlain(ruleInf[r].observed, rw.rule.observed, rule[r].observed)
          /\ WriteRule(r, [rule[r] EXCEPT !.evals = e, !.failed = f, !.applied = a,
                                          !.observed = o, !.dry = d])
    BY <1>3 DEF PatchStatus
  <2> DEFINE new == [rule[r] EXCEPT !.evals = e, !.failed = f, !.applied = a,
                                    !.observed = o, !.dry = d]
  <2>2. Agree(new, rule[r]) /\ new.observed = o /\ new.finalizer = rule[r].finalizer
    <3>1. rule[r] \in RuleObj
      BY <1>1 DEF TypeOK, RulesOK
    <3> QED
      BY <3>1 DEF Agree, RuleObj
  <2>3. WriteRule(r, new)
    BY <2>1
  <2> HIDE DEF new
  <2>4. /\ rule'[r] = new /\ ruleInf' = ruleInf
        /\ ruleLag'[r] = "event" <=> ruleLag[r] = "event"
        /\ \A q \in Rules : q # r => rule'[q] = rule[q] /\ ruleLag'[q] = ruleLag[q]
    <3>1. ~rulePredicate(rule[r], new)
      BY <2>2 DEF Agree, rulePredicate
    <3>2. ruleLag'[r] = IF new = rule[r] THEN ruleLag[r] ELSE LagAfter(ruleLag[r], FALSE)
      BY <1>1, <2>3, <3>1 DEF WriteRule, TypeOK, RulesOK, LagAfter
    <3>3. ruleLag'[r] = "event" <=> ruleLag[r] = "event"
      BY <3>2 DEF LagAfter
    <3> QED
      BY <1>1, <2>3, <3>3 DEF WriteRule, TypeOK, RulesOK
  <2>5. rw' # Idle /\ rw'.name = r /\ rw'.rule = rw.rule /\ rw'.pc = "prune"
    BY <1>1, <1>3 DEF RuleWorker, Idle
  <2>6. ~rw.rule.deleting /\ rw.rule.observed = g /\ Working(r) /\ LivePass(r)
    BY <1>1 DEF ForgottenInv, PassPart, ReportPCs, Working, LivePass
  <2>7. o = IF ruleInf[r].observed = g THEN rule[r].observed ELSE g
    BY <2>1, <2>6 DEF MergePlain
  <2>8. /\ ruleInf[r].observed <= g /\ rule[r].observed <= g /\ g <= rule[r].gen
        /\ Live(ruleInf[r]) => g <= ruleInf[r].gen
    BY <1>1, <2>6 DEF ForgottenInv, GensPart, PassGens
  <2>9. /\ g \in Int /\ rule[r].gen \in Int /\ rule[r].observed \in Int
        /\ ruleInf[r].gen \in Int /\ ruleInf[r].observed \in Int
    BY <1>1, GenerationTypes
  <2>10. /\ o <= g /\ o <= rule[r].gen /\ (Live(ruleInf[r]) => o <= ruleInf[r].gen)
    BY <2>7, <2>8, <2>9
  <2>11. ruleLag[r] # "event" /\ ruleInf[r].observed = rule[r].gen
           => rule[r].observed = rule[r].gen
    BY <1>1 DEF ForgottenInv, GensPart, ObservedPart
  <2>12. ruleLag[r] # "event" /\ ruleInf[r].observed = rule[r].gen => o = rule[r].gen
    BY <2>7, <2>8, <2>9, <2>11
  <2>13. ruleLag[r] # "event" /\ g = rule[r].gen => o = rule[r].gen
    BY <2>7, <2>9, <2>11
  <2>14. \A q \in Rules : (Pending(q)' <=> Pending(q)) /\ (Working(q)' <=> Working(q))
    BY <1>1, <1>3, <2>4, <2>5 DEF Pending, Working
  <2>15. \A q \in Rules : Working(q)' => q = r
    BY <2>5 DEF Working
  <2>16. rule'[r].gen = rule[r].gen /\ rule'[r].observed = o
    BY <2>2, <2>4 DEF Agree
  <2>17. AgreePart'
    BY <2>2, <2>4, <2>5, <2>14, <2>15 DEF ForgottenInv, AgreePart, Agree
  <2>18. StoredPart' /\ InformerGens' /\ ObservedPart'
    <3>1. StoredPart'
      BY <2>4, <2>10, <2>16 DEF ForgottenInv, GensPart, StoredPart
    <3>2. InformerGens'
      BY <2>4, <2>10, <2>16 DEF ForgottenInv, GensPart, InformerGens, Live
    <3>3. ObservedPart'
      BY <2>4, <2>12, <2>16 DEF ForgottenInv, GensPart, ObservedPart
    <3> QED
      BY <3>1, <3>2, <3>3
  <2>19. PassGens'
    <3>1. \A q \in Rules : LivePass(q)' => q = r
      BY <2>15 DEF LivePass
    <3>2. /\ ruleInf'[r].observed <= rw'.rule.gen /\ rule'[r].observed <= rw'.rule.gen
          /\ rw'.rule.gen <= rule'[r].gen
          /\ Live(ruleInf'[r]) => rw'.rule.gen <= ruleInf'[r].gen
      BY <2>4, <2>5, <2>8, <2>10, <2>16
    <3> QED
      BY <3>1, <3>2 DEF PassGens
  <2>20. PassPart'
    BY <2>5, <2>6 DEF PassPart
  <2>21. PrunePart'
    <3>1. ~Pending(r) => ruleLag[r] # "event" /\ g = rule[r].gen
      BY <1>1, <2>6 DEF ForgottenInv, AgreePart, Agree, Pending
    <3> QED
      BY <2>13, <2>14, <2>15, <2>16, <3>1 DEF PrunePart
  <2>22. NoForgottenRule'
    BY <1>1, <2>4, <2>5, <2>14 DEF ForgottenInv, NoForgottenRule, Pending, Working
  <2> QED
    BY <2>17, <2>18, <2>19, <2>20, <2>21, <2>22 DEF ForgottenInv, GensPart
<1> QED
  BY <1>2, <1>3 DEF updateRuleStatus

-------------------------------------------------------------------------------
LEMMA ForgottenStep ==
  ASSUME "force" \notin EnvOps
  PROVE  TypeOK /\ TypeOK' /\ FinalizerInv /\ ForgottenInv /\ [Next]_vars => ForgottenInv'
<1> SUFFICES ASSUME TypeOK, TypeOK', FinalizerInv, ForgottenInv, [Next]_vars
             PROVE  ForgottenInv'
  OBVIOUS
<1>1. ASSUME KeepsGens PROVE ForgottenInv'
  BY <1>1, GensFrame
<1>2. CASE RuleWorkerStep
  <2>1. CASE \/ updateRuleCache \/ CleanupList \/ (\E n \in Nodes : CleanupNode(n)) \/ CleanupDone
             \/ processAllNodesForRule \/ processDryRun
             \/ (\E n \in Nodes : RuleEvaluate(n)) \/ RuleMark \/ PruneList
    BY <1>1, <2>1, RuleWorkerKeepsGens DEF ForgottenInv
  <2>2. CASE ensureFinalizer \/ cleanupDeletedNodes
    BY <1>1, <2>2, QuietPatchKeepsGens
  <2> QED
    BY <1>2, <2>1, <2>2, RuleGetKeepsGens, ReleaseKeepsGens, UpdateRuleStatusKeepsGens
    DEF RuleWorkerStep
<1>3. CASE NodeWorkerStep
  BY <1>1, <1>3, NodeWorkerKeepsGens
<1>4. CASE InformerStep \/ EnvStep
  <2>1. CASE \E n \in Nodes : SyncNode(n) \/ NodeEnvStep(n)
    BY <1>1, <2>1, OthersKeepGens
  <2> QED
    BY <1>4, <2>1, SyncRuleKeepsGens, RuleEnvAdvances, CrashKeepsGens DEF InformerStep, EnvStep
<1>5. CASE UNCHANGED vars
  BY <1>1, <1>5, OthersKeepGens
<1> QED
  BY <1>2, <1>3, <1>4, <1>5 DEF Next

\* For every set of nodes, rules, specs and faults, and every environment in
\* which nobody strips a finalizer by hand: when a rule has no event to come,
\* no request queued and no pass running, its stored generation was processed
\* to the end and its finalizer is in place (Reconcile with its requeues, the
\* GenerationChangedPredicate, and status patches against a lagging copy).
THEOREM NothingForgotten ==
  ASSUME "force" \notin EnvOps
  PROVE  Spec => []NoForgottenRule
<1>1. Init => ForgottenInv
  <2> SUFFICES ASSUME Init PROVE ForgottenInv
    OBVIOUS
  <2>1. TypeOK
    BY InitType
  <2>2. \A r \in Rules : rule[r] = NoRule \/ \E s \in Specs, d \in BOOLEAN : rule[r] = FreshRule(s, d)
    BY EnvAssumption DEF Init
  <2>3. NoRule.observed = 0 /\ NoRule.gen = 0
    BY DEF NoRule, FreshRule
  <2>4. \A s \in Specs, d \in BOOLEAN : FreshRule(s, d).observed = 0 /\ FreshRule(s, d).gen = 1
    BY DEF FreshRule
  <2>5. StoredPart
    BY <2>2, <2>3, <2>4 DEF StoredPart
  <2>6. Restarted
    BY <2>1, <2>5 DEF Init, Restarted, TypeOK
  <2> QED
    BY <2>6, FreshStart
<1>2. ForgottenInv => NoForgottenRule
  BY DEF ForgottenInv
<1> QED
  BY <1>1, <1>2, ForgottenStep, FinalizerHolds, TypeCorrect, PTL DEF Spec
===============================================================================
