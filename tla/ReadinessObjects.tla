--------------------------- MODULE ReadinessObjects ---------------------------
(***************************************************************************)
(* The objects the controller reads and writes, and the pure functions it  *)
(* evaluates on them.                                                      *)
(*                                                                         *)
(* A node carries one label class (Labels) instead of a label map, and a   *)
(* rule's nodeSelector is the set of classes it matches.  A taint is a     *)
(* (key, effect) pair, the identity hasTaintBySpec compares.  Timestamps,  *)
(* messages and events are left out; where a fresh timestamp decides       *)
(* whether a merge patch carries a field, MergeStamped is nondeterministic.*)
(***************************************************************************)
EXTENDS Integers, FiniteSets

CONSTANTS
  Nodes,    \* names of nodes
  Rules,    \* names of NodeReadinessRules
  Conds,    \* node condition types
  Labels,   \* label classes of nodes
  Taints,   \* taints, managed by rules or not
  Specs     \* the rule specs users create (dryRun is kept apart: it is mutable)

ConditionStatus == {"True", "False", "Unknown"}
Modes == {"continuous", "bootstrap-only"}

ASSUME NodesAssumption == IsFiniteSet(Nodes)
ASSUME LabelsAssumption == Labels # {}

\* What the CRD admits: at least one condition.  conditions, enforcementMode,
\* taint and nodeSelector are immutable.
ValidSpec(s) ==
  /\ s.mode \in Modes
  /\ s.taint \in Taints
  /\ s.sel \in SUBSET Labels
  /\ DOMAIN s.req \in (SUBSET Conds) \ {{}}
  /\ \A c \in DOMAIN s.req : s.req[c] \in ConditionStatus

ASSUME SpecsAssumption == Specs # {} /\ \A s \in Specs : ValidSpec(s)

(***************************************************************************)
(* Node objects.  completed is the set of rules whose                      *)
(* readiness.k8s.io/bootstrap-completed-<rule> annotation is on the node.  *)
(***************************************************************************)
NodeObj == [exists    : BOOLEAN,
            conds     : [Conds -> ConditionStatus \cup {"Missing"}],
            label     : Labels,
            taints    : SUBSET Taints,
            completed : SUBSET Rules]

AnyLabel == CHOOSE l \in Labels : TRUE

NoNode == [exists    |-> FALSE,
           conds     |-> [c \in Conds |-> "Missing"],
           label     |-> AnyLabel,
           taints    |-> {},
           completed |-> {}]
NoNodes == [n \in Nodes |-> NoNode]

(***************************************************************************)
(* NodeReadinessRule objects: metadata, spec and status.  evals is         *)
(* status.nodeEvaluations reduced to each node's taintStatus.              *)
(***************************************************************************)
TaintStatus == {"none", "Present", "Absent"}

DryRunResults == [present : BOOLEAN, affected : Nat, add : Nat, remove : Nat, risky : Nat]

NoDryRun == [present |-> FALSE, affected |-> 0, add |-> 0, remove |-> 0, risky |-> 0]

RuleObj == [exists    : BOOLEAN,
            deleting  : BOOLEAN,          \* metadata.deletionTimestamp is set
            finalizer : BOOLEAN,          \* the controller's finalizer is set
            gen       : Nat,              \* metadata.generation
            dryRun    : BOOLEAN,
            spec      : Specs,
            evals     : [Nodes -> TaintStatus],
            failed    : SUBSET Nodes,     \* status.failedNodes
            applied   : SUBSET Nodes,     \* status.appliedNodes
            observed  : Nat,              \* status.observedGeneration
            dry       : DryRunResults]

AnySpec == CHOOSE s \in Specs : TRUE
NoEvals == [n \in Nodes |-> "none"]

\* A rule as the API server stores it on creation; generation starts at 1.
FreshRule(s, d) ==
  [exists |-> TRUE, deleting |-> FALSE, finalizer |-> FALSE, gen |-> 1,
   dryRun |-> d, spec |-> s, evals |-> NoEvals, failed |-> {}, applied |-> {},
   observed |-> 0, dry |-> NoDryRun]

NoRule == [FreshRule(AnySpec, FALSE) EXCEPT !.exists = FALSE, !.gen = 0]

(***************************************************************************)
(* An entry of ruleCache: the deep copy of a rule that the node worker     *)
(* reads, and whose status it updates in place.                            *)
(***************************************************************************)
CacheEntry == [known    : BOOLEAN,
               deleting : BOOLEAN,
               dryRun   : BOOLEAN,
               spec     : Specs,
               evals    : [Nodes -> TaintStatus],
               failed   : SUBSET Nodes]

EntryOf(o) == [known |-> TRUE, deleting |-> o.deleting, dryRun |-> o.dryRun,
               spec |-> o.spec, evals |-> o.evals, failed |-> o.failed]

NoEntry == [EntryOf(NoRule) EXCEPT !.known = FALSE]

(***************************************************************************)
(* Evaluation                                                              *)
(***************************************************************************)
\* A condition that the node does not report counts as Unknown.
getConditionStatus(o, c) == IF o.conds[c] = "Missing" THEN "Unknown" ELSE o.conds[c]

hasTaintBySpec(o, spec) == spec.taint \in o.taints

ruleAppliesTo(spec, o) == o.exists /\ o.label \in spec.sel

allConditionsSatisfied(spec, o) ==
  \A c \in DOMAIN spec.req : getConditionStatus(o, c) = spec.req[c]

\* The switch of evaluateRuleForNode.
taintAction(spec, o) ==
  CASE allConditionsSatisfied(spec, o) /\ hasTaintBySpec(o, spec)   -> "remove"
    [] ~allConditionsSatisfied(spec, o) /\ ~hasTaintBySpec(o, spec) -> "add"
    [] OTHER                                                        -> "keep"

taintStatusOf(spec, o) == IF hasTaintBySpec(o, spec) THEN "Present" ELSE "Absent"

nodeSelectorChanged(current, previous) == current.sel # previous.sel

\* Mutant: taintsToAdd by subtraction, as if no ready node carried the taint.
dryRunResultsOf_Subtracts(spec, os) ==
  LET affected == {n \in Nodes : ruleAppliesTo(spec, os[n])}
      size(P(_)) == Cardinality({n \in affected : P(os[n])})
  IN [present  |-> TRUE,
      affected |-> Cardinality(affected),
      add      |-> Cardinality(affected)
                     - size(LAMBDA o : allConditionsSatisfied(spec, o))
                     - size(LAMBDA o : hasTaintBySpec(o, spec)),
      remove   |-> size(LAMBDA o : taintAction(spec, o) = "remove"),
      risky    |-> size(LAMBDA o : \E c \in DOMAIN spec.req : getConditionStatus(o, c) = "Unknown")]

\* processDryRun on the node list os: what the live path would do.
dryRunResultsOf(spec, os) ==
  LET affected == {n \in Nodes : ruleAppliesTo(spec, os[n])}
  IN [present  |-> TRUE,
      affected |-> Cardinality(affected),
      add      |-> Cardinality({n \in affected : taintAction(spec, os[n]) = "add"}),
      remove   |-> Cardinality({n \in affected : taintAction(spec, os[n]) = "remove"}),
      risky    |-> Cardinality({n \in affected :
                      \E c \in DOMAIN spec.req : getConditionStatus(os[n], c) = "Unknown"})]

(***************************************************************************)
(* JSON merge patches.  A patch is the difference between the copy that    *)
(* was read (base) and the copy that was changed (new); it is applied to   *)
(* what the API server holds (api).  Lists are replaced as a whole.        *)
(***************************************************************************)
MergePlain(base, new, api) == IF base = new THEN api ELSE new

\* The entries of a stamped list carry a time: a list whose contents did not
\* change is still part of the patch when a time did.
MergeStamped(base, new, api, empty) ==
  CASE base # new                -> {new}
    [] base = new /\ new = empty -> {api}
    [] OTHER                     -> {api, new}

\* dryRunResults is an object: its fields are compared one by one.
MergeDry(base, new, api) ==
  CASE base = new                    -> api
    [] ~new.present /\ base.present  -> NoDryRun
    [] new.present /\ ~base.present  -> new
    [] OTHER -> [present  |-> TRUE,
                 affected |-> MergePlain(base.affected, new.affected, api.affected),
                 add      |-> MergePlain(base.add, new.add, api.add),
                 remove   |-> MergePlain(base.remove, new.remove, api.remove),
                 risky    |-> MergePlain(base.risky, new.risky, api.risky)]
===============================================================================
