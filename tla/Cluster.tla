-------------------------------- MODULE Cluster --------------------------------
(***************************************************************************)
(* Everything around the two workers: the informers that deliver stored    *)
(* versions, the kubelets, users and other controllers that change nodes   *)
(* and rules, and the restart of the controller process.                   *)
(***************************************************************************)
EXTENDS ControllerState

CONSTANTS
  EnvOps,     \* the environment operations of this instance
  MaxEnv,     \* bound: how many of them happen
  InitNodes,  \* the node objects the controller may start with
  InitRules   \* the rule objects the controller may start with

AllEnvOps == {"condition", "label", "taint", "touch", "nodeCreate", "nodeDelete",
              "ruleCreate", "ruleDelete", "dryRun", "force", "crash"}

ASSUME EnvAssumption ==
  /\ EnvOps \subseteq AllEnvOps
  /\ MaxEnv \in Nat
  /\ InitNodes \subseteq [Nodes -> NodeObj]
  /\ InitRules \subseteq [Rules -> {NoRule} \cup {FreshRule(s, d) : s \in Specs, d \in BOOLEAN}]

\* The manager starts the workers once the informers have listed everything;
\* every listed object is a creation event.
Init ==
  /\ node \in InitNodes /\ nodeInf = node
  /\ rule \in InitRules /\ ruleInf = rule
  /\ nodeLag = [n \in Nodes |-> "synced"]
  /\ ruleLag = [r \in Rules |-> "synced"]
  /\ nodeQueue = {n \in Nodes : node[n].exists}
  /\ ruleQueue = {r \in Rules : rule[r].exists}
  /\ ruleCache = [r \in Rules |-> NoEntry]
  /\ rw = Idle
  /\ nw = Idle
  /\ budget = MaxEnv

(***************************************************************************)
(* Informers.                                                              *)
(***************************************************************************)
SyncNode(n) ==
  /\ nodeLag[n] # "synced"
  /\ nodeInf' = [nodeInf EXCEPT ![n] = node[n]]
  /\ nodeLag' = [nodeLag EXCEPT ![n] = "synced"]
  /\ nodeQueue' = IF nodeLag[n] = "event" THEN nodeQueue \cup {n} ELSE nodeQueue
  /\ UNCHANGED <<node, ruleVars, ruleQueue, ruleCache, rw, nw, budget>>

SyncRule(r) ==
  /\ ruleLag[r] # "synced"
  /\ ruleInf' = [ruleInf EXCEPT ![r] = rule[r]]
  /\ ruleLag' = [ruleLag EXCEPT ![r] = "synced"]
  /\ ruleQueue' = IF ruleLag[r] = "event" THEN ruleQueue \cup {r} ELSE ruleQueue
  /\ UNCHANGED <<nodeVars, rule, nodeQueue, ruleCache, rw, nw, budget>>

(***************************************************************************)
(* The environment.                                                        *)
(***************************************************************************)
Env(op) == op \in EnvOps /\ budget > 0 /\ budget' = budget - 1

NodeEnv(n, o) ==
  /\ o # node[n]
  /\ WriteNode(n, o)
  /\ UNCHANGED <<ruleVars, nodeQueue, ruleQueue, ruleCache, rw, nw>>

RuleEnv(r, o) ==
  /\ WriteRule(r, o)
  /\ UNCHANGED <<nodeVars, nodeQueue, ruleQueue, ruleCache, rw, nw>>

\* The kubelet, or the readiness-condition-reporter, reports a condition.
ConditionChange(n, c, s) ==
  /\ Env("condition") /\ node[n].exists
  /\ NodeEnv(n, [node[n] EXCEPT !.conds[c] = s])

LabelChange(n, l) ==
  /\ Env("label") /\ node[n].exists
  /\ NodeEnv(n, [node[n] EXCEPT !.label = l])

\* Somebody else sets or removes a taint (kubelet --register-with-taints, users).
TaintChange(n, ts) ==
  /\ Env("taint") /\ node[n].exists
  /\ NodeEnv(n, [node[n] EXCEPT !.taints = ts])

\* A new version that changes nothing the predicate looks at: a heartbeat.
NodeTouch(n) ==
  /\ Env("touch") /\ node[n].exists
  /\ nodeLag' = [nodeLag EXCEPT ![n] = LagAfter(@, FALSE)]
  /\ UNCHANGED <<node, nodeInf, ruleVars, nodeQueue, ruleQueue, ruleCache, rw, nw>>

\* A kubelet registers without conditions; taints may be registered with it.
NodeCreate(n, l, ts) ==
  /\ Env("nodeCreate") /\ ~node[n].exists
  /\ NodeEnv(n, [NoNode EXCEPT !.exists = TRUE, !.label = l, !.taints = ts])

NodeDelete(n) ==
  /\ Env("nodeDelete") /\ node[n].exists
  /\ NodeEnv(n, NoNode)

RuleCreate(r, s, d) ==
  /\ Env("ruleCreate") /\ ~rule[r].exists
  /\ RuleEnv(r, FreshRule(s, d))

\* Without a finalizer the object goes at once; with one it is marked, which
\* bumps the generation.
RuleDelete(r) ==
  /\ Env("ruleDelete") /\ rule[r].exists /\ ~rule[r].deleting
  /\ RuleEnv(r, IF rule[r].finalizer
                  THEN [rule[r] EXCEPT !.deleting = TRUE, !.gen = rule[r].gen + 1]
                  ELSE NoRule)

DryRunToggle(r) ==
  /\ Env("dryRun") /\ rule[r].exists /\ ~rule[r].deleting
  /\ RuleEnv(r, [rule[r] EXCEPT !.dryRun = ~rule[r].dryRun, !.gen = rule[r].gen + 1])

\* An operator strips the finalizers of a rule stuck in deletion.
ForceFinalizer(r) ==
  /\ Env("force") /\ rule[r].exists /\ rule[r].deleting
  /\ RuleEnv(r, NoRule)

\* The process dies and starts again: cache, queues and workers are lost.
Crash ==
  /\ Env("crash")
  /\ nodeInf' = node /\ nodeLag' = [n \in Nodes |-> "synced"]
  /\ ruleInf' = rule /\ ruleLag' = [r \in Rules |-> "synced"]
  /\ nodeQueue' = {n \in Nodes : node[n].exists}
  /\ ruleQueue' = {r \in Rules : rule[r].exists}
  /\ ruleCache' = [r \in Rules |-> NoEntry]
  /\ rw' = Idle
  /\ nw' = Idle
  /\ UNCHANGED <<node, rule>>

NodeEnvStep(n) ==
  \/ \E c \in Conds, s \in ConditionStatus : ConditionChange(n, c, s)
  \/ \E l \in Labels : LabelChange(n, l)
  \/ \E ts \in SUBSET Taints : TaintChange(n, ts)
  \/ NodeTouch(n)
  \/ \E l \in Labels, ts \in SUBSET Taints : NodeCreate(n, l, ts)
  \/ NodeDelete(n)

RuleEnvStep(r) ==
  \/ \E s \in Specs, d \in BOOLEAN : RuleCreate(r, s, d)
  \/ RuleDelete(r)
  \/ DryRunToggle(r)
  \/ ForceFinalizer(r)

InformerStep == \/ \E n \in Nodes : SyncNode(n)
                \/ \E r \in Rules : SyncRule(r)

EnvStep == \/ \E n \in Nodes : NodeEnvStep(n)
           \/ \E r \in Rules : RuleEnvStep(r)
           \/ Crash
===============================================================================
