--------------------------- MODULE KServiceRestart ---------------------------
(***************************************************************************)
(* Restart and redeploy of a Knative service (useKServiceActions) against   *)
(* the cluster that replaces, starts and scales its pods meanwhile.  Each   *)
(* mounted page has its own hook; a restart goes on when the page is left,  *)
(* and the next page starts with a fresh one.  One step is the code between *)
(* two awaits.                                                              *)
(***************************************************************************)
EXTENDS Integers, FiniteSets

CONSTANTS
  Pages,        \* the pages that mount the hook, one after the other
  MaxPods,      \* bound: pods that are ever created
  MaxReplicas,  \* bound: pods the service is scaled to
  Faults        \* what may fail: "list", "delete", "timeout"

Pods == 1..MaxPods     \* numbered in the order of their creation

ASSUME PodsAssumption == MaxPods \in Nat /\ MaxReplicas \in 1..MaxPods
ASSUME FaultsAssumption == Faults \subseteq {"list", "delete", "timeout"}

VARIABLES
  pod,        \* pod[p]: what became of pod p
  outdated,   \* live pods of a revision that was replaced
  replicas,   \* what the autoscaler wants
  acting,     \* acting[h]: the action the hook of page h is at
  run,        \* run[h]: the local variables of its handleRestart
  floor,      \* history: running pods the restart found, less those others took
  blind       \* history: a wait timed out or the list of a pass failed

vars == <<pod, outdated, replicas, acting, run, floor, blind>>

Existing == {p \in Pods : pod[p] \in {"Pending", "Running", "terminating"}}
Live == {p \in Pods : pod[p] \in {"Pending", "Running"}}
Running == {p \in Pods : pod[p] = "Running"}

\* deletablePods are the pods listed, todo those not handled yet, failed tells
\* whether failedCount is not 0.
NoRun == [pc |-> "idle", deletablePods |-> {}, todo |-> {}, podToDelete |-> 0,
          runningBefore |-> 0, failed |-> FALSE, outcome |-> "none"]

Init ==
  /\ \E n \in 1..MaxReplicas, s \in [Pods -> {"Pending", "Running", "terminating"}] :
       /\ pod = [p \in Pods |-> IF p <= n THEN s[p] ELSE "none"]
       /\ replicas = n
  /\ outdated = {}
  /\ acting = [h \in Pages |-> "none"]
  /\ run = [h \in Pages |-> NoRun]
  /\ floor = 0
  /\ blind = FALSE

----------------------------------------------------------------------------
(* The cluster.                                                             *)

hook == <<acting, run>>
history == <<floor, blind>>

\* The oldest pod number not used yet.
createPod(p) ==
  /\ pod[p] = "none" /\ \A q \in 1..(p - 1) : pod[q] # "none"
  /\ Cardinality(Live \ outdated) < replicas
  /\ pod' = [pod EXCEPT ![p] = "Pending"]
  /\ UNCHANGED <<outdated, replicas, hook, history>>

startPod(p) ==
  /\ pod[p] = "Pending"
  /\ pod' = [pod EXCEPT ![p] = "Running"]
  /\ UNCHANGED <<outdated, replicas, hook, history>>

podGone(p) ==
  /\ pod[p] = "terminating"
  /\ pod' = [pod EXCEPT ![p] = "gone"]
  /\ UNCHANGED <<outdated, replicas, hook, history>>

\* Others delete a pod: the autoscaler has too many, or a rollout replaced it.
takePod(p) ==
  /\ p \in Live
  /\ \/ Cardinality(Live) > replicas
     \/ p \in outdated /\ Cardinality(Running \ outdated) >= replicas
  /\ pod' = [pod EXCEPT ![p] = "terminating"]
  /\ outdated' = outdated \ {p}
  /\ floor' = IF pod[p] = "Running" /\ floor > 0 THEN floor - 1 ELSE floor
  /\ UNCHANGED <<replicas, hook, blind>>

scale(n) ==
  /\ n # replicas
  /\ replicas' = n
  /\ UNCHANGED <<pod, outdated, hook, history>>

cluster == <<pod, outdated, replicas>>

----------------------------------------------------------------------------
(* Redeploy.                                                                *)

handleRedeploy(h) ==
  /\ acting[h] = "none"
  /\ acting' = [acting EXCEPT ![h] = "redeploy"]
  /\ UNCHANGED <<cluster, run, history>>

\* The patch makes a new revision, or fails.
redeployed(h) ==
  /\ acting[h] = "redeploy"
  /\ outdated' \in {outdated, Live}
  /\ acting' = [acting EXCEPT ![h] = "none"]
  /\ UNCHANGED <<pod, replicas, run, history>>

----------------------------------------------------------------------------
(* Restart.                                                                 *)

countRunningPods == Cardinality(Running)

\* A page's hook runs one action at a time.
handleRestart(h) ==
  /\ acting[h] = "none"
  /\ acting' = [acting EXCEPT ![h] = "restart"]
  /\ run' = [run EXCEPT ![h] = [NoRun EXCEPT !.pc = "list"]]
  /\ IF \A g \in Pages : acting[g] # "restart"
       THEN floor' = countRunningPods /\ blind' = FALSE
       ELSE UNCHANGED history
  /\ UNCHANGED cluster

\* The end of handleRestart, its finally clause included.
finish(h, outcome) ==
  /\ acting' = [acting EXCEPT ![h] = "none"]
  /\ run' = [run EXCEPT ![h] = [NoRun EXCEPT !.outcome = outcome]]
  /\ IF \A g \in Pages \ {h} : acting[g] # "restart"
       THEN floor' = 0 /\ blind' = FALSE
       ELSE UNCHANGED history

\* On to the next pod, or to the message at the end.
next(h, r, lost) ==
  \/ /\ r.todo # {}
     /\ run' = [run EXCEPT ![h] = [r EXCEPT !.pc = "snapshot"]]
     /\ blind' = (blind \/ lost)
     /\ UNCHANGED <<acting, floor>>
  \/ /\ r.todo = {}
     /\ finish(h, IF r.failed THEN "errors" ELSE "success")

\* The pods to restart; without any, or without a list, that is all.
listPods(h) ==
  /\ run[h].pc = "list"
  /\ \/ /\ Live # {}
        /\ run' = [run EXCEPT ![h].pc = "snapshot", ![h].deletablePods = Live, ![h].todo = Live]
        /\ UNCHANGED <<acting, history>>
     \/ Live = {} /\ finish(h, "empty")
     \/ "list" \in Faults /\ finish(h, "failed")
  /\ UNCHANGED cluster

\* The oldest pod left is looked up again, and the running pods are counted; it
\* is skipped when it is gone or being deleted.  Without a list the pod is
\* deleted all the same, and nothing is known of the others.
snapshot(h) ==
  /\ run[h].pc = "snapshot"
  /\ \E p \in run[h].todo :
       LET rest == [run[h] EXCEPT !.todo = @ \ {p}]
       IN /\ \A q \in run[h].todo : p <= q
          /\ \/ /\ p \in Live
                /\ run' = [run EXCEPT ![h] = [rest EXCEPT !.pc = "delete", !.podToDelete = p,
                                              !.runningBefore = countRunningPods]]
                /\ UNCHANGED <<acting, history>>
             \/ /\ p \notin Live
                /\ next(h, rest, FALSE)
             \/ /\ "list" \in Faults
                /\ run' = [run EXCEPT ![h] = [rest EXCEPT !.pc = "delete", !.podToDelete = p,
                                              !.runningBefore = 0]]
                /\ blind' = TRUE
                /\ UNCHANGED <<acting, floor>>
  /\ UNCHANGED cluster

\* Mutant: a failed request is only reported.
deletePod_NotCounted(h) ==
  LET p == run[h].podToDelete
      deleted == run' = [run EXCEPT ![h].pc = "waitDeletion"]
      fails == run' = [run EXCEPT ![h].pc = "waitRecovery"]
  IN /\ run[h].pc = "delete"
     /\ \/ /\ p \in Existing
           /\ pod' = [pod EXCEPT ![p] = "terminating"]
           /\ outdated' = outdated \ {p}
           /\ deleted \/ ("delete" \in Faults /\ fails)
        \/ /\ p \notin Existing \/ "delete" \in Faults
           /\ fails
           /\ UNCHANGED <<pod, outdated>>
     /\ UNCHANGED <<replicas, acting, history>>

\* A request that fails, perhaps only after the pod was deleted, is counted, and
\* the pod is not waited for.
deletePod(h) ==
  LET p == run[h].podToDelete
      deleted == run' = [run EXCEPT ![h].pc = "waitDeletion"]
      fails == run' = [run EXCEPT ![h].pc = "waitRecovery", ![h].failed = TRUE]
  IN /\ run[h].pc = "delete"
     /\ \/ /\ p \in Existing
           /\ pod' = [pod EXCEPT ![p] = "terminating"]
           /\ outdated' = outdated \ {p}
           /\ deleted \/ ("delete" \in Faults /\ fails)
        \/ /\ p \notin Existing \/ "delete" \in Faults
           /\ fails
           /\ UNCHANGED <<pod, outdated>>
     /\ UNCHANGED <<replicas, acting, history>>

\* Polls until the pod is not listed any more, or the time is up.
waitForPodDeletion(h) ==
  /\ run[h].pc = "waitDeletion"
  /\ \/ run[h].podToDelete \notin Existing /\ UNCHANGED blind
     \/ "timeout" \in Faults /\ blind' = TRUE
  /\ run' = [run EXCEPT ![h].pc = "waitRecovery"]
  /\ UNCHANGED <<cluster, acting, floor>>

\* Mutants: nothing is waited for; there is no deadline.
waitForRunningPodRecovery_Skipped(h) ==
  /\ run[h].pc = "waitRecovery"
  /\ next(h, run[h], FALSE)
  /\ UNCHANGED cluster

waitForRunningPodRecovery_Forever(h) ==
  /\ run[h].pc = "waitRecovery"
  /\ countRunningPods >= run[h].runningBefore
  /\ next(h, run[h], FALSE)
  /\ UNCHANGED cluster

\* Polls until as many pods run as before the deletion, or the time is up.
waitForRunningPodRecovery(h) ==
  /\ run[h].pc = "waitRecovery"
  /\ \/ countRunningPods >= run[h].runningBefore /\ next(h, run[h], FALSE)
     \/ "timeout" \in Faults /\ next(h, run[h], TRUE)
  /\ UNCHANGED cluster

restartStep(h) ==
  \/ listPods(h) \/ snapshot(h) \/ deletePod(h)
  \/ waitForPodDeletion(h) \/ waitForRunningPodRecovery(h)

Next ==
  \/ \E p \in Pods : createPod(p) \/ startPod(p) \/ podGone(p) \/ takePod(p)
  \/ \E n \in 0..MaxReplicas : scale(n)
  \/ \E h \in Pages : handleRedeploy(h) \/ redeployed(h) \/ handleRestart(h)
                        \/ restartStep(h)

Spec == Init /\ [][Next]_vars

\* The requests of a restart are answered and its deadlines pass; nothing is
\* assumed of the cluster or the user.
FairSpec == Spec /\ \A h \in Pages : WF_vars(restartStep(h))

----------------------------------------------------------------------------
\* While one restart is under way, and as long as it knows what it does (no
\* wait timed out, no list failed in a pass), no more than one of the pods it
\* found running is missing because of it: the next pod is deleted only when
\* the last one has been replaced (waitForRunningPodRecovery), whatever the
\* autoscaler and a rollout take meanwhile.
KeepsServing ==
  (\E h \in Pages : acting[h] = "restart") /\ ~blind => countRunningPods >= floor - 1

\* "Restart completed successfully" is said only when every pod the restart
\* listed is gone or being deleted (the failures counted, the skips and the waits).
SuccessMeansRestarted ==
  [][\A h \in Pages :
       run[h].pc # "idle" /\ run'[h].outcome = "success"
         => run[h].deletablePods \cap Live = {}]_vars

\* Every restart comes to its end and its buttons are usable again, also when
\* the cluster never replaces a pod (the deadlines of both waits, the finally).
RestartSettles ==
  \A h \in Pages : acting[h] = "restart" ~> acting[h] = "none"
=============================================================================
