----------------------- MODULE KServiceRestart_proofs -----------------------
(***************************************************************************)
(* Proofs about the restart of a Knative service: what its success message  *)
(* means, for any number of pages, and that it keeps the service running,   *)
(* for a single one.                                                        *)
(***************************************************************************)
EXTENDS KServiceRestart, FiniteSetTheorems, TLAPS

PodStates == {"none", "Pending", "Running", "terminating", "gone"}

Runs ==
  [pc : {"idle", "list", "snapshot", "delete", "waitDeletion", "waitRecovery"},
   deletablePods : SUBSET Pods, todo : SUBSET Pods, podToDelete : Pods \cup {0},
   runningBefore : Nat, failed : BOOLEAN,
   outcome : {"none", "empty", "failed", "errors", "success"}]

RunsOK ==
  /\ pod \in [Pods -> PodStates]
  /\ acting \in [Pages -> {"none", "redeploy", "restart"}]
  /\ run \in [Pages -> Runs]
  /\ floor \in Nat
  /\ blind \in BOOLEAN

\* The hook is busy with a restart exactly while handleRestart runs, and says
\* nothing before its end.
Busy(h) ==
  /\ run[h].pc # "idle" <=> acting[h] = "restart"
  /\ run[h].pc # "idle" => run[h].outcome = "none"

\* A pod that was listed and handled is not live, but for the one about to be
\* deleted and those whose deletion failed; and a listed pod is never created.
Handled(h) ==
  /\ \A p \in run[h].deletablePods : pod[p] # "none"
  /\ \A p \in run[h].deletablePods \ run[h].todo :
       p \in Live => run[h].failed \/ (run[h].pc = "delete" /\ p = run[h].podToDelete)

RestartInv == RunsOK /\ \A h \in Pages : Busy(h) /\ Handled(h)

\* The restart knows that as many pods ran as it found, less those others took.
Serving(h) ==
  acting[h] = "restart" /\ ~blind =>
    /\ countRunningPods >= floor - 1
    /\ run[h].pc \in {"list", "snapshot", "delete"} => countRunningPods >= floor
    /\ run[h].pc \in {"delete", "waitDeletion", "waitRecovery"} => run[h].runningBefore >= floor

ServingInv == RestartInv /\ \A h \in Pages : Serving(h)

----------------------------------------------------------------------------
(* The parts of the state a step leaves alone.                              *)

\* The running pods are finitely many, so that they can be counted.
LEMMA RunningFinite ==
  ASSUME RunsOK
  PROVE IsFiniteSet(Running) /\ countRunningPods \in Nat
<1>1. IsFiniteSet(Pods)
  BY FS_Interval, PodsAssumption DEF Pods
<1>2. Running \subseteq Pods
  BY DEF Running
<1>3. IsFiniteSet(Running)
  BY <1>1, <1>2, FS_Subset
<1> QED
  BY <1>3, FS_CardinalityType DEF countRunningPods

\* Pods are not brought back: what is not live stays so, unless it is created.
NoneRevived ==
  \A p \in Pods : pod[p] # "none" => pod'[p] # "none" /\ (p \in Live' => p \in Live)

\* A cluster that revives no pod keeps what was handled.
LEMMA ClusterFrame ==
  ASSUME RestartInv, NoneRevived, pod' \in [Pods -> PodStates], UNCHANGED <<acting, run>>,
         floor' \in Nat, blind' \in BOOLEAN
  PROVE RestartInv'
<1>1. RunsOK'
  BY DEF RestartInv, RunsOK
<1>2. ASSUME NEW h \in Pages PROVE Busy(h)' /\ Handled(h)'
  <2>1. run[h].deletablePods \subseteq Pods
    BY DEF RestartInv, RunsOK, Runs
  <2>2. Busy(h)'
    BY DEF RestartInv, Busy
  <2>3. Handled(h)'
    BY <2>1 DEF RestartInv, Handled, NoneRevived
  <2> QED BY <2>2, <2>3
<1> QED BY <1>1, <1>2 DEF RestartInv

\* The cluster's own steps.
LEMMA ClusterKeeps ==
  ASSUME RestartInv, NEW p \in Pods,
         createPod(p) \/ startPod(p) \/ podGone(p) \/ takePod(p)
  PROVE RestartInv'
<1>1. pod' \in [Pods -> PodStates]
  BY DEF RestartInv, RunsOK, PodStates, createPod, startPod, podGone, takePod
<1>2. NoneRevived
  BY DEF RestartInv, RunsOK, PodStates, NoneRevived, Live, createPod, startPod, podGone, takePod
<1>3. UNCHANGED <<acting, run>>
  BY DEF createPod, startPod, podGone, takePod, hook
<1>4. floor' \in Nat /\ blind' \in BOOLEAN
  BY DEF RestartInv, RunsOK, createPod, startPod, podGone, takePod, hook, history
<1> QED BY <1>1, <1>2, <1>3, <1>4, ClusterFrame

\* A step of page h: the others' locals are as they were.
LEMMA PageFrame ==
  ASSUME RestartInv, NEW h \in Pages, NoneRevived, pod' \in [Pods -> PodStates],
         NEW r \in Runs, run' = [run EXCEPT ![h] = r],
         NEW a \in {"none", "redeploy", "restart"}, acting' = [acting EXCEPT ![h] = a],
         floor' \in Nat, blind' \in BOOLEAN,
         Busy(h)', Handled(h)'
  PROVE RestartInv'
<1>1. RunsOK'
  BY DEF RestartInv, RunsOK
<1>2. ASSUME NEW g \in Pages, g # h PROVE Busy(g)' /\ Handled(g)'
  <2>1. run'[g] = run[g] /\ acting'[g] = acting[g]
    BY <1>2 DEF RestartInv, RunsOK
  <2>2. run[g].deletablePods \subseteq Pods
    BY DEF RestartInv, RunsOK, Runs
  <2>3. Busy(g)'
    BY <2>1 DEF RestartInv, Busy
  <2>4. Handled(g)'
    BY <2>1, <2>2 DEF RestartInv, Handled, NoneRevived
  <2> QED BY <2>3, <2>4
<1> QED BY <1>1, <1>2 DEF RestartInv

----------------------------------------------------------------------------
(* The steps of a page.                                                     *)

\* Nothing of the cluster changes.
LEMMA ClusterAlone ==
  ASSUME RestartInv, UNCHANGED pod
  PROVE NoneRevived /\ pod' \in [Pods -> PodStates]
BY DEF RestartInv, RunsOK, NoneRevived, Live

\* handleRedeploy and the answer to its patch.
LEMMA RedeployKeeps ==
  ASSUME RestartInv, NEW h \in Pages, handleRedeploy(h) \/ redeployed(h)
  PROVE RestartInv'
<1>1. run' = [run EXCEPT ![h] = run[h]] /\ run[h] \in Runs
  BY DEF RestartInv, RunsOK, handleRedeploy, redeployed
<1>2. PICK a \in {"none", "redeploy"} : acting' = [acting EXCEPT ![h] = a]
  BY DEF handleRedeploy, redeployed
<1>3. UNCHANGED <<pod, run, floor, blind>>
  BY DEF handleRedeploy, redeployed, history, cluster
<1>4. NoneRevived /\ pod' \in [Pods -> PodStates]
  BY <1>3, ClusterAlone
<1>5. acting[h] # "restart" /\ acting'[h] # "restart"
  BY DEF RestartInv, RunsOK, handleRedeploy, redeployed
<1>6. Busy(h)'
  BY <1>3, <1>5 DEF RestartInv, Busy
<1>7. Handled(h)'
  BY <1>3 DEF RestartInv, Handled, Live
<1> QED
  BY <1>1, <1>2, <1>3, <1>4, <1>6, <1>7, PageFrame DEF RestartInv, RunsOK

\* handleRestart starts with nothing listed.
LEMMA StartKeeps ==
  ASSUME RestartInv, NEW h \in Pages, handleRestart(h)
  PROVE RestartInv'
<1> DEFINE r == [NoRun EXCEPT !.pc = "list"]
<1>1. r \in Runs /\ run' = [run EXCEPT ![h] = r]
  BY DEF handleRestart, NoRun, Runs
<1>2. acting' = [acting EXCEPT ![h] = "restart"] /\ UNCHANGED pod
  BY DEF handleRestart, cluster
<1>3. NoneRevived /\ pod' \in [Pods -> PodStates]
  BY <1>2, ClusterAlone
<1>4. floor' \in Nat /\ blind' \in BOOLEAN
  BY RunningFinite DEF RestartInv, RunsOK, handleRestart, history
<1>5. run'[h] = r /\ acting'[h] = "restart"
  BY <1>1, <1>2 DEF RestartInv, RunsOK
<1>6. Busy(h)' /\ Handled(h)'
  BY <1>5 DEF Busy, Handled, NoRun
<1> HIDE DEF r
<1> QED BY <1>1, <1>2, <1>3, <1>4, <1>6, PageFrame

\* The end of handleRestart forgets its locals.
LEMMA FinishKeeps ==
  ASSUME RestartInv, NEW h \in Pages, UNCHANGED pod,
         NEW outcome \in {"empty", "failed", "errors", "success"}, finish(h, outcome)
  PROVE RestartInv'
<1> DEFINE r == [NoRun EXCEPT !.outcome = outcome]
<1>1. r \in Runs /\ run' = [run EXCEPT ![h] = r]
  BY DEF finish, NoRun, Runs
<1>2. acting' = [acting EXCEPT ![h] = "none"]
  BY DEF finish
<1>3. NoneRevived /\ pod' \in [Pods -> PodStates]
  BY ClusterAlone
<1>4. floor' \in Nat /\ blind' \in BOOLEAN
  <2>1. (floor' = 0 /\ blind' = FALSE) \/ (floor' = floor /\ blind' = blind)
    BY DEF finish, history
  <2>2. floor \in Nat /\ blind \in BOOLEAN
    BY DEF RestartInv, RunsOK
  <2>3. floor' \in Nat
    BY <2>1, <2>2
  <2>4. blind' \in BOOLEAN
    BY <2>1, <2>2, Zenon
  <2> QED BY <2>3, <2>4
<1>5. run'[h] = r /\ acting'[h] = "none"
  BY <1>1, <1>2 DEF RestartInv, RunsOK
<1>6. Busy(h)' /\ Handled(h)'
  BY <1>5 DEF Busy, Handled, NoRun
<1> HIDE DEF r
<1> QED BY <1>1, <1>2, <1>3, <1>4, <1>6, PageFrame

\* A step of the restart that goes on, with the locals r.
LEMMA GoesOn ==
  ASSUME RestartInv, NEW h \in Pages, acting[h] = "restart", UNCHANGED acting,
         NoneRevived, pod' \in [Pods -> PodStates], floor' = floor, blind' \in BOOLEAN,
         NEW r \in Runs, run' = [run EXCEPT ![h] = r],
         r.pc # "idle", r.outcome = "none", Handled(h)'
  PROVE RestartInv'
<1>1. acting' = [acting EXCEPT ![h] = "restart"]
  BY DEF RestartInv, RunsOK
<1>2. run'[h] = r
  BY DEF RestartInv, RunsOK
<1>3. Busy(h)'
  BY <1>2 DEF Busy
<1>4. floor' \in Nat
  BY DEF RestartInv, RunsOK
<1> QED BY <1>1, <1>3, <1>4, PageFrame

\* The loop goes on to the next pod or ends, once what is not in todo is handled.
LEMMA NextKeeps ==
  ASSUME RestartInv, NEW h \in Pages, acting[h] = "restart", UNCHANGED pod,
         NEW r \in Runs, NEW lost \in BOOLEAN, next(h, r, lost), r.outcome = "none",
         \A p \in r.deletablePods : pod[p] # "none",
         \A p \in r.deletablePods \ r.todo : p \in Live => r.failed
  PROVE RestartInv'
<1>1. CASE /\ run' = [run EXCEPT ![h] = [r EXCEPT !.pc = "snapshot"]]
           /\ blind' = (blind \/ lost)
           /\ UNCHANGED <<acting, floor>>
  <2> DEFINE s == [r EXCEPT !.pc = "snapshot"]
  <2>1. s \in Runs /\ run' = [run EXCEPT ![h] = s] /\ s.pc = "snapshot" /\ s.outcome = "none"
    BY <1>1 DEF Runs
  <2>2. run'[h] = s
    BY <2>1 DEF RestartInv, RunsOK
  <2>3. s.deletablePods = r.deletablePods /\ s.todo = r.todo /\ s.failed = r.failed
    BY DEF Runs
  <2>4. Live' = Live
    BY DEF Live
  <2>5. Handled(h)'
    BY <2>2, <2>3, <2>4 DEF Handled
  <2>6. blind' \in BOOLEAN
    BY <1>1 DEF RestartInv, RunsOK
  <2>7. NoneRevived /\ pod' \in [Pods -> PodStates]
    BY ClusterAlone
  <2> QED BY <1>1, <2>1, <2>5, <2>6, <2>7, GoesOn
<1>2. CASE finish(h, IF r.failed THEN "errors" ELSE "success")
  BY <1>2, FinishKeeps
<1> QED BY <1>1, <1>2 DEF next

\* The list: live pods are not yet to be created, and none is handled yet.
LEMMA ListKeeps ==
  ASSUME RestartInv, NEW h \in Pages, listPods(h)
  PROVE RestartInv'
<1>0. UNCHANGED pod
  BY DEF listPods, cluster
<1>1. CASE /\ run' = [run EXCEPT ![h].pc = "snapshot", ![h].deletablePods = Live, ![h].todo = Live]
           /\ UNCHANGED <<acting, history>>
  <2> DEFINE r == [run[h] EXCEPT !.pc = "snapshot", !.deletablePods = Live, !.todo = Live]
  <2>0. run[h] \in Runs /\ Live \subseteq Pods
    BY DEF RestartInv, RunsOK, Live
  <2>1. r \in Runs /\ run' = [run EXCEPT ![h] = r]
    BY <1>1, <2>0 DEF Runs, RestartInv, RunsOK
  <2>2. acting[h] = "restart" /\ run[h].outcome = "none"
    BY DEF RestartInv, Busy, listPods
  <2>3. r.pc = "snapshot" /\ r.outcome = "none" /\ r.deletablePods = Live /\ r.todo = Live
    BY <2>0, <2>2 DEF Runs
  <2>4. run'[h] = r
    BY <2>1 DEF RestartInv, RunsOK
  <2>5. Handled(h)'
    BY <1>0, <2>3, <2>4 DEF Handled, Live
  <2>6. NoneRevived /\ pod' \in [Pods -> PodStates]
    BY <1>0, ClusterAlone
  <2>7. UNCHANGED acting /\ floor' = floor /\ blind' \in BOOLEAN
    BY <1>1 DEF history, RestartInv, RunsOK
  <2> HIDE DEF r
  <2> QED BY <2>1, <2>2, <2>3, <2>5, <2>6, <2>7, GoesOn
<1>2. CASE finish(h, "empty")
  BY <1>0, <1>2, FinishKeeps
<1>3. CASE finish(h, "failed")
  BY <1>0, <1>3, FinishKeeps
<1> QED BY <1>1, <1>2, <1>3 DEF listPods

\* The snapshot takes a pod out of todo: it is not live, or about to be deleted.
LEMMA SnapshotKeeps ==
  ASSUME RestartInv, NEW h \in Pages, snapshot(h)
  PROVE RestartInv'
<1>0. UNCHANGED pod /\ run[h].pc = "snapshot"
  BY DEF snapshot, cluster
<1>1. PICK p \in run[h].todo :
        \/ /\ run' = [run EXCEPT ![h] = [[run[h] EXCEPT !.todo = @ \ {p}]
                                           EXCEPT !.pc = "delete", !.podToDelete = p,
                                                  !.runningBefore = countRunningPods]]
           /\ UNCHANGED <<acting, history>>
        \/ /\ p \notin Live
           /\ next(h, [run[h] EXCEPT !.todo = @ \ {p}], FALSE)
        \/ /\ run' = [run EXCEPT ![h] = [[run[h] EXCEPT !.todo = @ \ {p}]
                                           EXCEPT !.pc = "delete", !.podToDelete = p,
                                                  !.runningBefore = 0]]
           /\ blind' = TRUE
           /\ UNCHANGED <<acting, floor>>
  BY DEF snapshot
<1>2. /\ run[h] \in Runs /\ run[h].todo \subseteq Pods /\ p \in Pods
      /\ acting[h] = "restart" /\ run[h].outcome = "none"
  BY <1>0, <1>1 DEF RestartInv, RunsOK, Runs, Busy
<1>3. /\ \A q \in run[h].deletablePods : pod[q] # "none"
      /\ \A q \in run[h].deletablePods \ run[h].todo : q \in Live => run[h].failed
  BY <1>0 DEF RestartInv, Handled
<1>4. ASSUME NEW n \in Nat,
             run' = [run EXCEPT ![h] = [[run[h] EXCEPT !.todo = @ \ {p}]
                                          EXCEPT !.pc = "delete", !.podToDelete = p,
                                                 !.runningBefore = n]],
             UNCHANGED <<acting, floor>>, blind' \in BOOLEAN
      PROVE RestartInv'
  <2> DEFINE r == [[run[h] EXCEPT !.todo = @ \ {p}]
                     EXCEPT !.pc = "delete", !.podToDelete = p, !.runningBefore = n]
  <2>1. r \in Runs
    BY <1>2, <1>4 DEF Runs
  <2>2. /\ r.pc = "delete" /\ r.podToDelete = p /\ r.outcome = "none"
        /\ r.deletablePods = run[h].deletablePods /\ r.todo = run[h].todo \ {p}
        /\ r.failed = run[h].failed
    BY <1>2 DEF Runs
  <2>3. run' = [run EXCEPT ![h] = r] /\ run'[h] = r
    BY <1>4 DEF RestartInv, RunsOK
  <2> HIDE DEF r
  <2>4. Handled(h)'
    BY <1>0, <1>3, <2>2, <2>3 DEF Handled, Live
  <2>5. NoneRevived /\ pod' \in [Pods -> PodStates]
    BY <1>0, ClusterAlone
  <2> QED BY <1>2, <1>4, <2>1, <2>2, <2>3, <2>4, <2>5, GoesOn
<1>5. CASE p \notin Live /\ next(h, [run[h] EXCEPT !.todo = @ \ {p}], FALSE)
  <2> DEFINE r == [run[h] EXCEPT !.todo = @ \ {p}]
  <2>1. /\ r \in Runs /\ r.outcome = "none" /\ r.failed = run[h].failed
        /\ r.deletablePods = run[h].deletablePods /\ r.todo = run[h].todo \ {p}
    BY <1>2 DEF Runs
  <2>2. next(h, r, FALSE)
    BY <1>5
  <2> HIDE DEF r
  <2>3. \A q \in r.deletablePods : pod[q] # "none"
    BY <1>3, <2>1
  <2>4. \A q \in r.deletablePods \ r.todo : q \in Live => r.failed
    BY <1>3, <1>5, <2>1
  <2> QED BY <1>0, <1>2, <2>1, <2>2, <2>3, <2>4, NextKeeps
<1>6. countRunningPods \in Nat /\ blind \in BOOLEAN
  BY RunningFinite DEF RestartInv, RunsOK
<1> QED BY <1>1, <1>4, <1>5, <1>6 DEF history

\* The deletion makes the pod at hand go, or is counted.
LEMMA DeleteKeeps ==
  ASSUME RestartInv, NEW h \in Pages, deletePod(h)
  PROVE RestartInv'
<1> DEFINE p == run[h].podToDelete
<1>1. /\ run[h] \in Runs /\ run[h].pc = "delete"
      /\ acting[h] = "restart" /\ run[h].outcome = "none"
  BY DEF RestartInv, RunsOK, Runs, Busy, deletePod
<1>2. UNCHANGED <<acting, floor, blind>> /\ floor' = floor /\ blind' \in BOOLEAN
  BY DEF RestartInv, RunsOK, deletePod, history
<1>3. CASE /\ p \in Existing
           /\ pod' = [pod EXCEPT ![p] = "terminating"]
           /\ run' = [run EXCEPT ![h].pc = "waitDeletion"]
  <2> DEFINE r == [run[h] EXCEPT !.pc = "waitDeletion"]
  <2>1. /\ r \in Runs /\ r.pc = "waitDeletion" /\ r.outcome = "none" /\ r.failed = run[h].failed
        /\ r.deletablePods = run[h].deletablePods /\ r.todo = run[h].todo
    BY <1>1 DEF Runs
  <2>2. run' = [run EXCEPT ![h] = r] /\ run'[h] = r
    BY <1>3 DEF RestartInv, RunsOK
  <2> HIDE DEF r
  <2>3. NoneRevived /\ pod' \in [Pods -> PodStates] /\ p \notin Live'
    BY <1>3 DEF RestartInv, RunsOK, NoneRevived, Live, Existing, PodStates
  <2>4. run[h].deletablePods \subseteq Pods
    BY <1>1 DEF Runs
  <2>5. Handled(h)'
    BY <2>1, <2>2, <2>3, <2>4 DEF RestartInv, Handled, NoneRevived
  <2> QED BY <1>1, <1>2, <2>1, <2>2, <2>3, <2>5, GoesOn
<1>4. CASE /\ run' = [run EXCEPT ![h].pc = "waitRecovery", ![h].failed = TRUE]
           /\ \/ UNCHANGED pod
              \/ p \in Existing /\ pod' = [pod EXCEPT ![p] = "terminating"]
  <2> DEFINE r == [run[h] EXCEPT !.pc = "waitRecovery", !.failed = TRUE]
  <2>1. /\ r \in Runs /\ r.pc = "waitRecovery" /\ r.outcome = "none" /\ r.failed
        /\ r.deletablePods = run[h].deletablePods /\ r.todo = run[h].todo
    BY <1>1 DEF Runs
  <2>2. run' = [run EXCEPT ![h] = r] /\ run'[h] = r
    BY <1>4 DEF RestartInv, RunsOK
  <2> HIDE DEF r
  <2>3. NoneRevived /\ pod' \in [Pods -> PodStates]
    <3>1. CASE UNCHANGED pod
      BY <3>1, ClusterAlone
    <3>2. CASE p \in Existing /\ pod' = [pod EXCEPT ![p] = "terminating"]
      BY <3>2 DEF RestartInv, RunsOK, NoneRevived, Live, Existing, PodStates
    <3> QED BY <1>4, <3>1, <3>2
  <2>4. run[h].deletablePods \subseteq Pods
    BY <1>1 DEF Runs
  <2>5. Handled(h)'
    BY <2>1, <2>2, <2>3, <2>4 DEF RestartInv, Handled, NoneRevived
  <2> QED BY <1>1, <1>2, <2>1, <2>2, <2>3, <2>5, GoesOn
<1> QED BY <1>3, <1>4 DEF deletePod

\* The two waits.
LEMMA WaitDeletionKeeps ==
  ASSUME RestartInv, NEW h \in Pages, waitForPodDeletion(h)
  PROVE RestartInv'
<1> DEFINE r == [run[h] EXCEPT !.pc = "waitRecovery"]
<1>1. /\ run[h] \in Runs /\ run[h].pc = "waitDeletion"
      /\ acting[h] = "restart" /\ run[h].outcome = "none"
  BY DEF RestartInv, RunsOK, Runs, Busy, waitForPodDeletion
<1>2. /\ r \in Runs /\ r.pc = "waitRecovery" /\ r.outcome = "none" /\ r.failed = run[h].failed
      /\ r.deletablePods = run[h].deletablePods /\ r.todo = run[h].todo
  BY <1>1 DEF Runs
<1>3. run' = [run EXCEPT ![h] = r] /\ run'[h] = r
  BY DEF RestartInv, RunsOK, waitForPodDeletion
<1>4. UNCHANGED <<pod, acting>> /\ floor' = floor /\ blind' \in BOOLEAN
  BY DEF RestartInv, RunsOK, waitForPodDeletion, cluster
<1> HIDE DEF r
<1>5. Handled(h)'
  BY <1>1, <1>2, <1>3, <1>4 DEF RestartInv, Handled, Live
<1>6. NoneRevived /\ pod' \in [Pods -> PodStates]
  BY <1>4, ClusterAlone
<1> QED BY <1>1, <1>2, <1>3, <1>4, <1>5, <1>6, GoesOn

LEMMA WaitRecoveryKeeps ==
  ASSUME RestartInv, NEW h \in Pages, waitForRunningPodRecovery(h)
  PROVE RestartInv'
<1>1. /\ run[h] \in Runs /\ run[h].pc = "waitRecovery"
      /\ acting[h] = "restart" /\ run[h].outcome = "none" /\ UNCHANGED pod
  BY DEF RestartInv, RunsOK, Runs, Busy, waitForRunningPodRecovery, cluster
<1>2. PICK lost \in BOOLEAN : next(h, run[h], lost)
  BY DEF waitForRunningPodRecovery
<1>3. /\ \A q \in run[h].deletablePods : pod[q] # "none"
      /\ \A q \in run[h].deletablePods \ run[h].todo : q \in Live => run[h].failed
  BY <1>1 DEF RestartInv, Handled
<1> QED BY <1>1, <1>2, <1>3, NextKeeps

----------------------------------------------------------------------------
(* The message at the end.                                                  *)

LEMMA InitRestart == Init => RestartInv
<1> SUFFICES ASSUME Init PROVE RestartInv
  OBVIOUS
<1>1. pod \in [Pods -> PodStates]
  BY DEF Init, PodStates
<1>2. NoRun \in Runs
  BY DEF NoRun, Runs
<1>3. RunsOK
  BY <1>1, <1>2 DEF Init, RunsOK
<1>4. ASSUME NEW h \in Pages PROVE Busy(h) /\ Handled(h)
  BY DEF Init, Busy, Handled, NoRun
<1> QED BY <1>3, <1>4 DEF RestartInv

LEMMA StepRestart == RestartInv /\ [Next]_vars => RestartInv'
<1> SUFFICES ASSUME RestartInv, [Next]_vars PROVE RestartInv'
  OBVIOUS
<1>1. CASE \E p \in Pods : createPod(p) \/ startPod(p) \/ podGone(p) \/ takePod(p)
  BY <1>1, ClusterKeeps
<1>2. CASE UNCHANGED <<pod, acting, run, floor, blind>>
  <2>1. NoneRevived /\ pod' \in [Pods -> PodStates]
    BY <1>2, ClusterAlone
  <2>2. floor' \in Nat /\ blind' \in BOOLEAN
    BY <1>2 DEF RestartInv, RunsOK
  <2> QED BY <1>2, <2>1, <2>2, ClusterFrame
<1>3. CASE \E n \in 0..MaxReplicas : scale(n)
  BY <1>2, <1>3 DEF scale, hook, history
<1>4. CASE UNCHANGED vars
  BY <1>2, <1>4 DEF vars
<1>5. ASSUME NEW h \in Pages, handleRedeploy(h) \/ redeployed(h) PROVE RestartInv'
  BY <1>5, RedeployKeeps
<1>6. ASSUME NEW h \in Pages, handleRestart(h) PROVE RestartInv'
  BY <1>6, StartKeeps
<1>7. ASSUME NEW h \in Pages, restartStep(h) PROVE RestartInv'
  BY <1>7, ListKeeps, SnapshotKeeps, DeleteKeeps, WaitDeletionKeeps, WaitRecoveryKeeps
     DEF restartStep
<1> QED BY <1>1, <1>3, <1>4, <1>5, <1>6, <1>7 DEF Next

\* What SuccessMeansRestarted says of one page.
HonestStep(h) ==
  run[h].pc # "idle" /\ run'[h].outcome = "success" => run[h].deletablePods \cap Live = {}

\* Locals that go on say nothing yet; they end in a success only when todo is
\* empty and nothing failed.
LEMMA NextHonest ==
  ASSUME RestartInv, NEW h \in Pages, NEW r \in Runs, NEW lost, next(h, r, lost),
         r.outcome = "none", run'[h].outcome = "success"
  PROVE r.todo = {} /\ ~r.failed
<1>1. CASE run' = [run EXCEPT ![h] = [r EXCEPT !.pc = "snapshot"]]
  <2>1. run'[h].outcome = r.outcome
    BY <1>1 DEF RestartInv, RunsOK, Runs
  <2> QED BY <2>1
<1>2. CASE r.todo = {} /\ finish(h, IF r.failed THEN "errors" ELSE "success")
  <2>1. run'[h].outcome = IF r.failed THEN "errors" ELSE "success"
    BY <1>2 DEF RestartInv, RunsOK, finish, NoRun
  <2> QED BY <1>2, <2>1
<1> QED BY <1>1, <1>2 DEF next

LEMMA StepHonest ==
  ASSUME RestartInv, [Next]_vars, NEW h \in Pages
  PROVE HonestStep(h)
<1> SUFFICES ASSUME run[h].pc # "idle", run'[h].outcome = "success"
             PROVE run[h].deletablePods \cap Live = {}
  BY DEF HonestStep
<1>0. /\ run[h] \in Runs /\ acting[h] = "restart" /\ run[h].outcome = "none"
      /\ run[h].deletablePods \subseteq Pods
  BY DEF RestartInv, RunsOK, Runs, Busy
<1>1. run'[h] # run[h]
  BY <1>0
<1>2. restartStep(h)
  <2>1. ~(UNCHANGED run)
    BY <1>1
  <2>2. ~(\E p \in Pods : createPod(p) \/ startPod(p) \/ podGone(p) \/ takePod(p))
    BY <2>1 DEF createPod, startPod, podGone, takePod, hook
  <2>3. ~(\E n \in 0..MaxReplicas : scale(n)) /\ ~(UNCHANGED vars)
    BY <2>1 DEF scale, hook, vars
  <2>4. ASSUME NEW g \in Pages, handleRedeploy(g) \/ redeployed(g) PROVE FALSE
    BY <2>1, <2>4 DEF handleRedeploy, redeployed
  <2>5. ASSUME NEW g \in Pages, handleRestart(g) PROVE FALSE
    <3>1. g # h
      BY <1>0, <2>5 DEF handleRestart
    <3> QED BY <1>1, <2>5, <3>1 DEF handleRestart, RestartInv, RunsOK
  <2>6. ASSUME NEW g \in Pages, restartStep(g) PROVE g = h
    <3>1. \E x : run' = [run EXCEPT ![g] = x]
      <4>1. ASSUME NEW o, finish(g, o) PROVE \E x : run' = [run EXCEPT ![g] = x]
        BY <4>1 DEF finish
      <4> QED
        BY <2>6, <4>1 DEF restartStep, listPods, snapshot, deletePod, waitForPodDeletion,
                          waitForRunningPodRecovery, next
    <3> QED BY <1>1, <3>1 DEF RestartInv, RunsOK
  <2> QED BY <2>2, <2>3, <2>4, <2>5, <2>6 DEF Next
<1>3. CASE listPods(h)
  BY <1>0, <1>3 DEF listPods, finish, NoRun, RestartInv, RunsOK, Runs
<1>4. CASE snapshot(h)
  <2>1. PICK p \in run[h].todo :
          \/ run' = [run EXCEPT ![h] = [[run[h] EXCEPT !.todo = @ \ {p}]
                                          EXCEPT !.pc = "delete", !.podToDelete = p,
                                                 !.runningBefore = countRunningPods]]
          \/ p \notin Live /\ next(h, [run[h] EXCEPT !.todo = @ \ {p}], FALSE)
          \/ run' = [run EXCEPT ![h] = [[run[h] EXCEPT !.todo = @ \ {p}]
                                          EXCEPT !.pc = "delete", !.podToDelete = p,
                                                 !.runningBefore = 0]]
    BY <1>4 DEF snapshot
  <2> DEFINE r == [run[h] EXCEPT !.todo = @ \ {p}]
  <2>2. r \in Runs /\ r.outcome = "none" /\ r.failed = run[h].failed /\ r.todo = run[h].todo \ {p}
    BY <1>0 DEF Runs
  <2>3. ASSUME NEW n, run' = [run EXCEPT ![h] = [r EXCEPT !.pc = "delete", !.podToDelete = p,
                                                          !.runningBefore = n]]
        PROVE FALSE
    <3>1. run'[h].outcome = "none"
      BY <1>0, <2>3 DEF RestartInv, RunsOK, Runs
    <3> QED BY <3>1
  <2>4. p \notin Live /\ next(h, r, FALSE)
    BY <2>1, <2>3
  <2> HIDE DEF r
  <2>5. run[h].todo \ {p} = {} /\ ~run[h].failed
    BY <2>2, <2>4, NextHonest
  <2> QED BY <1>4, <2>4, <2>5 DEF RestartInv, Handled, snapshot
<1>5. CASE deletePod(h)
  BY <1>0, <1>5 DEF deletePod, RestartInv, RunsOK, Runs
<1>6. CASE waitForPodDeletion(h)
  BY <1>0, <1>6 DEF waitForPodDeletion, RestartInv, RunsOK, Runs
<1>7. CASE waitForRunningPodRecovery(h)
  <2>1. run[h].pc = "waitRecovery" /\ \E lost : next(h, run[h], lost)
    BY <1>7 DEF waitForRunningPodRecovery
  <2>2. run[h].todo = {} /\ ~run[h].failed
    BY <1>0, <2>1, NextHonest
  <2> QED BY <2>1, <2>2 DEF RestartInv, Handled
<1> QED BY <1>2, <1>3, <1>4, <1>5, <1>6, <1>7 DEF restartStep

\* The success message of a restart is true on every page, however many restart
\* at once, whatever fails and whatever the cluster does to the pods meanwhile.
THEOREM SuccessIsTrue == Spec => SuccessMeansRestarted
<1>1. RestartInv /\ [Next]_vars => [\A h \in Pages : HonestStep(h)]_vars
  BY StepHonest
<1> QED BY <1>1, InitRestart, StepRestart, PTL DEF Spec, SuccessMeansRestarted, HonestStep

----------------------------------------------------------------------------
(* The pods that keep running.                                              *)

\* Running pods that stay as they are, with one more or one less of them.
LEMMA CountRunning ==
  ASSUME RunsOK, NEW p \in Pods, NEW st \in PodStates, pod' = [pod EXCEPT ![p] = st]
  PROVE /\ countRunningPods \in Nat /\ countRunningPods' \in Nat
        /\ countRunningPods' >= countRunningPods - 1
        /\ pod[p] # "Running" => countRunningPods' >= countRunningPods
<1>1. IsFiniteSet(Running) /\ countRunningPods \in Nat
  BY RunningFinite
<1>2. CASE st = "Running"
  <2>1. Running' = Running \cup {p}
    BY <1>2 DEF Running, RunsOK
  <2>2. countRunningPods' = IF p \in Running THEN countRunningPods ELSE countRunningPods + 1
    BY <1>1, <2>1, FS_AddElement DEF countRunningPods
  <2> QED BY <1>1, <2>2
<1>3. CASE st # "Running"
  <2>1. Running' = Running \ {p} /\ (pod[p] # "Running" => Running' = Running)
    BY <1>3 DEF Running, RunsOK
  <2>2. countRunningPods' = IF p \in Running THEN countRunningPods - 1 ELSE countRunningPods
    BY <1>1, <2>1, FS_RemoveElement DEF countRunningPods
  <2>3. countRunningPods' \in Nat
    BY <1>1, <2>1, FS_RemoveElement, FS_CardinalityType DEF countRunningPods
  <2>4. p \in Running <=> pod[p] = "Running"
    BY DEF Running
  <2> QED BY <1>1, <2>2, <2>3, <2>4
<1> QED BY <1>2, <1>3

\* A restart that goes on where the pods are as they were.
LEMMA ServingAlone ==
  ASSUME UNCHANGED pod
  PROVE countRunningPods' = countRunningPods
BY DEF countRunningPods, Running

LEMMA ServingCluster ==
  ASSUME ServingInv, NEW h \in Pages, NEW p \in Pods,
         createPod(p) \/ startPod(p) \/ podGone(p) \/ takePod(p)
  PROVE Serving(h)'
<1> USE DEF PodStates
<1>0. RunsOK /\ floor \in Nat /\ run[h].runningBefore \in Nat
  BY DEF ServingInv, RestartInv, RunsOK, Runs
<1>1. UNCHANGED <<acting, run>>
  BY DEF createPod, startPod, podGone, takePod, hook
<1>2. CASE createPod(p) \/ startPod(p) \/ podGone(p)
  <2>1. UNCHANGED <<floor, blind>>
    BY <1>2 DEF createPod, startPod, podGone, history
  <2>2. PICK st \in PodStates : pod' = [pod EXCEPT ![p] = st] /\ pod[p] # "Running"
    BY <1>2 DEF createPod, startPod, podGone
  <2>3. countRunningPods' >= countRunningPods /\ countRunningPods \in Nat /\ countRunningPods' \in Nat
    BY <1>0, <2>2, CountRunning
  <2> QED BY <1>0, <1>1, <2>1, <2>3 DEF ServingInv, Serving
<1>3. CASE takePod(p)
  <2>1. /\ pod' = [pod EXCEPT ![p] = "terminating"] /\ UNCHANGED blind
        /\ floor' = IF pod[p] = "Running" /\ floor > 0 THEN floor - 1 ELSE floor
    BY <1>3 DEF takePod, hook
  <2>2. /\ countRunningPods \in Nat /\ countRunningPods' \in Nat
        /\ countRunningPods' >= countRunningPods - 1
        /\ pod[p] # "Running" => countRunningPods' >= countRunningPods
    BY <1>0, <2>1, CountRunning
  <2> QED BY <1>0, <1>1, <2>1, <2>2 DEF ServingInv, Serving
<1> QED BY <1>2, <1>3

\* With one page there is one restart: floor is set when it starts.
LEMMA ServingPage ==
  ASSUME ServingInv, NEW h \in Pages, \A g \in Pages : g = h,
         handleRedeploy(h) \/ redeployed(h) \/ handleRestart(h) \/ restartStep(h)
  PROVE Serving(h)'
<1>0. /\ RunsOK /\ floor \in Nat /\ blind \in BOOLEAN /\ run[h] \in Runs
      /\ run[h].runningBefore \in Nat /\ countRunningPods \in Nat
      /\ run[h].pc # "idle" <=> acting[h] = "restart"
  BY RunningFinite DEF ServingInv, RestartInv, RunsOK, Runs, Busy
<1>1. CASE acting'[h] # "restart"
  BY <1>1 DEF Serving
<1>2. CASE handleRedeploy(h) \/ redeployed(h)
  BY <1>0, <1>1, <1>2 DEF handleRedeploy, redeployed, RunsOK
<1>3. CASE handleRestart(h)
  <2>1. UNCHANGED pod /\ floor' = countRunningPods
    BY <1>3 DEF handleRestart, cluster
  <2>2. run'[h].pc = "list"
    BY <1>0, <1>3 DEF handleRestart, RunsOK, NoRun
  <2> QED BY <1>0, <2>1, <2>2, ServingAlone DEF Serving
<1>4. ASSUME NEW o, finish(h, o) PROVE Serving(h)'
  BY <1>0, <1>1, <1>4 DEF finish, RunsOK
<1>5. ASSUME NEW r \in Runs, NEW lost \in BOOLEAN, next(h, r, lost), UNCHANGED pod,
             ~blind /\ ~lost => countRunningPods >= floor
      PROVE Serving(h)'
  <2>1. CASE /\ run' = [run EXCEPT ![h] = [r EXCEPT !.pc = "snapshot"]]
             /\ blind' = (blind \/ lost)
             /\ UNCHANGED <<acting, floor>>
    <3>1. run'[h].pc = "snapshot"
      BY <1>0, <2>1 DEF RunsOK, Runs
    <3>2. ~blind' => countRunningPods' >= floor'
      BY <1>5, <2>1, ServingAlone
    <3> QED BY <1>0, <1>5, <2>1, <3>1, <3>2, ServingAlone DEF Serving
  <2> QED BY <1>4, <1>5, <2>1 DEF next
<1>6. CASE listPods(h)
  <2>1. UNCHANGED pod /\ run[h].pc = "list" /\ acting[h] = "restart"
    BY <1>0, <1>6 DEF listPods, cluster
  <2>2. CASE /\ run' = [run EXCEPT ![h].pc = "snapshot", ![h].deletablePods = Live, ![h].todo = Live]
             /\ UNCHANGED <<acting, history>>
    <3>1. run'[h].pc = "snapshot" /\ UNCHANGED <<acting, floor, blind>>
      BY <1>0, <2>2 DEF RunsOK, Runs, history
    <3>2. ~blind => countRunningPods >= floor
      BY <2>1 DEF ServingInv, Serving
    <3> QED BY <1>0, <2>1, <3>1, <3>2, ServingAlone DEF Serving
  <2> QED BY <1>4, <1>6, <2>2 DEF listPods
<1>7. CASE snapshot(h)
  <2>1. UNCHANGED pod /\ run[h].pc = "snapshot" /\ acting[h] = "restart"
    BY <1>0, <1>7 DEF snapshot, cluster
  <2>2. ~blind => countRunningPods >= floor
    BY <2>1 DEF ServingInv, Serving
  <2>3. PICK p \in run[h].todo :
          \/ /\ run' = [run EXCEPT ![h] = [[run[h] EXCEPT !.todo = @ \ {p}]
                                             EXCEPT !.pc = "delete", !.podToDelete = p,
                                                    !.runningBefore = countRunningPods]]
             /\ UNCHANGED <<acting, history>>
          \/ next(h, [run[h] EXCEPT !.todo = @ \ {p}], FALSE)
          \/ blind' = TRUE
    BY <1>7 DEF snapshot
  <2>4. CASE /\ run' = [run EXCEPT ![h] = [[run[h] EXCEPT !.todo = @ \ {p}]
                                             EXCEPT !.pc = "delete", !.podToDelete = p,
                                                    !.runningBefore = countRunningPods]]
             /\ UNCHANGED <<acting, history>>
    <3>1. run'[h].pc = "delete" /\ run'[h].runningBefore = countRunningPods
      BY <1>0, <2>4 DEF RunsOK, Runs
    <3>2. UNCHANGED <<acting, floor, blind>>
      BY <2>4 DEF history
    <3> QED BY <1>0, <2>1, <2>2, <3>1, <3>2, ServingAlone DEF Serving
  <2>5. CASE next(h, [run[h] EXCEPT !.todo = @ \ {p}], FALSE)
    <3>1. [run[h] EXCEPT !.todo = @ \ {p}] \in Runs
      BY <1>0 DEF Runs
    <3> QED BY <1>5, <2>1, <2>2, <2>5, <3>1
  <2>6. CASE blind' = TRUE
    BY <2>6 DEF Serving
  <2> QED BY <2>3, <2>4, <2>5, <2>6
<1>8. CASE deletePod(h)
  <2>1. run[h].pc = "delete" /\ acting[h] = "restart" /\ UNCHANGED <<acting, floor, blind>>
    BY <1>0, <1>8 DEF deletePod, history
  <2>2. ~blind => countRunningPods >= floor /\ run[h].runningBefore >= floor
    BY <2>1 DEF ServingInv, Serving
  <2>3. run'[h].pc \in {"waitDeletion", "waitRecovery"} /\ run'[h].runningBefore = run[h].runningBefore
    BY <1>0, <1>8 DEF deletePod, RunsOK, Runs
  <2>4. countRunningPods' \in Nat /\ countRunningPods' >= countRunningPods - 1
    <3>1. CASE UNCHANGED pod
      BY <1>0, <3>1, ServingAlone
    <3>2. CASE run[h].podToDelete \in Existing
               /\ pod' = [pod EXCEPT ![run[h].podToDelete] = "terminating"]
      BY <1>0, <3>2, CountRunning DEF Existing, PodStates
    <3> QED BY <1>8, <3>1, <3>2 DEF deletePod
  <2> QED BY <1>0, <2>1, <2>2, <2>3, <2>4 DEF Serving
<1>9. CASE waitForPodDeletion(h)
  <2>1. /\ run[h].pc = "waitDeletion" /\ acting[h] = "restart"
        /\ UNCHANGED <<pod, acting, floor>> /\ (blind' = blind \/ blind' = TRUE)
    BY <1>0, <1>9 DEF waitForPodDeletion, cluster
  <2>2. run'[h].pc = "waitRecovery" /\ run'[h].runningBefore = run[h].runningBefore
    BY <1>0, <1>9 DEF waitForPodDeletion, RunsOK, Runs
  <2>3. ~blind => countRunningPods >= floor - 1 /\ run[h].runningBefore >= floor
    BY <2>1 DEF ServingInv, Serving
  <2> QED BY <1>0, <2>1, <2>2, <2>3, ServingAlone DEF Serving
<1>10. CASE waitForRunningPodRecovery(h)
  <2>1. run[h].pc = "waitRecovery" /\ acting[h] = "restart" /\ UNCHANGED pod
    BY <1>0, <1>10 DEF waitForRunningPodRecovery, cluster
  <2>2. ~blind => run[h].runningBefore >= floor
    BY <2>1 DEF ServingInv, Serving
  <2>3. CASE countRunningPods >= run[h].runningBefore /\ next(h, run[h], FALSE)
    <3>1. ~blind => countRunningPods >= floor
      BY <1>0, <2>2, <2>3
    <3> QED BY <1>0, <1>5, <2>1, <2>3, <3>1
  <2>4. CASE next(h, run[h], TRUE)
    BY <1>0, <1>5, <2>1, <2>4
  <2> QED BY <1>10, <2>3, <2>4 DEF waitForRunningPodRecovery
<1> QED BY <1>2, <1>3, <1>6, <1>7, <1>8, <1>9, <1>10 DEF restartStep

LEMMA StepServing ==
  ASSUME \A g, h \in Pages : g = h, ServingInv, [Next]_vars
  PROVE ServingInv'
<1>1. RestartInv'
  BY StepRestart DEF ServingInv
<1>2. ASSUME NEW h \in Pages PROVE Serving(h)'
  <2>1. CASE \E p \in Pods : createPod(p) \/ startPod(p) \/ podGone(p) \/ takePod(p)
    BY <2>1, ServingCluster
  <2>2. CASE UNCHANGED <<pod, acting, run, floor, blind>>
    BY <2>2, ServingAlone DEF ServingInv, Serving
  <2>3. CASE (\E n \in 0..MaxReplicas : scale(n)) \/ UNCHANGED vars
    BY <2>2, <2>3 DEF scale, hook, history, vars
  <2>4. CASE handleRedeploy(h) \/ redeployed(h) \/ handleRestart(h) \/ restartStep(h)
    BY <2>4, ServingPage
  <2> QED BY <2>1, <2>3, <2>4 DEF Next
<1> QED BY <1>1, <1>2 DEF ServingInv

\* A restart started on the only page keeps the service running, however many
\* pods it has and however the autoscaler and rollouts interfere.
THEOREM RestartKeepsServing ==
  ASSUME \A g, h \in Pages : g = h
  PROVE Spec => []KeepsServing
<1>1. Init => ServingInv
  <2>1. Init => \A h \in Pages : Serving(h)
    BY DEF Init, Serving
  <2> QED BY <2>1, InitRestart DEF ServingInv
<1>2. ServingInv /\ [Next]_vars => ServingInv'
  BY StepServing
<1>3. ServingInv => KeepsServing
  BY DEF ServingInv, Serving, KeepsServing
<1> QED BY <1>1, <1>2, <1>3, PTL DEF Spec
=============================================================================
