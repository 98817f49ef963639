# A TLA+ model of the node readiness controller and its dashboard plugins

The repository holds a Kubernetes controller, which keeps a taint on every node
that a `NodeReadinessRule` selects until the node's conditions meet the rule's
requirements, and the Headlamp plugins of the dashboard it is shipped with. This
directory models the controller with the API server, informers and users around
it, what its plugin shows of it, and the three parts of the other plugins that
have concurrency of their own: the conversation with the AI assistant, the logs
viewer of Volcano jobs, and the restart of Knative services. TLC checks the
models on small instances; TLAPS proves the safety properties that hold there for
every instance, under the assumptions named with the theorems.

## The system

| Component | State | Operations | Source |
|---|---|---|---|
| Rule reconciler | the rule it read, the listed nodes, its progress | `Reconcile`: finalizer, deletion, selector cleanup, cache update, dry run, evaluation of all nodes, status, pruning | `internal/controller/nodereadinessrule_controller.go` |
| Node reconciler | its copy of the node, pointers into the rule cache | `Reconcile`, `processNodeAgainstAllRules`: evaluation, taint patch, bootstrap marker, status patch | `internal/controller/node_controller.go` |
| Rule cache | `ruleCache`, a map guarded by a mutex; the rules in it are updated in place without it | `updateRuleCache`, `removeRuleFromCache`, `getApplicableRulesForNode`, `getCachedRule` | `nodereadinessrule_controller.go` |
| Rule objects | finalizer, deletion mark, generation, spec (only `dryRun` is mutable), status | created, switched and deleted by users | `api/v1alpha1/nodereadinessrule_types.go` |
| Readiness plugin | none | Active blockers page, overview | `plugins/node-readiness-controller` |
| AI assistant | chat history, abort controller, response cache, pending approval, API dialog, spinner | send, stop, clear, approve, deny, confirm; model calls, tools | `plugins/ai-assistant` |
| Volcano logs viewer | selection, streams, terminal, downloadable list, per-pod counts | select, reconnect; effects; callbacks of the streams | `plugins/volcano/src/components/jobs` |
| Knative restart | `acting`, the locals of `handleRestart` | restart, redeploy | `plugins/knative/.../useKServiceActions.tsx` |
| Helpers, webhook, condition reporter, metrics, wiring | see "Not modelled" | | `internal`, `cmd` |
| Other plugins | none beyond one request | views of cluster objects | `plugins/*` |

How they interact. Each reconciler has one worker, so at most one rule pass and
one node pass run at a time, and they run concurrently. Both read through the
manager's client, that is from informer caches that lag behind the API server,
and both write the same nodes (taints, a bootstrap annotation) and the same rule
status. The rule worker publishes rules in `ruleCache`; the node worker takes
pointers from it and keeps using them after the lock is released. A rule event
passes only when the generation changed, a node event only when conditions,
taints or labels changed. The rule worker requeues on errors; the node worker
never does. The readiness plugin reads the status both workers write.

In the assistant every prompt is an async function; several can be under way,
since an approval request, a stop or the end of another send brings the send
button back. They share one history array, one abort controller, one pending
approval and one spinner. The logs viewer's effects restart streams whose
callbacks write two buffers. A restart goes on when the page that started it is
left, and the next page starts with a fresh hook.

What is hard: the lag of the caches; two writers of one status without a lock;
taint lists patched as a whole; pointers that outlive the map entry; errors that
are logged and dropped; a restart that loses the cache in the middle of a
deletion; objects recreated under the same name; state read before an `await`
and used after it; callbacks of a selection that is gone; deadlines and counts
that others change. `PROJECT.json` lists these as hazards, each at its line.

What makes it correct: taints end up agreeing with conditions; nothing but the
rule's taint is ever touched; a rule that is enforced cannot vanish without
cleanup; a deletion completes; no rule version is forgotten; the status tells the
truth. No MCP tool that the model calls runs unapproved, every send ends. The viewer shows
the selected logs, all of them and nothing else. A restart keeps the service
running, ends, and reports what it did. The models show which of these hold.

## Modules

| Module | Models |
|---|---|
| `ReadinessObjects` | nodes, rules, cache entries; the evaluation of a rule on a node; dry-run counts; JSON merge patches |
| `ControllerState` | all variables; watch predicates; API writes; taint patches under optimistic locking; the bootstrap marker; replacement of cache entries |
| `RuleReconciler` | the rule worker, one action per list, patch or cache update |
| `NodeReconciler` | the node worker, likewise |
| `Cluster` | informers, kubelets, users, restart; `Init` |
| `NodeReadinessController` | the composition, fairness, the controller's properties |
| `ReadinessPlugin` | what the plugin derives from the status, on top of the controller |
| `MCController` | specs, nodes and rules of the instances TLC checks |
| `ChatHistory` | the history array and the functions that cut, tag and edit it |
| `Conversation` | sends, approval, tools, the API dialog, stop and clear |
| `ApprovalContract` | the abstract specification of inline approval |
| `MCConversation` | tools and plans of the instances |
| `JobLogs`, `MCJobLogs` | the logs viewer and its instance |
| `KServiceRestart` | restart and redeploy against a cluster that changes; it is its own instance |
| `NodeReadinessController_proofs` | `TypeCorrect`, `OwnTaintOnly` |
| `Finalizer_proofs` | `FinalizerProtects` |
| `Forgotten_proofs` | `NothingForgotten` |
| `Conversation_proofs` | `ApprovalIsKept`, `SpinnerIsTrue` |
| `ChatHistory_proofs` | `ConversationTyped` |
| `JobLogs_proofs` | `OnlyTheSelectionShown`, `LogsComplete`, `ReconnectIsOffered` |
| `KServiceRestart_proofs` | `SuccessIsTrue`, `RestartKeepsServing` |

State and code of the controller:

- `node`, `rule` are what the API server stores; `nodeInf`, `ruleInf` what the
  informers show, the only thing the workers read. `nodeLag`, `ruleLag` say
  whether an informer has caught up (`synced`), has versions to deliver that no
  predicate passes (`quiet`), or has one that will enqueue the object (`event`).
- `nodeQueue`, `ruleQueue` are the deduplicating work queues.
- `ruleCache[r]` is the map entry: `known` is membership; the rest is the deep
  copy of the rule.
- `rw` and `nw` are the two workers: a program counter and the local variables
  of `Reconcile`. `nw.entry` holds the pointers of `getApplicableRulesForNode`
  by value, and `nw.live` says which of them are still the map's, so that an
  in-place update (`UpdateEntry`) shows in `ruleCache` exactly then.
- A step ends where the other side can see or change something. Reading a cached
  node and patching it under the lock is one step: a patch computed from any
  other version is refused.

Of the assistant:

- `pc[s]` and `frame[s]` are where the send `s` is suspended and its locals. One
  action is the code between two awaits, named for the function it is in.
- `promise[s]` is the approval promise of the send; `settle` has no effect on a
  settled one. `pendingRequest` is the manager's, and the buttons of a card call
  the closures of the card's own request.
- An abort controller is named by the send that made it; `frame[s].signal` is
  the one a model call listens to.
- `executed` records the calls that reached the cluster or an MCP server.

Of the logs viewer: `pending` is a render whose effects have not run; until then
the old streams may deliver. `streams[p].next` and `fragments` are the list a
connection hands to its callback, which a new connection starts over. `logs` is
the list that is downloaded, `xterm` what the terminal was given since it was
last cleared. The terminal is a library (xterm) whose `write` returns at once and
is carried out later, while `clear` acts at once and drops no write that waits:
`waiting` says that some wait, `overtaken` that some did at the last clear, so
that older lines come before `xterm` in the terminal. Only writes that wait are
carried out by `flush`; what the properties say of the terminal they say of clears
that overtook nothing.

Of the restart: `run[h]` are the locals of `handleRestart` on page `h`; `floor`
and `blind` are history variables that only the property reads: the running pods
the restart found, less what others took, and whether it lost sight of them.

Operators named `<definition>_<Word>` and commented as mutants are wrong
variants of the definition that follows them. No specification uses them; each
shows that the property named with it in `PROJECT.json` notices the change.

### Abstractions

- A node has one label class, a selector is the set of classes it matches; a
  taint is a (key, effect) pair; a condition is its status or `Missing`.
- Versions an informer has not delivered are coalesced into the latest. The
  predicates' verdict on them is not: one passing version makes the lag `event`.
- Timestamps are left out. Where a fresh timestamp decides whether a list is part
  of a merge patch, `MergeStamped` allows both.
- Conditions within one evaluation are abstracted to the node's taint status.
- `retry.RetryOnConflict` re-reads the cache each time. Without `"conflict"` in
  `Faults` the retries are assumed to outlast the lag; with it they may run out.
- Left out: metrics, events, logs, `bootstrapStartTimes`, and the webhook, which
  may also refuse the controller's own finalizer patches.
- The data race of `getCachedRule`'s deep copy with in-place status updates is
  left out: only the selector of that copy is used.

Of the plugins:

- A message keeps its role, send, tool calls and tool-call id; texts are left
  out. Whether a reply calls tools, and which (`Plans`), is a choice.
- The correction of an answer that suggests kubectl is one step with the answer:
  what is pushed in between is cut off again, or a system message nobody reads.
- Orchestrated tools run one after the other; in the code some run in parallel,
  but their results meet only in memory, in the summary.
- A cluster is selected while the assistant is used (`getCluster`).
- The API helper's outcomes are kept, not their texts. Which error texts count as
  API errors is a choice, and so is whether a GET counts as failed, which
  `processToolCalls` reads off the words of the answer.
- A log fragment is its pod, container, settings and line number. The time and
  the text it carries are those of that line of the pod (`TimeOf`, `TextOf`, any
  functions), and `before` compares as `sortLogsByTimestamp` does: time, with none
  last, then text, which begins with the pod's name, then place. Pods are numbered
  in the order of the list, which is that of their names. The terminal is attached,
  and the line its cursor is on, which `clear` keeps, is left out.
- A buffer shows a log (`ShowsLog`) when its lines of the pod are the log's, each
  once. Lines of one pod with one time, or with none, are put in the order of their
  text when the buffer is written again (`jobLogs.test.ts` expects it), so
  `NothingLost` asks for the log's order (`InOrder`) only of a pod that is shown
  alone or whose times tell the order (`Timed`).
- `listPodsByLabelSelector` is atomic; polls that fail are stuttering steps until
  the deadline. Deadlines expire at any time when `"timeout"` is in `Faults`. A
  deletion that fails (`"delete"`) may have deleted the pod all the same.

## Runs

Deadlock is not checked: a controller with empty queues, a chat whose prompts
are used up, a viewer at its bounds and an idle page rightly stop.

| Run | Instance | Shows |
|---|---|---|
| `Lifecycle` | one node, one rule; 2 of heartbeat, condition, create, delete, dryRun, restart, node deleted or created; any API call fails, conflicts exhaust retries | `TypeOK`; a rule that can be taken from the cache to be enforced has its finalizer (`EnforcedImpliesFinalizer`); no generation of a rule is forgotten (`NoForgottenRule`) |
| `TwoRules` | 1 rewrite of the node's taints; continuous and bootstrap-only rule, a foreign taint | `OnlyOwnTaint` |
| `Converge` | 2 of condition, label, taint, delete, dryRun, restart; four kinds of node | taints agree with conditions in the end (`TaintConverges`), deletions finish, the cache agrees with the API server |
| `Recreate` | 3 of create, delete, finalizer stripped; two selectors | `CacheConverges` through the not-found branch and the selector-change cleanup |
| `Conversation` | two sends; a GET, a write and an MCP tool; replies that write, that get, that call two MCP tools | `ApprovalKept` (refinement of `ApprovalContract`), `SpinnerHasWork`, `TypeOK` |
| `ConversationSettles` | two sends, MCP tools | `SendSettles` under fairness |
| `JobLogs` | two pods with different containers, two settings, two lines per connection, tails that begin at line 1 or 2; one pod's times tell the order of its lines, the other's lines have one time and texts that run backwards; without timestamps none has a time | `ShownMatchesSelection`, `NothingLost`, `ReconnectOffered` |
| `KServiceRestart` | one page, at most 4 pods and 2 replicas, all faults | `KeepsServing`, `SuccessMeansRestarted`, `RestartSettles` |

Bounds. `MaxEnv` bounds how many things the environment of the controller does,
`EnvOps` says which; the workers are not bounded. One node and one rule suffice
for races of the two workers over an object. Two sends suffice for the assistant:
supersession, stale cards and the shared variables are about pairs; replies that mix
a GET and an MCP call are left to the theorem, which has any replies. Two lines per
connection are the least with which a list can shrink; two pods the least that
share a buffer. The texts that run backwards are what tells the code's sorting from
the log's order: with them the order, asked for unconditionally, is refuted. Four
pods let every pod of a two-replica service be replaced.

`EnforcedImpliesFinalizer` speaks of the entries of the cache. The node worker can
also go on with an entry it took earlier, past its check of the deletion mark, and
add the taint after the cleanup removed it. `EnforcedImpliesFinalizer` and
`NoForgottenRule` do not hold when finalizers are
stripped by hand: a delete pass that is overtaken by a recreation takes the
finalizer off the new rule, since its patch carries no UID. The run leaves the
operation out; the theorems state it as an assumption. `NothingLost` excludes
streams that lost a connection after one fragment, `KeepsServing` restarts whose
list failed or whose wait timed out: the code gives no guarantee there (see the
hazards). `Converge` has no faults and no node that goes: a taint evaluation whose
retries run out is not repeated, and a deletion whose cleanup always fails is
requeued for ever. `SendSettles` counts an approval that waits as the user's
business, also when its card is not in the chat any more.

Runs that expect a violation, each for a sentence of the documentation, a
comment or a test that the code does not keep (quoted in `PROJECT.json`):

| Run | Property | What happens |
|---|---|---|
| `BootstrapStuck` | `BootstrapReleases` | the rule worker taints from a stale node after completion; the node worker now skips the rule: the ready node stays tainted |
| `StaleCleanup` | `TaintsGoneWithRule` | the rule worker adds the taint; the deletion is requested; the cleanup looks for the taint in the informer's copy of the node, which does not show it yet; the finalizer goes and the taint stays |
| `BlockersHidden` | `BlockersShown` | the rule worker stores an evaluation computed on a stale node over the node worker's; the tainted node has no row and counts as ready |
| `DialogStays` | `OwnDialogHidden` | a send that ends removes the last card, which is another send's that still waits for its approval, and its own loading dialog stays |

Met while modelling, visible in the same models, and not given a run of their
own: the rule worker taints nodes whose bootstrap completed
(`concepts.md:49` says the rule is ignored then); whole-list status patches drop
each other's evaluations; the answer to tool results cuts another send's open card
off the history (no sentence says that it stays); a node worker that checked the
deletion mark before it was published taints after the cleanup; a new connection
whose list is as long as the last one's changes the download and not the terminal
(`useJobLogsStream.ts:32` says they are the same); five conflicts against a lagging cache end an
evaluation for good; deleting a dry-run rule removes taints (`concepts.md:87`);
dry-run results can stay on a live rule; a GET that fails can tag the answer of a
confirmed write; a stop does not reach tools; a log that is written again has
lines of one time in the order of their text; two pages run two restarts at once.

### Fairness

`NodeReadinessController!FairSpec` assumes that informers deliver (weak fairness
of `SyncNode`, `SyncRule`), that a busy worker goes on (weak fairness of its
steps), and that a queued request is eventually taken (strong fairness of
`RuleGet`, `NodeGet`: the queue is FIFO and deduplicating, while the worker's
being free comes and goes). Nothing is assumed of the environment, and no call is
assumed to succeed when `Faults` lets it fail; the liveness runs that pass have no
faults, so the API server answers.

`Conversation!FairSpec` assumes weak fairness of the steps of each send: the
event loop resumes a settled promise, and model, tools and cluster answer or
fail. Nothing is assumed of the user, who may never approve; the orchestrator's
and the model's choice of tools is not fair either, only that there is a reply.
`KServiceRestart!FairSpec` assumes weak fairness of a restart's steps: requests
are answered and deadlines pass. The cluster owes nothing, so `RestartSettles`
holds although pods may never be replaced.

## Proofs

Assumptions: `NodesAssumption` (finitely many nodes, for the dry-run counts),
`LabelsAssumption`, `SpecsAssumption` (the CRD's constraints on specs),
`FaultsAssumption`, `EnvAssumption` (the initial objects are node objects and
fresh rules); `SendsAssumption`, `KindAssumption`, `PlansAssumption` of the
conversation; `PodsAssumption`, `OptionsAssumption`, `BoundsAssumption` and
`LogsAssumption` (times and texts are numbers, 0 is no time) of the viewer;
`PodsAssumption`, `FaultsAssumption` of the restart. TLC evaluates
all of them.

- `TypeCorrect`: `Spec => []TypeOK`. `TypeOK` is inductive; one lemma per action.
- `OwnTaintOnly`: `Spec => OnlyOwnTaint`. The inductive invariant adds
  `InformerCoherent` (a node whose informer is synced is shown as it is stored).
  It is what the optimistic lock checks: `LockHolds` gets from a successful patch
  that the list sent was computed from the stored one (`PatchTaintsOwn`).
- `FinalizerProtects`: if `"force" \notin EnvOps`, `Spec =>
  []EnforcedImpliesFinalizer`. The cache is filled from what the worker read from
  an informer that lags, so the property is far from inductive. `FinalizerInv`
  follows the finalizer: what the informer shows live is protected, and what it
  shows as deleted is not live again (`InformerPart`); the finalizer is added
  only when no deletion was seen that is not stored (`AddingPart`); a live pass
  holds a protected rule (`LivePart`); a delete pass holds a rule that is live
  nowhere (`DeletingPart`) and, from the cleanup on, is marked in the cache or
  not there (`CleanupPart`); pointers of the node worker agree with the map while they are
  in it (`PointerPart`), so in-place updates cannot resurrect an entry. Steps
  that leave all of this alone share one frame lemma (`ChainFrame`).
- `NothingForgotten`: under the same assumption, `Spec => []NoForgottenRule`.
  Why a rule nobody attends to is processed takes the history of its last pass,
  which `ForgottenInv` keeps, relative to `TypeOK` and `FinalizerInv`. With no
  event to come the informer, and with no request queued the pass, have the stored
  version, as far as the watch predicate tells versions apart (`AgreePart`). The
  status patch leaves out what the lagging copy already shows; that is right only
  because generations are reported in increasing order: no stored
  `observedGeneration` is ahead of the pass or of the informer (`StoredPart`,
  `InformerGens`, `PassGens`), so a copy that shows the stored generation as
  observed shows what is stored (`ObservedPart`). A pass that reports has its
  generation set (`PassPart`) and has stored it when it prunes (`PrunePart`).
- `ApprovalIsKept`: `Spec => ApprovalKept`, that is, the conversation implements
  `ApprovalContract` under `decision <- promise` and `ran <-` the MCP calls
  executed. A step maps to asking (which may refuse the pending request),
  deciding, running, or a stutter. `ApprovalInv` is what makes it inductive: the
  control variables have their types (`ControlOK`); a send that has not reached
  its approval has no promise yet (`AskedOnce`); a send at its tools with an MCP
  call in its plan was granted (`RunsGranted`); the API dialog and the writes
  under way hold no MCP call (`DialogWrites`).
- `SpinnerIsTrue`: `Spec => []SpinnerHasWork`. The property is inductive given
  `ControlOK`: every step ends the spinner, leaves some send at work, or leaves
  `loading` and `pc` alone (`SpinnerMoves`), shown once per helper that awaits,
  returns or handles an error and then per action.
- `ConversationTyped`: `Spec => []TypeOK` of the conversation. `ConversationInv`
  adds to `ApprovalInv` that the history is a sequence of well-formed messages.
  The operators that edit it find their place by a maximum, whose existence is
  the least-element principle of the naturals (`MaxIsMember`); what they return
  is stated once for each.
- `OnlyTheSelectionShown`, `LogsComplete`, `ReconnectIsOffered`: the invariants of
  the logs viewer follow from one inductive invariant, `LogsInv`, which speaks of
  states whose effects have run: until then cancelled streams may write
  anything, and the effects set all of it up anew (`EffectsCohere`). Every stream
  was started for the selection and knows whether all pods had ended
  (`StreamPart`), delivers in increasing order and within the bounds, so that its
  lines have times and texts (`FragmentsPart`), and the buffers
  hold lines of the selection (`BuffersPart`). With all pods shown, a pod's list
  and its count are its stream's, or what a lost connection left, and both
  buffers show it (`AllPodsPart`, `Shows`: each line once, and in order if the times
  tell it); with one pod the same is said of the terminal
  and `lastRenderedCount` (`OnePodPart`). That a list written again is sorted and
  complete needs no induction over it (`SortSorts`): `before` is a strict total order
  whatever the times and texts are, and the number of fragments
  before one is an injection of a finite set into as many numbers, hence onto.
- `SuccessIsTrue`: `Spec => SuccessMeansRestarted`, for any number of pages.
  `RestartInv`: the variables have their types (`RunsOK`), a run is at work exactly
  while its page restarts (`Busy`), and every pod listed is left to do, about to be
  deleted, not live, or a failure was counted (`Handled`).
- `RestartKeepsServing`: with one page, `Spec => []KeepsServing`. `ServingInv`
  adds what is known at each wait: before a deletion at least `floor` pods run,
  after it at least one less, and `runningBefore` bounds `floor` while others
  take pods. Two pages refute it, hence the assumption.

Only model-checked: liveness, which is out of the prover's reach
(`TaintConverges`, `DeletionCompletes`, `CacheConverges`, `SendSettles`,
`RestartSettles`), and the runs that expect a violation.

## Not modelled

- The admission webhook, the condition reporter, the list algorithms of
  `helper.go`, metrics and wiring of the controller. The webhook may also refuse
  the controller's own finalizer patches.
- Of the assistant: the retry button of a tool result (`handleRetryTool`), which
  runs the tool, an MCP tool too, outside the sends and without an approval
  request, so that `ApprovalKept` says nothing of it; the streaming variants of the
  sends and the path of local models, which repeat the modelled control; agent mode, whose control is in a
  remote server; test mode; auto-approval, which no part of the interface
  enables; settings and the rendering of results.
- Of the viewer: helper messages and their timers, download, layout.
- The other plugins are views: React components that list cluster objects,
  render them and send single requests. Most of the TypeScript in the repository
  is of this kind (layout, columns, forms, drawings, stories), has no state that
  outlives a request, and nothing that a model could check. The share of lines
  the modules stand for is small for this reason.

## Plan

1. Done: the two reconcilers, the cache, the cluster; the readiness plugin; the
   conversation with its abstract specification; the logs viewer; the restart;
   the runs and theorems above.
2. Theorems: what a merge patch against a lagging copy leaves stored, for every
   list and copy; what two pages cost at most in a restart.
3. `Webhook`: admission of rules from a lagging list, overlap by string equality;
   composed with two rules that share a taint.
4. `Helpers`: the comparisons of `helper.go` on lists and maps against reference
   definitions.
5. `ConditionReporter`: the check loop, status updates and their conflicts.
