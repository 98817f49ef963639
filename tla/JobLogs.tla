------------------------------- MODULE JobLogs -------------------------------
(***************************************************************************)
(* The logs viewer of a Volcano job: the selection JobLogsViewer keeps, the *)
(* streams useJobLogsStream runs for it and the two copies of what they     *)
(* delivered, the terminal and the list that is downloaded.  The effects of *)
(* a state change run after it has been rendered and before the next one    *)
(* is, as React does it; the streams of the previous selection may deliver  *)
(* until then.  The terminal carries a write out later and a clear at once.  *)
(***************************************************************************)
EXTENDS Integers, Sequences, FiniteSets, SequencesExt

CONSTANTS
  NumPods,       \* the pods of the job are numbered in the order of the list
  Containers,
  ContainersOf,  \* ContainersOf[p]: the containers of pod p, in order
  Options,       \* settings of lines, previous, timestamps and follow
  Default,       \* the settings the viewer opens with
  TimeOf,        \* TimeOf[o][p][i]: the time line i of pod p carries, or 0
  TextOf,        \* TextOf[p][i]: the place of its text among all texts
  MaxLines,      \* bound: fragments a connection delivers
  MaxStart       \* bound: the line a new connection begins at

Pods == 1..NumPods
LineNumbers == 1..(MaxStart + MaxLines)

ASSUME PodsAssumption == NumPods \in Nat \ {0}
ASSUME ContainersAssumption == ContainersOf \in [Pods -> Seq(Containers)]
ASSUME OptionsAssumption == Default \in Options
ASSUME BoundsAssumption == MaxLines \in Nat /\ MaxStart \in Nat \ {0}
ASSUME LogsAssumption == /\ TimeOf \in [Options -> [Pods -> [LineNumbers -> Nat]]]
                         /\ TextOf \in [Pods -> [LineNumbers -> Nat]]

None == ""    \* no container
All == 0      \* the selection of all pods

VARIABLES
  pods,               \* the pods Pod.useList shows
  terminated,         \* those of them that succeeded or failed
  selectedPodName, selectedContainer, options,
  pending,            \* a render whose effects have not run
  streams,            \* streams[p]: pod p's log stream
  aggregated,         \* the running streams were started for all pods
  logs,               \* the list that is downloaded
  xterm,              \* what the terminal was given since it was last cleared
  waiting,            \* it has not written everything yet
  overtaken,          \* nor had it at that clear
  allPodLogsByPod, lastProcessedLogCountByPod,
  showReconnectButton

selection == <<pods, terminated, selectedPodName, selectedContainer, options>>
terminal == <<xterm, waiting, overtaken>>
lists == <<allPodLogsByPod, lastProcessedLogCountByPod>>
buffers == <<logs, terminal, lists>>
vars == <<selection, pending, streams, aggregated, buffers, showReconnectButton>>

----------------------------------------------------------------------------
(* What the viewer derives from its state (jobLogs.ts).                     *)

First(ps) == CHOOSE p \in ps : \A q \in ps : p <= q

getSelectedPods(ps, name) == IF name = All THEN ps ELSE ps \cap {name}

\* The first pod's containers that all the others have too.
getContainerNames(ps) ==
  IF ps = {} THEN <<>>
  ELSE SelectSeq(ContainersOf[First(ps)],
                 LAMBDA c : \A p \in ps : c \in Range(ContainersOf[p]))

getDefaultContainerName(ps) ==
  IF getContainerNames(ps) = <<>> THEN None ELSE Head(getContainerNames(ps))

selectedPods == getSelectedPods(pods, selectedPodName)

\* Mutant: some instead of every.
allSelectedPodsAreTerminal_Some == selectedPods \cap terminated # {}

allSelectedPodsAreTerminal == selectedPods # {} /\ selectedPods \subseteq terminated

----------------------------------------------------------------------------
(* Pod.getLogs, a library function.  A stream hands its whole list to the   *)
(* callback; a new connection starts the list over, at a later line when    *)
(* the tail has moved.                                                      *)

\* A fragment is known by its pod, its container, the settings it was asked
\* for with and its line.
Fragment(p, s, i) ==
  [pod |-> p, container |-> s.container, options |-> s.options, line |-> i]

NoStream == [status |-> "none", container |-> None, options |-> None,
             fragments |-> <<>>, next |-> 1, lastRenderedCount |-> 0,
             terminal |-> FALSE, short |-> FALSE]

\* terminal is the allSelectedPodsAreTerminal its callbacks closed over; short
\* records that a connection was lost after a single fragment.
getLogs ==
  [NoStream EXCEPT !.status = "open", !.container = selectedContainer,
                   !.options = options, !.terminal = allSelectedPodsAreTerminal]

----------------------------------------------------------------------------
Init ==
  /\ pods = {} /\ terminated = {}
  /\ selectedPodName = All /\ selectedContainer = None
  /\ options = Default
  /\ pending = TRUE
  /\ streams = [p \in Pods |-> NoStream]
  /\ aggregated = TRUE
  /\ logs = <<>>
  /\ xterm = <<>> /\ waiting = FALSE /\ overtaken = FALSE
  /\ allPodLogsByPod = [p \in Pods |-> <<>>]
  /\ lastProcessedLogCountByPod = [p \in Pods |-> 0]
  /\ showReconnectButton = FALSE

\* Any new list restarts the streams, an equal one too.
podsChanged(ps, ended) ==
  /\ ~pending
  /\ pods' = ps /\ terminated' = ended
  /\ pending' = TRUE
  /\ UNCHANGED <<selectedPodName, selectedContainer, options, streams, aggregated,
                 buffers, showReconnectButton>>

setSelectedPodName(name) ==
  /\ ~pending /\ pods # {} /\ name # selectedPodName
  /\ selectedPodName' = name
  /\ pending' = TRUE
  /\ UNCHANGED <<pods, terminated, selectedContainer, options, streams, aggregated,
                 buffers, showReconnectButton>>

setSelectedContainer(c) ==
  /\ ~pending
  /\ c \in Range(getContainerNames(selectedPods)) \ {selectedContainer}
  /\ selectedContainer' = c
  /\ pending' = TRUE
  /\ UNCHANGED <<pods, terminated, selectedPodName, options, streams, aggregated,
                 buffers, showReconnectButton>>

setOptions(o) ==
  /\ ~pending /\ o # options
  /\ options' = o
  /\ pending' = TRUE
  /\ UNCHANGED <<pods, terminated, selectedPodName, selectedContainer, streams,
                 aggregated, buffers, showReconnectButton>>

----------------------------------------------------------------------------
(* The terminal: xterm, a library.  A write returns at once and is carried  *)
(* out later, a clear removes what is shown and none of the writes that     *)
(* wait.  So the terminal comes to show xterm, and before it what the last  *)
(* clear overtook.                                                          *)

write(lines) ==
  /\ xterm' = xterm \o lines
  /\ waiting' = (waiting \/ lines # <<>>)
  /\ UNCHANGED overtaken

clear ==
  /\ xterm' = <<>>
  /\ overtaken' = waiting
  /\ UNCHANGED waiting

\* A clear and then a write.
writeEntireLogBuffer(lines) ==
  /\ xterm' = lines
  /\ overtaken' = waiting
  /\ waiting' = (waiting \/ lines # <<>>)

\* The last of the writes that wait is carried out.
flush ==
  /\ waiting
  /\ waiting' = FALSE
  /\ UNCHANGED <<selection, pending, streams, aggregated, logs, xterm, overtaken,
                 lists, showReconnectButton>>

----------------------------------------------------------------------------
clearLogs ==
  /\ clear /\ logs' = <<>>
  /\ allPodLogsByPod' = [p \in Pods |-> <<>>]
  /\ lastProcessedLogCountByPod' = [p \in Pods |-> 0]

handleReconnect ==
  /\ ~pending /\ showReconnectButton
  /\ clearLogs
  /\ showReconnectButton' = FALSE
  /\ pending' = TRUE
  /\ UNCHANGED <<selection, streams, aggregated>>

\* The viewer's effect: a pod that is gone gives way to all pods, a container
\* the selection does not have to the default one.
selectionEffect ==
  LET gone == selectedPodName # All /\ selectedPodName \notin pods
      fits == selectedContainer \in Range(getContainerNames(selectedPods))
      name == IF pods # {} /\ gone THEN All ELSE selectedPodName
      container == IF pods = {} \/ gone \/ fits THEN selectedContainer
                   ELSE getDefaultContainerName(selectedPods)
  IN /\ selectedPodName' = name
     /\ selectedContainer' = container
     /\ pending' = (<<name, container>> # <<selectedPodName, selectedContainer>>)

\* Mutant: the streams of the previous selection are left running.
streamEffect_NoCleanup ==
  LET started == IF selectedContainer = None THEN {} ELSE selectedPods
  IN /\ clearLogs
     /\ streams' = [p \in Pods |-> IF p \in started THEN getLogs ELSE streams[p]]
     /\ aggregated' = IF started = {} THEN aggregated ELSE selectedPodName = All
     /\ showReconnectButton' = (showReconnectButton /\ started = {})

\* The hook's effect: the old streams are cancelled, everything is cleared and
\* the selected pods' streams are started.  The button is reset only when some
\* are.
streamEffect ==
  LET started == IF selectedContainer = None THEN {} ELSE selectedPods
  IN /\ clearLogs
     /\ streams' = [p \in Pods |-> IF p \in started THEN getLogs ELSE NoStream]
     /\ aggregated' = IF started = {} THEN aggregated ELSE selectedPodName = All
     /\ showReconnectButton' = (showReconnectButton /\ started = {})

\* Both see the values of the same render.
runEffects ==
  /\ pending
  /\ selectionEffect
  /\ streamEffect
  /\ UNCHANGED <<pods, terminated, options>>

----------------------------------------------------------------------------
(* What a stream delivers.                                                  *)

timeOf(f) == TimeOf[options][f.pod][f.line]
textOf(f) == TextOf[f.pod][f.line]

\* A line without a time comes last.
earlier(s, t) == s # 0 /\ (t = 0 \/ s < t)

\* By time, then by text, which begins with the pod's name, then by place.
before(f, g) ==
  \/ earlier(timeOf(f), timeOf(g))
  \/ /\ timeOf(f) = timeOf(g)
     /\ \/ f.pod < g.pod
        \/ /\ f.pod = g.pod
           /\ textOf(f) < textOf(g) \/ (textOf(f) = textOf(g) /\ f.line < g.line)

\* The i-th fragment is the one with i - 1 others before it.
sortLogsByTimestamp(fragments) ==
  [i \in 1..Cardinality(fragments) |->
     CHOOSE f \in fragments : Cardinality({g \in fragments : before(g, f)}) = i - 1]

\* Mutant: only the pod at hand is written again.
rebuildAllPodsLogBuffer_OnePod(byPod, p) ==
  LET sorted == sortLogsByTimestamp(Range(byPod[p]))
  IN writeEntireLogBuffer(sorted) /\ logs' = sorted

rebuildAllPodsLogBuffer(byPod, p) ==
  LET sorted == sortLogsByTimestamp(UNION {Range(byPod[q]) : q \in Pods})
  IN writeEntireLogBuffer(sorted) /\ logs' = sorted

appendAllPodsLogFragments(p, nextLogs) ==
  LET previous == lastProcessedLogCountByPod[p]
      byPod == [allPodLogsByPod EXCEPT ![p] = nextLogs]
      new == SubSeq(nextLogs, previous + 1, Len(nextLogs))
  IN /\ allPodLogsByPod' = byPod
     /\ lastProcessedLogCountByPod' = [lastProcessedLogCountByPod EXCEPT ![p] = Len(nextLogs)]
     /\ IF Len(nextLogs) < previous THEN rebuildAllPodsLogBuffer(byPod, p)
        ELSE write(new) /\ logs' = logs \o new

\* The terminal gets what is new, or everything when the list has shrunk.
updateSinglePodLogBuffer(nextLogs, lastRenderedCount) ==
  /\ IF Len(nextLogs) < lastRenderedCount THEN writeEntireLogBuffer(nextLogs)
     ELSE write(SubSeq(nextLogs, lastRenderedCount + 1, Len(nextLogs)))
  /\ logs' = nextLogs
  /\ UNCHANGED lists

deliver(p) ==
  LET s == streams[p]
      nextLogs == Append(s.fragments, Fragment(p, s, s.next))
  IN /\ s.status = "open"
     /\ Len(s.fragments) < MaxLines
     /\ IF aggregated THEN appendAllPodsLogFragments(p, nextLogs)
        ELSE updateSinglePodLogBuffer(nextLogs, s.lastRenderedCount)
     /\ streams' = [streams EXCEPT ![p].fragments = nextLogs, ![p].next = @ + 1,
                                   ![p].lastRenderedCount = Len(nextLogs)]
     /\ UNCHANGED <<selection, pending, aggregated, showReconnectButton>>

\* A new connection: the tail begins at the same line, or the next.
reconnect(p) ==
  LET s == streams[p]
      start == s.next - Len(s.fragments)
  IN /\ s.status = "open"
     /\ \E first \in {start, start + 1} :
          /\ first <= MaxStart
          /\ streams' = [streams EXCEPT ![p].fragments = <<>>, ![p].next = first,
                                        ![p].short = @ \/ Len(s.fragments) = 1]
     /\ UNCHANGED <<selection, pending, aggregated, buffers, showReconnectButton>>

\* The stream gives up; nobody is told when all pods had ended at its start.
onReconnectStop(p) ==
  /\ streams[p].status = "open"
  /\ streams' = [streams EXCEPT ![p].status = "stopped"]
  /\ showReconnectButton' = (showReconnectButton \/ ~streams[p].terminal)
  /\ UNCHANGED <<selection, pending, aggregated, buffers>>

Next ==
  \/ \E ps \in SUBSET Pods : \E ended \in SUBSET ps : podsChanged(ps, ended)
  \/ \E name \in pods \cup {All} : setSelectedPodName(name)
  \/ \E c \in Containers : setSelectedContainer(c)
  \/ \E o \in Options : setOptions(o)
  \/ handleReconnect
  \/ runEffects
  \/ flush
  \/ \E p \in Pods : deliver(p) \/ reconnect(p) \/ onReconnectStop(p)

Spec == Init /\ [][Next]_vars
----------------------------------------------------------------------------
\* The download, and the terminal unless older lines come before xterm.
Outputs == {logs} \cup (IF overtaken THEN {} ELSE {xterm})

\* Once the effects have run, nothing is shown that was asked for with another
\* selection: a switch of pod, container or settings leaves no line behind, and
\* a cancelled stream adds none (the cleanup and clearLogs of the effect).  For
\* the terminal this needs the last clear to have found every write carried out.
ShownMatchesSelection ==
  ~pending =>
    \A buffer \in Outputs : \A f \in Range(buffer) :
      /\ f.pod \in selectedPods
      /\ f.container = selectedContainer
      /\ f.options = options

\* The times pod p's lines carry tell their order.
Timed(p) ==
  \A i, j \in LineNumbers : i < j => earlier(TimeOf[options][p][i], TimeOf[options][p][j])

\* The lines of pod p in a buffer are those of the log, each once.
ShowsLog(buffer, p, log) ==
  /\ {f \in Range(buffer) : f.pod = p} = Range(log)
  /\ \A i, j \in DOMAIN buffer :
       i < j /\ buffer[i].pod = p /\ buffer[j].pod = p => buffer[i].line # buffer[j].line

InOrder(buffer, p) ==
  \A i, j \in DOMAIN buffer :
    i < j /\ buffer[i].pod = p /\ buffer[j].pod = p => buffer[i].line < buffer[j].line

\* The log of every selected pod is shown completely and once, in the terminal
\* and in the download, whichever pods append and whichever start over meanwhile
\* (appendAllPodsLogFragments, rebuildAllPodsLogBuffer), unless the stream lost
\* a connection that had delivered one fragment or has not delivered since.  It
\* is in the log's order when it is shown alone or its times tell the order:
\* sortLogsByTimestamp puts lines of one time, or of none, in that of their text.
NothingLost ==
  ~pending =>
    \A p \in selectedPods : \A buffer \in Outputs :
      LET s == streams[p]
      IN ~s.short /\ s.fragments # <<>>
           => /\ ShowsLog(buffer, p, s.fragments)
              /\ selectedPodName # All \/ Timed(p) => InOrder(buffer, p)

\* A viewer whose stream gave up while a selected pod still runs offers to
\* reconnect (onReconnectStop closes over allSelectedPodsAreTerminal, which the
\* list of pods changes under it).
ReconnectOffered ==
  ~pending /\ ~(selectedPods \subseteq terminated)
    => ((\E p \in Pods : streams[p].status = "stopped") => showReconnectButton)
=============================================================================
