--------------------------- MODULE JobLogs_proofs ---------------------------
(***************************************************************************)
(* The logs viewer shows the selection's lines, all of them and only them,  *)
(* and offers to reconnect, for every number of pods, every set of          *)
(* containers and settings and every length of the logs.                    *)
(***************************************************************************)
EXTENDS JobLogs, SequenceTheorems, FiniteSetTheorems, TLAPS

----------------------------------------------------------------------------
(* The inductive invariant.  It speaks of the states whose effects have     *)
(* run: until then a cancelled stream may write anything.                   *)

\* The lines the selection asks pod p for.
LinesOf(p) == [pod : selectedPods \cap {p}, container : {selectedContainer},
               options : {options}, line : LineNumbers]

Lines == [pod : selectedPods, container : {selectedContainer},
          options : {options}, line : LineNumbers]

Increasing(log) ==
  \A i, j \in DOMAIN log : i < j => log[i].line < log[j].line

Shows(buffer, p, log) ==
  ShowsLog(buffer, p, log) /\ (Timed(p) => InOrder(buffer, p))

StreamsOf(p) ==
  [status : {"none", "open", "stopped"}, container : {selectedContainer, None},
   options : {options, None}, fragments : Seq(LinesOf(p)), next : Int,
   lastRenderedCount : Nat, terminal : BOOLEAN, short : BOOLEAN]

\* A stream was started for the selection, delivers its lines in order and
\* knows whether all pods had ended; who gives up early shows the button.
StreamPart(p) ==
  LET s == streams[p]
  IN /\ s \in StreamsOf(p)
     /\ s.status = "none" => s.fragments = <<>>
     /\ s.status # "none" =>
          /\ p \in selectedPods
          /\ s.container = selectedContainer /\ s.options = options
          /\ s.terminal <=> allSelectedPodsAreTerminal
          /\ ~aggregated => selectedPods \subseteq {p}
          /\ aggregated => selectedPodName = All
     /\ s.status = "stopped" /\ ~s.terminal => showReconnectButton

\* What the streams deliver ends below the line they deliver next, and within
\* the bounds.
FragmentsPart(p) ==
  /\ streams[p].next - Len(streams[p].fragments) \in 1 .. MaxStart
  /\ Len(streams[p].fragments) <= MaxLines
  /\ Increasing(streams[p].fragments)
  /\ \A i \in DOMAIN streams[p].fragments :
       streams[p].fragments[i].line < streams[p].next

BuffersPart ==
  /\ logs \in Seq(Lines) /\ xterm \in Seq(Lines)
  /\ DOMAIN allPodLogsByPod = Pods /\ DOMAIN lastProcessedLogCountByPod = Pods
  /\ \A p \in Pods : allPodLogsByPod[p] \in Seq(LinesOf(p))

\* All pods: a pod's list is its stream's until the stream starts over, and
\* both buffers show it unless a fragment was lost in a short connection.
AllPodsPart(p) ==
  LET s == streams[p]
      log == allPodLogsByPod[p]
  IN /\ lastProcessedLogCountByPod[p] = Len(log)
     /\ s.fragments # <<>> => log = s.fragments
     /\ s.fragments = <<>> /\ Len(log) = 1 => s.short
     /\ ~s.short => Shows(logs, p, log) /\ Shows(xterm, p, log)

\* One pod: the same of the terminal and the count of what it was given.
OnePodPart(p) ==
  LET s == streams[p]
  IN /\ s.fragments # <<>> =>
          /\ logs = s.fragments
          /\ s.lastRenderedCount = Len(s.fragments)
          /\ ~s.short => xterm = s.fragments
     /\ s.fragments = <<>> /\ s.lastRenderedCount = 1 => s.short
     /\ s.fragments = <<>> /\ s.lastRenderedCount = 0 /\ ~s.short => xterm = <<>>

Coherent ==
  /\ DOMAIN streams = Pods
  /\ BuffersPart
  /\ \A p \in Pods : /\ StreamPart(p)
                     /\ FragmentsPart(p)
                     /\ aggregated => AllPodsPart(p)
                     /\ ~aggregated /\ streams[p].status # "none" => OnePodPart(p)

LogsInv == pods \subseteq Pods /\ options \in Options /\ (~pending => Coherent)

----------------------------------------------------------------------------
(* Sorting.                                                                 *)

LEMMA RangeOfSequence ==
  ASSUME NEW T, NEW s \in Seq(T)
  PROVE  IsFiniteSet(Range(s)) /\ Range(s) \subseteq T
<1>1. Len(s) \in Nat /\ DOMAIN s = 1 .. Len(s) /\ \A i \in 1 .. Len(s) : s[i] \in T
  BY ElementOfSeq, LenProperties
<1>2. s \in Surjection(1 .. Len(s), Range(s))
  <2>1. s \in [1 .. Len(s) -> Range(s)]
    BY <1>1, LenProperties DEF Range
  <2>2. \A t \in Range(s) : \E i \in 1 .. Len(s) : s[i] = t
    BY <1>1 DEF Range
  <2> QED
    BY <2>1, <2>2 DEF Surjection
<1>3. IsFiniteSet(1 .. Len(s))
  BY <1>1, FS_Interval
<1>4. IsFiniteSet(Range(s))
  BY <1>2, <1>3, FS_Surjection
<1> QED
  BY <1>1, <1>4 DEF Range

\* A strict total order on the fragments of S.
Ordered(S) ==
  /\ \A f \in S : ~before(f, f)
  /\ \A f, g \in S : f = g \/ before(f, g) \/ before(g, f)
  /\ \A f, g, h \in S : before(f, g) /\ before(g, h) => before(f, h)

Sorted(q, S) ==
  /\ q \in Seq(S) /\ Range(q) = S
  /\ \A i, j \in DOMAIN q : i < j => before(q[i], q[j])

\* The number of fragments before one another tells them apart, so every
\* number below that of all of them is the place of one.
LEMMA SortSorts ==
  ASSUME NEW S, IsFiniteSet(S), Ordered(S)
  PROVE  Sorted(sortLogsByTimestamp(S), S)
<1> DEFINE n == Cardinality(S)
           down(f) == {g \in S : before(g, f)}
           rank == [f \in S |-> Cardinality(down(f))]
           q == sortLogsByTimestamp(S)
<1>1. n \in Nat
  BY FS_CardinalityType
<1>2. \A f \in S : IsFiniteSet(down(f)) /\ Cardinality(down(f)) \in 0 .. (n - 1)
  <2> TAKE f \in S
  <2>1. down(f) \in SUBSET (S \ {f})
    BY DEF Ordered
  <2>2. IsFiniteSet(S \ {f}) /\ Cardinality(S \ {f}) = n - 1
    BY FS_RemoveElement
  <2>3. IsFiniteSet(down(f)) /\ Cardinality(down(f)) <= n - 1
    <3> HIDE DEF down, n
    <3> QED
      BY <2>1, <2>2, FS_Subset
  <2>4. Cardinality(down(f)) \in Nat
    BY <2>3, FS_CardinalityType
  <2> QED
    BY <1>1, <2>3, <2>4
<1>3. \A f, g \in S : before(f, g) => Cardinality(down(f)) < Cardinality(down(g))
  <2> SUFFICES ASSUME NEW f \in S, NEW g \in S, before(f, g)
               PROVE  Cardinality(down(f)) < Cardinality(down(g))
    OBVIOUS
  <2>1. down(f) \in SUBSET down(g) /\ f \in down(g) /\ f \notin down(f)
    BY DEF Ordered
  <2>2. Cardinality(down(f)) <= Cardinality(down(g))
        /\ Cardinality(down(f)) # Cardinality(down(g))
    <3> HIDE DEF down
    <3> QED
      BY <1>2, <2>1, FS_Subset
  <2> HIDE DEF down, n
  <2> QED
    BY <1>1, <1>2, <2>2
<1>4. rank \in [S -> 0 .. (n - 1)]
  BY <1>2
<1>5. \A f, g \in S : rank[f] = rank[g] => f = g
  <2> SUFFICES ASSUME NEW f \in S, NEW g \in S, rank[f] = rank[g]
               PROVE  f = g
    OBVIOUS
  <2>1. Cardinality(down(f)) = Cardinality(down(g))
    OBVIOUS
  <2>2. ~before(f, g) /\ ~before(g, f)
    <3> HIDE DEF down, n
    <3> QED
      BY <1>1, <1>2, <1>3, <2>1
  <2> QED
    BY <2>2 DEF Ordered
<1>6. \A k \in 0 .. (n - 1) : \E f \in S : rank[f] = k
  <2>1. rank \in Injection(S, 0 .. (n - 1))
    <3> HIDE DEF rank
    <3> QED
      BY <1>4, <1>5 DEF Injection, IsInjective
  <2>2. IsFiniteSet(0 .. (n - 1)) /\ Cardinality(0 .. (n - 1)) = n
    BY <1>1, FS_Interval
  <2>3. rank \in Surjection(S, 0 .. (n - 1))
    <3> HIDE DEF rank
    <3> QED
      BY <2>1, <2>2, FS_Injection
  <2> HIDE DEF rank
  <2> QED
    BY <2>3 DEF Surjection
<1>7. DOMAIN q = 1 .. n
      /\ \A i \in 1 .. n : q[i] \in S /\ rank[q[i]] = i - 1
  <2>1. q = [i \in 1 .. n |-> CHOOSE f \in S : Cardinality(down(f)) = i - 1]
    BY DEF sortLogsByTimestamp
  <2>2. ASSUME NEW i \in 1 .. n
        PROVE  \E f \in S : Cardinality(down(f)) = i - 1
    <3>1. i - 1 \in 0 .. (n - 1)
      BY <1>1
    <3>2. PICK f \in S : rank[f] = i - 1
      BY <1>6, <3>1
    <3> QED
      BY <3>2
  <2>3. ASSUME NEW i \in 1 .. n
        PROVE  q[i] \in S /\ Cardinality(down(q[i])) = i - 1
    <3> DEFINE e == CHOOSE f \in S : Cardinality(down(f)) = i - 1
    <3>1. q[i] = e
      BY <2>1
    <3>2. e \in S /\ Cardinality(down(e)) = i - 1
      BY <2>2
    <3> HIDE DEF e
    <3> QED
      BY <3>1, <3>2
  <2> QED
    BY <2>1, <2>3
<1> HIDE DEF n, q
<1>8. q \in Seq(S)
  <2>1. q \in [1 .. n -> S]
    BY <1>7, <1>1 DEF q, n, sortLogsByTimestamp
  <2> QED
    BY <2>1, <1>1, SeqDef
<1>9. Range(q) = S
  <2>1. ASSUME NEW f \in S PROVE f \in Range(q)
    <3>1. rank[f] \in 0 .. (n - 1) /\ rank[f] + 1 \in 1 .. n
      BY <1>1, <1>4
    <3> DEFINE i == rank[f] + 1
    <3>2. q[i] \in S /\ rank[q[i]] = rank[f]
      <4>1. i - 1 = rank[f]
        BY <1>1, <3>1
      <4> HIDE DEF rank
      <4> QED
        BY <1>7, <3>1, <4>1
    <3> HIDE DEF rank
    <3>3. q[i] = f
      BY <1>5, <3>2
    <3> QED
      BY <1>7, <3>1, <3>3 DEF Range
  <2> QED
    BY <1>7, <2>1 DEF Range
<1>10. ASSUME NEW i \in DOMAIN q, NEW j \in DOMAIN q, i < j
       PROVE  before(q[i], q[j])
  <2>1. /\ i \in 1 .. n /\ j \in 1 .. n
        /\ q[i] \in S /\ q[j] \in S /\ rank[q[i]] = i - 1 /\ rank[q[j]] = j - 1
    BY <1>7
  <2>2. q[i] # q[j]
    <3> HIDE DEF rank
    <3> QED
      BY <1>1, <1>10, <2>1
  <2>3. ~before(q[j], q[i])
    <3>1. Cardinality(down(q[i])) = i - 1 /\ Cardinality(down(q[j])) = j - 1
      BY <2>1
    <3> HIDE DEF down
    <3> QED
      BY <1>1, <1>3, <1>10, <2>1, <3>1
  <2> QED
    BY <2>1, <2>2, <2>3 DEF Ordered
<1> QED
  BY <1>8, <1>9, <1>10 DEF Sorted, q

LEMMA SelectedPodsArePods ==
  pods \subseteq Pods => selectedPods \subseteq Pods /\ selectedPods \subseteq Int
<1>1. selectedPods \subseteq pods
  BY DEF selectedPods, getSelectedPods
<1>2. Pods \subseteq Int
  BY PodsAssumption DEF Pods
<1> QED
  BY <1>1, <1>2

\* Two lines of the selection differ in their pod or in their number.
LEMMA LinesDiffer ==
  ASSUME pods \subseteq Pods, NEW f \in Lines, NEW g \in Lines
  PROVE  /\ f.pod \in Pods /\ f.pod \in Int
         /\ f.line \in LineNumbers /\ f.line \in Int
         /\ f.pod = g.pod /\ f.line = g.line => f = g
<1>1. f.pod \in Pods /\ f.pod \in Int /\ f.line \in LineNumbers /\ f.line \in Int
  <2>1. f.pod \in selectedPods /\ f.line \in LineNumbers
    BY DEF Lines
  <2>2. LineNumbers \subseteq Int
    BY BoundsAssumption DEF LineNumbers
  <2> QED
    BY <2>1, <2>2, SelectedPodsArePods
<1>2. f.pod = g.pod /\ f.line = g.line => f = g
  <2>1. /\ f = [pod |-> f.pod, container |-> selectedContainer,
                options |-> options, line |-> f.line]
        /\ g = [pod |-> g.pod, container |-> selectedContainer,
                options |-> options, line |-> g.line]
    BY DEF Lines
  <2> QED
    BY <2>1
<1> QED
  BY <1>1, <1>2

LEMMA LinesOrdered ==
  ASSUME pods \subseteq Pods, options \in Options, NEW S \in SUBSET Lines
  PROVE  Ordered(S)
<1>1. ASSUME NEW f \in S
      PROVE  /\ f.pod \in Int /\ f.line \in Int
             /\ timeOf(f) \in Nat /\ textOf(f) \in Nat
  <2>1. f.pod \in Pods /\ f.pod \in Int /\ f.line \in LineNumbers /\ f.line \in Int
    BY LinesDiffer
  <2>2. TimeOf[options][f.pod][f.line] \in Nat /\ TextOf[f.pod][f.line] \in Nat
    BY <2>1, LogsAssumption
  <2> QED
    BY <2>1, <2>2 DEF timeOf, textOf
<1>2. ASSUME NEW f \in S, NEW g \in S, f.pod = g.pod, f.line = g.line
      PROVE  f = g
  BY <1>2, LinesDiffer
<1>3. \A f \in S : ~before(f, f)
  BY <1>1 DEF before, earlier
<1>4. ASSUME NEW f \in S, NEW g \in S
      PROVE  f = g \/ before(f, g) \/ before(g, f)
  <2>1. CASE f.pod = g.pod /\ f.line = g.line
    BY <1>2, <2>1
  <2>2. CASE ~(f.pod = g.pod /\ f.line = g.line)
    <3>1. /\ f.pod \in Int /\ f.line \in Int /\ timeOf(f) \in Nat /\ textOf(f) \in Nat
          /\ g.pod \in Int /\ g.line \in Int /\ timeOf(g) \in Nat /\ textOf(g) \in Nat
      BY <1>1
    <3> QED
      BY <2>2, <3>1 DEF before, earlier
  <2> QED
    BY <2>1, <2>2
<1>5. ASSUME NEW f \in S, NEW g \in S, NEW h \in S, before(f, g), before(g, h)
      PROVE  before(f, h)
  <2>1. /\ f.pod \in Int /\ f.line \in Int /\ timeOf(f) \in Nat /\ textOf(f) \in Nat
        /\ g.pod \in Int /\ g.line \in Int /\ timeOf(g) \in Nat /\ textOf(g) \in Nat
        /\ h.pod \in Int /\ h.line \in Int /\ timeOf(h) \in Nat /\ textOf(h) \in Nat
    BY <1>1
  <2> QED
    BY <1>5, <2>1 DEF before, earlier
<1> QED
  BY <1>3, <1>4, <1>5 DEF Ordered

\* The list written again shows every pod's lines, in their order if their times
\* tell it.
LEMMA RebuildShows ==
  ASSUME pods \subseteq Pods, options \in Options, NEW byPod,
         \A p \in Pods : byPod[p] \in Seq(LinesOf(p))
  PROVE  LET sorted == sortLogsByTimestamp(UNION {Range(byPod[p]) : p \in Pods})
         IN  /\ sorted \in Seq(Lines)
             /\ \A p \in Pods : Shows(sorted, p, byPod[p])
<1> DEFINE S == UNION {Range(byPod[p]) : p \in Pods}
           sorted == sortLogsByTimestamp(S)
<1>1. \A p \in Pods : IsFiniteSet(Range(byPod[p])) /\ Range(byPod[p]) \subseteq LinesOf(p)
  BY RangeOfSequence
<1>2. IsFiniteSet(S)
  <2> DEFINE ranges == [p \in Pods |-> Range(byPod[p])]
             T == {Range(byPod[p]) : p \in Pods}
  <2>1. ranges \in Surjection(Pods, T)
    BY DEF Surjection
  <2>2. IsFiniteSet(Pods)
    BY PodsAssumption, FS_Interval DEF Pods
  <2>3. IsFiniteSet(T)
    <3> HIDE DEF ranges, T
    <3> QED
      BY <2>1, <2>2, FS_Surjection
  <2>4. \A R \in T : IsFiniteSet(R)
    BY <1>1
  <2> HIDE DEF T
  <2>5. IsFiniteSet(UNION T)
    BY <2>3, <2>4, FS_UNION
  <2> QED
    BY <2>5 DEF T
<1>3. S \in SUBSET Lines /\ \A p \in Pods : \A f \in S : f.pod = p <=> f \in Range(byPod[p])
  <2>1. \A p \in Pods : \A f \in LinesOf(p) : f \in Lines /\ f.pod = p
    BY DEF LinesOf, Lines
  <2> QED
    BY <1>1, <2>1
<1>4. Ordered(S)
  <2> HIDE DEF S
  <2> QED
    BY <1>3, LinesOrdered
<1>5. Sorted(sorted, S)
  <2> HIDE DEF S
  <2> QED
    BY <1>2, <1>4, SortSorts
<1>6. sorted \in Seq(Lines)
  <2> HIDE DEF S
  <2> QED
    BY <1>3, <1>5, SeqMonotonic DEF Sorted
<1>7. ASSUME NEW p \in Pods
      PROVE  Shows(sorted, p, byPod[p])
  <2> HIDE DEF sorted
  <2>1. {f \in Range(sorted) : f.pod = p} = Range(byPod[p])
    <3>1. Range(sorted) = S
      BY <1>5 DEF Sorted
    <3>2. Range(byPod[p]) \subseteq S
      OBVIOUS
    <3> HIDE DEF S
    <3> QED
      BY <1>3, <3>1, <3>2
  <2>2. ASSUME NEW i \in DOMAIN sorted, NEW j \in DOMAIN sorted, i < j,
               sorted[i].pod = p, sorted[j].pod = p
        PROVE  /\ sorted[i].line # sorted[j].line
               /\ Timed(p) => sorted[i].line < sorted[j].line
    <3> DEFINE f == sorted[i]
               g == sorted[j]
    <3>1. before(f, g)
      BY <1>5, <2>2 DEF Sorted
    <3>2. f \in Lines /\ g \in Lines /\ f \in S /\ g \in S
      <4>1. f \in Range(sorted) /\ g \in Range(sorted)
        BY DEF Range
      <4> HIDE DEF S, f, g
      <4> QED
        BY <1>3, <1>5, <4>1 DEF Sorted
    <3>3. ~before(g, g) /\ ~before(g, f)
      <4> HIDE DEF S, f, g
      <4> QED
        BY <1>4, <3>1, <3>2 DEF Ordered
    <3> HIDE DEF f, g
    <3>4. f.line \in LineNumbers /\ g.line \in LineNumbers
          /\ f.line \in Int /\ g.line \in Int
      BY <3>2, LinesDiffer
    <3>5. f.pod = p /\ g.pod = p
      BY <2>2 DEF f, g
    <3>6. f.line # g.line
      BY <3>1, <3>2, <3>3, <3>5, LinesDiffer
    <3>7. ASSUME Timed(p), g.line < f.line PROVE FALSE
      <4>1. earlier(TimeOf[options][p][g.line], TimeOf[options][p][f.line])
        BY <3>4, <3>7 DEF Timed
      <4>2. before(g, f)
        BY <3>5, <4>1 DEF before, timeOf
      <4> QED
        BY <3>3, <4>2
    <3> QED
      BY <3>4, <3>6, <3>7 DEF f, g
  <2> QED
    BY <2>1, <2>2 DEF Shows, ShowsLog, InOrder
<1> QED
  BY <1>6, <1>7

----------------------------------------------------------------------------
(* Appending.                                                               *)

LEMMA ConcatRange ==
  ASSUME NEW T, NEW s \in Seq(T), NEW t \in Seq(T)
  PROVE  Range(s \o t) = Range(s) \cup Range(t)
<1>1. /\ s \o t \in Seq(T) /\ Len(s \o t) = Len(s) + Len(t)
      /\ \A i \in 1 .. Len(s) + Len(t) :
           (s \o t)[i] = IF i <= Len(s) THEN s[i] ELSE t[i - Len(s)]
  BY ConcatProperties
<1>2. /\ Len(s) \in Nat /\ DOMAIN s = 1 .. Len(s)
      /\ Len(t) \in Nat /\ DOMAIN t = 1 .. Len(t)
      /\ DOMAIN (s \o t) = 1 .. Len(s) + Len(t)
  BY <1>1, LenProperties
<1>3. ASSUME NEW i \in DOMAIN (s \o t) PROVE (s \o t)[i] \in Range(s) \cup Range(t)
  <2>1. CASE i <= Len(s)
    BY <1>1, <1>2, <2>1 DEF Range
  <2>2. CASE ~(i <= Len(s))
    <3>1. i - Len(s) \in DOMAIN t
      BY <1>2, <2>2
    <3> QED
      BY <1>1, <1>2, <2>2, <3>1 DEF Range
  <2> QED
    BY <2>1, <2>2
<1>4. ASSUME NEW i \in DOMAIN s PROVE s[i] \in Range(s \o t)
  <2>1. i \in DOMAIN (s \o t) /\ (s \o t)[i] = s[i]
    BY <1>1, <1>2
  <2> QED
    BY <2>1 DEF Range
<1>5. ASSUME NEW i \in DOMAIN t PROVE t[i] \in Range(s \o t)
  <2>1. /\ i + Len(s) \in DOMAIN (s \o t)
        /\ ~(i + Len(s) <= Len(s)) /\ (i + Len(s)) - Len(s) = i
    BY <1>2
  <2>2. (s \o t)[i + Len(s)] = t[i]
    BY <1>1, <1>2, <2>1
  <2> QED
    BY <2>1, <2>2 DEF Range
<1> QED
  BY <1>3, <1>4, <1>5 DEF Range

\* A new last line of the log goes to the end of the buffer.
LEMMA AppendShows ==
  ASSUME NEW p, NEW buffer \in Seq(Lines), NEW log \in Seq(LinesOf(p)),
         NEW f \in LinesOf(p),
         \A i \in DOMAIN log : log[i].line < f.line,
         Shows(buffer, p, log)
  PROVE  Shows(buffer \o <<f>>, p, log \o <<f>>)
<1>1. f \in Lines /\ f.pod = p /\ <<f>> \in Seq(Lines) /\ <<f>> \in Seq(LinesOf(p))
  BY DEF Lines, LinesOf
<1>2. Range(buffer \o <<f>>) = Range(buffer) \cup Range(<<f>>)
      /\ Range(log \o <<f>>) = Range(log) \cup Range(<<f>>)
  <2> DEFINE new == <<f>>
  <2>0. new \in Seq(Lines) /\ new \in Seq(LinesOf(p))
    BY <1>1
  <2> HIDE DEF new
  <2>1. Range(buffer \o new) = Range(buffer) \cup Range(new)
    BY <2>0, ConcatRange
  <2>2. Range(log \o new) = Range(log) \cup Range(new)
    BY <2>0, ConcatRange
  <2> QED
    BY <2>1, <2>2 DEF new
<1>3. Range(<<f>>) = {f}
  BY DEF Range
<1>4. {g \in Range(buffer \o <<f>>) : g.pod = p} = Range(log \o <<f>>)
  BY <1>1, <1>2, <1>3 DEF Shows, ShowsLog
<1> DEFINE longer == buffer \o <<f>>
<1>5. /\ Len(buffer) \in Nat /\ DOMAIN buffer = 1 .. Len(buffer)
      /\ DOMAIN longer = 1 .. Len(buffer) + 1
      /\ \A i \in DOMAIN buffer : longer[i] = buffer[i]
      /\ longer[Len(buffer) + 1] = f
  BY <1>1, LenProperties, ConcatProperties
<1> HIDE DEF longer
<1>6. ASSUME NEW i \in DOMAIN longer, NEW j \in DOMAIN longer, i < j,
             longer[i].pod = p, longer[j].pod = p
      PROVE  /\ longer[i].line # longer[j].line
             /\ Timed(p) => longer[i].line < longer[j].line
  <2>1. i \in DOMAIN buffer
    BY <1>5, <1>6
  <2>2. CASE j \in DOMAIN buffer
    BY <1>5, <1>6, <2>1, <2>2 DEF Shows, ShowsLog, InOrder
  <2>3. CASE j = Len(buffer) + 1
    <3>1. buffer[i] \in Range(log)
      BY <1>5, <1>6, <2>1 DEF Shows, ShowsLog, Range
    <3>2. buffer[i].line < f.line
      BY <3>1 DEF Range
    <3>3. buffer[i].line \in Int /\ f.line \in Int
      <4>1. buffer[i] \in Lines /\ LineNumbers \subseteq Int
        BY <2>1, ElementOfSeq, <1>5, BoundsAssumption DEF LineNumbers
      <4> QED
        BY <1>1, <4>1 DEF Lines
    <3> QED
      BY <1>5, <2>1, <2>3, <3>2, <3>3
  <2> QED
    BY <1>5, <2>2, <2>3
<1> QED
  BY <1>4, <1>6 DEF Shows, ShowsLog, InOrder, longer

\* What other pods append changes nothing for a pod.
LEMMA OthersShow ==
  ASSUME NEW p, NEW q, q # p, NEW log, NEW buffer \in Seq(Lines),
         NEW new \in Seq(LinesOf(p)), Shows(buffer, q, log)
  PROVE  Shows(buffer \o new, q, log)
<1>1. LinesOf(p) \subseteq Lines /\ \A f \in LinesOf(p) : f.pod = p
  BY DEF Lines, LinesOf
<1>2. new \in Seq(Lines)
  BY <1>1, SeqMonotonic
<1>3. Range(buffer \o new) = Range(buffer) \cup Range(new)
  BY <1>2, ConcatRange
<1>4. \A f \in Range(new) : f.pod = p
  BY <1>1, RangeOfSequence
<1>5. {f \in Range(buffer \o new) : f.pod = q} = Range(log)
  BY <1>3, <1>4 DEF Shows, ShowsLog
<1> DEFINE longer == buffer \o new
<1>6. /\ Len(buffer) \in Nat /\ DOMAIN buffer = 1 .. Len(buffer)
      /\ Len(new) \in Nat /\ DOMAIN new = 1 .. Len(new)
      /\ DOMAIN longer = 1 .. Len(buffer) + Len(new)
      /\ \A i \in DOMAIN longer :
           longer[i] = IF i <= Len(buffer) THEN buffer[i] ELSE new[i - Len(buffer)]
  BY <1>2, LenProperties, ConcatProperties
<1> HIDE DEF longer
<1>7. ASSUME NEW i \in DOMAIN longer, longer[i].pod = q
      PROVE  i \in DOMAIN buffer /\ longer[i] = buffer[i]
  <2>1. CASE i <= Len(buffer)
    BY <1>6, <2>1
  <2>2. CASE ~(i <= Len(buffer))
    <3>1. i - Len(buffer) \in DOMAIN new /\ longer[i] = new[i - Len(buffer)]
      BY <1>6, <2>2
    <3> QED
      BY <1>4, <1>7, <3>1 DEF Range
  <2> QED
    BY <2>1, <2>2
<1>8. \A i, j \in DOMAIN longer :
        i < j /\ longer[i].pod = q /\ longer[j].pod = q
          => /\ longer[i].line # longer[j].line
             /\ Timed(q) => longer[i].line < longer[j].line
  BY <1>7 DEF Shows, ShowsLog, InOrder
<1> QED
  BY <1>5, <1>8 DEF Shows, ShowsLog, InOrder, longer

----------------------------------------------------------------------------
(* The steps.                                                               *)

LEMMA InitCoherent ==
  Init => LogsInv
BY OptionsAssumption DEF Init, LogsInv

\* What the user and the list of pods change is rendered before anything else.
LEMMA ChangesRender ==
  ASSUME LogsInv,
         \/ \E ps \in SUBSET Pods : \E ended \in SUBSET ps : podsChanged(ps, ended)
         \/ \E name \in pods \cup {All} : setSelectedPodName(name)
         \/ \E c \in Containers : setSelectedContainer(c)
         \/ \E o \in Options : setOptions(o)
         \/ handleReconnect
  PROVE  LogsInv'
<1>1. pending' /\ pods' \subseteq Pods /\ options' \in Options
  BY DEF LogsInv, podsChanged, setSelectedPodName, setSelectedContainer, setOptions,
         handleReconnect, selection
<1> QED
  BY <1>1 DEF LogsInv

LEMMA SameSelection ==
  ASSUME UNCHANGED selection
  PROVE  /\ selectedPods' = selectedPods /\ Lines' = Lines
         /\ allSelectedPodsAreTerminal' = allSelectedPodsAreTerminal
         /\ \A p : LinesOf(p)' = LinesOf(p) /\ StreamsOf(p)' = StreamsOf(p)
         /\ \A p : Timed(p)' = Timed(p)
BY DEF selection, selectedPods, getSelectedPods, Lines, LinesOf, StreamsOf,
       allSelectedPodsAreTerminal, Timed

LEMMA StreamFields ==
  ASSUME NEW p, NEW x \in StreamsOf(p)
  PROVE  /\ \A v \in {"none", "open", "stopped"} : [x EXCEPT !.status = v] \in StreamsOf(p)
         /\ [x EXCEPT !.container = selectedContainer] \in StreamsOf(p)
         /\ [x EXCEPT !.options = options] \in StreamsOf(p)
         /\ \A v \in Seq(LinesOf(p)) : [x EXCEPT !.fragments = v] \in StreamsOf(p)
         /\ \A v \in Int : [x EXCEPT !.next = v] \in StreamsOf(p)
         /\ \A v \in Nat : [x EXCEPT !.lastRenderedCount = v] \in StreamsOf(p)
         /\ \A v \in BOOLEAN : [x EXCEPT !.terminal = v] \in StreamsOf(p)
         /\ \A v \in BOOLEAN : [x EXCEPT !.short = v] \in StreamsOf(p)
BY DEF StreamsOf

\* A started stream is the selection's, a cancelled one is gone.
LEMMA StartedStreams ==
  ASSUME NEW p, NEW s, s = NoStream \/ (p \in selectedPods /\ s = getLogs)
  PROVE  /\ s \in StreamsOf(p)
         /\ s.fragments = <<>> /\ s.lastRenderedCount = 0 /\ s.status # "stopped"
         /\ s.status # "none" =>
              /\ s = getLogs /\ p \in selectedPods
              /\ s.container = selectedContainer /\ s.options = options
              /\ s.terminal <=> allSelectedPodsAreTerminal
<1>0. <<>> \in Seq(LinesOf(p))
  BY EmptySeq
<1>1. /\ NoStream \in StreamsOf(p) /\ NoStream.status = "none"
      /\ NoStream.fragments = <<>> /\ NoStream.lastRenderedCount = 0
  BY <1>0 DEF NoStream, StreamsOf
<1>2. /\ getLogs \in StreamsOf(p) /\ getLogs.status = "open"
      /\ getLogs.fragments = <<>> /\ getLogs.lastRenderedCount = 0
      /\ getLogs.container = selectedContainer /\ getLogs.options = options
      /\ getLogs.terminal <=> allSelectedPodsAreTerminal
  <2>1. allSelectedPodsAreTerminal \in BOOLEAN
    BY DEF allSelectedPodsAreTerminal
  <2> DEFINE G(t) == [NoStream EXCEPT !.status = "open", !.container = selectedContainer,
                                      !.options = options, !.terminal = t]
  <2>2. ASSUME NEW t \in BOOLEAN
        PROVE  /\ G(t) \in StreamsOf(p) /\ G(t).status = "open"
               /\ G(t).fragments = <<>> /\ G(t).lastRenderedCount = 0
               /\ G(t).container = selectedContainer /\ G(t).options = options
               /\ G(t).terminal = t
    <3>1. G(t) \in StreamsOf(p)
      <4> DEFINE x == [NoStream EXCEPT !.status = "open"]
                 y == [x EXCEPT !.container = selectedContainer]
                 z == [y EXCEPT !.options = options]
      <4>1. x \in StreamsOf(p)
        BY <1>1, StreamFields
      <4>2. y \in StreamsOf(p)
        <5> HIDE DEF x
        <5> QED
          BY <4>1, StreamFields
      <4>3. z \in StreamsOf(p)
        <5> HIDE DEF y
        <5> QED
          BY <4>2, StreamFields
      <4>4. [z EXCEPT !.terminal = t] \in StreamsOf(p)
        <5> HIDE DEF z
        <5> QED
          BY <4>3, StreamFields
      <4> QED
        BY <4>4
    <3> QED
      BY <3>1 DEF NoStream
  <2>3. getLogs = G(allSelectedPodsAreTerminal)
    BY DEF getLogs
  <2> HIDE DEF G
  <2> QED
    BY <2>1, <2>2, <2>3
<1> QED
  BY <1>1, <1>2

LEMMA EmptyShows ==
  ASSUME NEW p
  PROVE  Shows(<<>>, p, <<>>)
<1>1. Range(<<>>) = {} /\ DOMAIN <<>> = {}
  BY DEF Range
<1> QED
  BY <1>1 DEF Shows, ShowsLog, InOrder

LEMMA EffectsCohere ==
  ASSUME LogsInv, runEffects
  PROVE  LogsInv'
<1> USE DEF runEffects
<1>1. pods' = pods /\ terminated' = terminated /\ options' = options
      /\ pods' \subseteq Pods /\ options' \in Options
  BY DEF LogsInv
<1> SUFFICES ASSUME ~pending' PROVE Coherent'
  BY <1>1 DEF LogsInv
<1>2. UNCHANGED selection
  <2>1. selectedPodName' = selectedPodName /\ selectedContainer' = selectedContainer
    BY DEF selectionEffect
  <2> QED
    BY <1>1, <2>1 DEF selection
<1>3. /\ selectedPods' = selectedPods /\ Lines' = Lines
      /\ allSelectedPodsAreTerminal' = allSelectedPodsAreTerminal
      /\ \A p : LinesOf(p)' = LinesOf(p) /\ StreamsOf(p)' = StreamsOf(p)
      /\ \A p : Timed(p)' = Timed(p)
  BY <1>2, SameSelection
<1> DEFINE started == IF selectedContainer = None THEN {} ELSE selectedPods
<1>4. started \subseteq selectedPods
  OBVIOUS
<1>5. /\ streams' = [p \in Pods |-> IF p \in started THEN getLogs ELSE NoStream]
      /\ aggregated' = (IF started = {} THEN aggregated ELSE selectedPodName = All)
      /\ xterm' = <<>> /\ logs' = <<>>
      /\ allPodLogsByPod' = [p \in Pods |-> <<>>]
      /\ lastProcessedLogCountByPod' = [p \in Pods |-> 0]
  BY DEF streamEffect, clearLogs, clear
<1> HIDE DEF started
<1>6. BuffersPart'
  BY <1>3, <1>5, EmptySeq DEF BuffersPart
<1>7. ASSUME NEW p \in Pods
      PROVE  /\ StreamPart(p)' /\ FragmentsPart(p)' /\ AllPodsPart(p)' /\ OnePodPart(p)'
  <2> DEFINE s == IF p \in started THEN getLogs ELSE NoStream
  <2>1. streams'[p] = s
    BY <1>5
  <2>2. /\ s \in StreamsOf(p)
        /\ s.fragments = <<>> /\ s.lastRenderedCount = 0 /\ s.status # "stopped"
        /\ s.status # "none" =>
             /\ s = getLogs /\ p \in selectedPods
             /\ s.container = selectedContainer /\ s.options = options
             /\ s.terminal <=> allSelectedPodsAreTerminal
        /\ s.next = 1
    <3>1. s.next = 1
      BY DEF NoStream, getLogs
    <3> HIDE DEF s
    <3>2. s = NoStream \/ (p \in selectedPods /\ s = getLogs)
      BY <1>4 DEF s
    <3> QED
      BY <3>1, <3>2, StartedStreams
  <2>3. s.status # "none" => p \in started
    BY DEF NoStream
  <2> HIDE DEF s
  <2>4. s.status # "none" /\ ~aggregated' => selectedPods \subseteq {p}
    <3> SUFFICES ASSUME s.status # "none", ~aggregated' PROVE selectedPods \subseteq {p}
      OBVIOUS
    <3>1. selectedPodName # All
      BY <1>5, <2>3
    <3>2. selectedPods = pods \cap {selectedPodName}
      BY <3>1 DEF selectedPods, getSelectedPods
    <3> QED
      BY <1>4, <2>3, <3>2
  <2>9. s.status # "none" /\ aggregated' => selectedPodName = All
    BY <1>5, <2>3
  <2>5. StreamPart(p)'
    BY <1>2, <1>3, <2>1, <2>2, <2>4, <2>9 DEF StreamPart, selection
  <2>6. FragmentsPart(p)'
    <3>1. s.next - Len(s.fragments) \in 1 .. MaxStart /\ Len(s.fragments) <= MaxLines
      BY <2>2, BoundsAssumption
    <3> QED
      BY <2>1, <2>2, <3>1 DEF FragmentsPart, Increasing
  <2>7. AllPodsPart(p)'
    BY <1>3, <1>5, <2>1, <2>2, EmptyShows, EmptySeq DEF AllPodsPart, Shows
  <2>8. OnePodPart(p)'
    BY <1>5, <2>1, <2>2 DEF OnePodPart
  <2> QED
    BY <2>5, <2>6, <2>7, <2>8
<1>8. DOMAIN streams' = Pods
  BY <1>5
<1> QED
  BY <1>6, <1>7, <1>8 DEF Coherent

----------------------------------------------------------------------------
(* A delivery.                                                              *)

LEMMA AppendFacts ==
  ASSUME NEW T, NEW log \in Seq(T), NEW f \in T
  PROVE  /\ Append(log, f) \in Seq(T) /\ Append(log, f) # <<>>
         /\ Append(log, f) = log \o <<f>>
         /\ Len(log) \in Nat /\ Len(Append(log, f)) = Len(log) + 1
         /\ DOMAIN log = 1 .. Len(log) /\ DOMAIN Append(log, f) = 1 .. Len(log) + 1
         /\ \A i \in 1 .. Len(log) : Append(log, f)[i] = log[i]
         /\ Append(log, f)[Len(log) + 1] = f
<1>1. Len(log) \in Nat /\ DOMAIN log = 1 .. Len(log)
  BY LenProperties
<1>2. /\ Append(log, f) \in Seq(T) /\ Len(Append(log, f)) = Len(log) + 1
      /\ DOMAIN Append(log, f) = 1 .. Len(log) + 1
      /\ \A i \in 1 .. Len(log) : Append(log, f)[i] = log[i]
      /\ Append(log, f)[Len(log) + 1] = f
  BY <1>1
<1>3. Append(log, f) # <<>>
  BY <1>1, <1>2, EmptySeq
<1>4. Append(log, f) = log \o <<f>>
  OBVIOUS
<1> QED
  BY <1>1, <1>2, <1>3, <1>4

\* What is new of a list one line longer.
LEMMA NewOfAppended ==
  ASSUME NEW T, NEW log \in Seq(T), NEW f \in T, NEW n \in Nat
  PROVE  /\ SubSeq(Append(log, f), n + 1, Len(Append(log, f))) \in Seq(T)
         /\ n = Len(log) => SubSeq(Append(log, f), n + 1, Len(Append(log, f))) = <<f>>
<1> DEFINE longer == Append(log, f)
           new == SubSeq(longer, n + 1, Len(longer))
<1>1. /\ longer \in Seq(T) /\ Len(log) \in Nat /\ Len(longer) = Len(log) + 1
      /\ longer[Len(log) + 1] = f
  BY AppendFacts
<1> HIDE DEF longer
<1>2. \A i \in (n + 1) .. Len(longer) : longer[i] \in T
  BY <1>1, ElementOfSeq
<1>3. /\ new \in Seq(T)
      /\ Len(new) = IF n + 1 <= Len(longer) THEN Len(longer) - (n + 1) + 1 ELSE 0
      /\ \A i \in 1 .. Len(longer) - (n + 1) + 1 : new[i] = longer[(n + 1) + i - 1]
  <2> DEFINE m == n + 1
             l == Len(longer)
  <2>1. m \in Int /\ l \in Int /\ \A i \in m .. l : longer[i] \in T
    BY <1>1, <1>2
  <2> HIDE DEF m, l
  <2>2. /\ SubSeq(longer, m, l) \in Seq(T)
        /\ Len(SubSeq(longer, m, l)) = IF m <= l THEN l - m + 1 ELSE 0
        /\ \A i \in 1 .. l - m + 1 : SubSeq(longer, m, l)[i] = longer[m + i - 1]
    BY <2>1, SubSeqProperties
  <2> QED
    BY <2>2 DEF m, l
<1> HIDE DEF new
<1>4. ASSUME n = Len(log) PROVE new = <<f>>
  <2>1. Len(new) = 1
    BY <1>1, <1>3, <1>4
  <2>2. new[1] = f
    <3>1. 1 \in 1 .. Len(longer) - (n + 1) + 1 /\ (n + 1) + 1 - 1 = Len(log) + 1
      BY <1>1, <1>4
    <3> QED
      BY <1>1, <1>3, <3>1
  <2>3. <<f>> \in Seq(T) /\ Len(<<f>>) = 1 /\ <<f>>[1] = f
    OBVIOUS
  <2>4. \A i \in 1 .. Len(new) : new[i] = <<f>>[i]
    BY <2>1, <2>2, <2>3
  <2> QED
    BY <1>3, <2>1, <2>3, <2>4, SeqEqual
<1> QED
  BY <1>3, <1>4 DEF new, longer

\* The stream after it: one more line, above all others.
LEMMA StreamGrows ==
  ASSUME NEW p, StreamPart(p), FragmentsPart(p), streams[p].status = "open",
         Len(streams[p].fragments) < MaxLines
  PROVE  LET s == streams[p]
             f == Fragment(p, s, s.next)
             nextLogs == Append(s.fragments, f)
         IN  /\ f \in LinesOf(p) /\ f.line = s.next
             /\ nextLogs \in Seq(LinesOf(p)) /\ Increasing(nextLogs)
             /\ \A i \in DOMAIN nextLogs : nextLogs[i].line < s.next + 1
             /\ (s.next + 1) - Len(nextLogs) \in 1 .. MaxStart /\ Len(nextLogs) <= MaxLines
<1> DEFINE s == streams[p]
           f == Fragment(p, s, s.next)
           nextLogs == Append(s.fragments, f)
<1>1. /\ s.fragments \in Seq(LinesOf(p)) /\ s.next \in Int
      /\ s.container = selectedContainer /\ s.options = options /\ p \in selectedPods
  BY DEF StreamPart, StreamsOf
<1>8. Len(s.fragments) \in Nat /\ s.next - Len(s.fragments) \in 1 .. MaxStart
  BY <1>1, LenProperties DEF FragmentsPart
<1>2. f \in LinesOf(p) /\ f.line = s.next
  <2>1. s.next \in LineNumbers
    BY <1>1, <1>8, BoundsAssumption DEF LineNumbers
  <2> QED
    BY <1>1, <2>1 DEF Fragment, LinesOf
<1> HIDE DEF f
<1>3. /\ nextLogs \in Seq(LinesOf(p))
      /\ Len(s.fragments) \in Nat
      /\ DOMAIN s.fragments = 1 .. Len(s.fragments)
      /\ DOMAIN nextLogs = 1 .. Len(s.fragments) + 1
      /\ \A i \in 1 .. Len(s.fragments) : nextLogs[i] = s.fragments[i]
      /\ nextLogs[Len(s.fragments) + 1] = f
  BY <1>1, <1>2, AppendFacts
<1> HIDE DEF nextLogs
<1>4. \A i \in 1 .. Len(s.fragments) : s.fragments[i].line \in Int
  <2>1. \A i \in 1 .. Len(s.fragments) : s.fragments[i] \in LinesOf(p)
    BY <1>1, ElementOfSeq
  <2>2. LineNumbers \subseteq Int
    BY BoundsAssumption DEF LineNumbers
  <2> QED
    BY <2>1, <2>2 DEF LinesOf
<1>5. \A i \in DOMAIN s.fragments : s.fragments[i].line < s.next
  BY DEF FragmentsPart
<1>6. ASSUME NEW i \in DOMAIN nextLogs PROVE nextLogs[i].line < s.next + 1
  <2>1. CASE i \in 1 .. Len(s.fragments)
    BY <1>1, <1>3, <1>4, <1>5, <2>1
  <2>2. CASE i = Len(s.fragments) + 1
    BY <1>1, <1>2, <1>3, <2>2
  <2> QED
    BY <1>3, <2>1, <2>2
<1>7. ASSUME NEW i \in DOMAIN nextLogs, NEW j \in DOMAIN nextLogs, i < j
      PROVE  nextLogs[i].line < nextLogs[j].line
  <2>1. i \in 1 .. Len(s.fragments)
    BY <1>3, <1>7
  <2>2. CASE j \in 1 .. Len(s.fragments)
    BY <1>3, <1>7, <2>1, <2>2 DEF FragmentsPart, Increasing
  <2>3. CASE j = Len(s.fragments) + 1
    BY <1>2, <1>3, <1>5, <2>1, <2>3
  <2> QED
    BY <1>3, <2>2, <2>3
<1>9. Len(nextLogs) = Len(s.fragments) + 1
  <2> HIDE DEF s
  <2> QED
    BY <1>1, <1>2, AppendFacts DEF nextLogs
<1>10. (s.next + 1) - Len(nextLogs) \in 1 .. MaxStart /\ Len(nextLogs) <= MaxLines
  BY <1>1, <1>8, <1>9, BoundsAssumption
<1> QED
  BY <1>2, <1>3, <1>6, <1>7, <1>10 DEF Increasing, nextLogs, f

LEMMA DeliverStreams ==
  ASSUME Coherent, NEW p \in Pods, deliver(p)
  PROVE  LET s == streams[p]
             t == streams'[p]
             nextLogs == Append(s.fragments, Fragment(p, s, s.next))
         IN  /\ DOMAIN streams' = Pods
             /\ \A q \in Pods \ {p} : streams'[q] = streams[q]
             /\ t \in StreamsOf(p)
             /\ t.status = s.status /\ t.container = s.container /\ t.options = s.options
             /\ t.terminal = s.terminal /\ t.short = s.short
             /\ t.fragments = nextLogs /\ t.next = s.next + 1
             /\ t.lastRenderedCount = Len(nextLogs)
<1> DEFINE s == streams[p]
           nextLogs == Append(s.fragments, Fragment(p, s, s.next))
           x == [s EXCEPT !.fragments = nextLogs]
           y == [x EXCEPT !.next = s.next + 1]
           z == [y EXCEPT !.lastRenderedCount = Len(nextLogs)]
<1>1. s \in StreamsOf(p) /\ s.next \in Int /\ DOMAIN streams = Pods
  BY DEF Coherent, StreamPart, StreamsOf
<1>2. nextLogs \in Seq(LinesOf(p)) /\ Len(nextLogs) \in Nat
  <2>1. s.status = "open" /\ Len(s.fragments) < MaxLines
    BY DEF deliver
  <2>2. nextLogs \in Seq(LinesOf(p))
    BY <2>1, StreamGrows DEF Coherent
  <2> HIDE DEF nextLogs
  <2> QED
    BY <2>2, LenProperties
<1>3. streams' = [streams EXCEPT ![p] = z]
  BY <1>1 DEF deliver, StreamsOf
<1> HIDE DEF nextLogs, s
<1>4. x \in StreamsOf(p)
  BY <1>1, <1>2, StreamFields
<1>5. y \in StreamsOf(p)
  <2> DEFINE n == s.next + 1
  <2>1. n \in Int
    BY <1>1
  <2> HIDE DEF x, n
  <2>2. [x EXCEPT !.next = n] \in StreamsOf(p)
    BY <1>4, <2>1, StreamFields
  <2> QED
    BY <2>2 DEF n
<1>6. z \in StreamsOf(p)
  <2> HIDE DEF y
  <2> QED
    BY <1>2, <1>5, StreamFields
<1>7. /\ z.status = s.status /\ z.container = s.container /\ z.options = s.options
      /\ z.terminal = s.terminal /\ z.short = s.short
      /\ z.fragments = nextLogs /\ z.next = s.next + 1
      /\ z.lastRenderedCount = Len(nextLogs)
  BY <1>1 DEF StreamsOf
<1> HIDE DEF z
<1>8. /\ DOMAIN streams' = Pods /\ streams'[p] = z
      /\ \A q \in Pods \ {p} : streams'[q] = streams[q]
  BY <1>1, <1>3
<1> QED
  BY <1>6, <1>7, <1>8 DEF s, nextLogs

\* The parts about the streams alone.
LEMMA DeliverKeepsStreams ==
  ASSUME Coherent, NEW p \in Pods, deliver(p)
  PROVE  /\ DOMAIN streams' = Pods
         /\ \A q \in Pods : StreamPart(q)' /\ FragmentsPart(q)'
<1> DEFINE s == streams[p]
           t == streams'[p]
           nextLogs == Append(s.fragments, Fragment(p, s, s.next))
<1>1. /\ s.status = "open" /\ Len(s.fragments) < MaxLines
      /\ UNCHANGED <<selection, aggregated, showReconnectButton>>
  BY DEF deliver
<1>2. /\ selectedPods' = selectedPods /\ options' = options
      /\ selectedContainer' = selectedContainer /\ selectedPodName' = selectedPodName
      /\ allSelectedPodsAreTerminal' = allSelectedPodsAreTerminal
      /\ \A q : StreamsOf(q)' = StreamsOf(q)
  BY <1>1, SameSelection DEF selection
<1>3. /\ DOMAIN streams' = Pods
      /\ \A q \in Pods \ {p} : streams'[q] = streams[q]
      /\ t \in StreamsOf(p)
      /\ t.status = s.status /\ t.container = s.container /\ t.options = s.options
      /\ t.terminal = s.terminal
      /\ t.fragments = nextLogs /\ t.next = s.next + 1
  BY DeliverStreams
<1>4. StreamPart(p) /\ FragmentsPart(p)
  BY DEF Coherent
<1>5. /\ Increasing(nextLogs) /\ \A i \in DOMAIN nextLogs : nextLogs[i].line < s.next + 1
      /\ (s.next + 1) - Len(nextLogs) \in 1 .. MaxStart /\ Len(nextLogs) <= MaxLines
  BY <1>1, <1>4, StreamGrows
<1> HIDE DEF nextLogs
<1>6. StreamPart(p)'
  BY <1>1, <1>2, <1>3, <1>4 DEF StreamPart
<1>7. FragmentsPart(p)'
  <2>1. /\ t.next - Len(t.fragments) \in 1 .. MaxStart /\ Len(t.fragments) <= MaxLines
        /\ \A i \in DOMAIN t.fragments : t.fragments[i].line < t.next
    <3>1. t.fragments = nextLogs /\ t.next = s.next + 1
      BY <1>3
    <3> HIDE DEF t, s
    <3> QED
      BY <1>5, <3>1
  <2>2. Increasing(t.fragments)
    BY <1>3, <1>5
  <2> QED
    BY <2>1, <2>2 DEF FragmentsPart, Increasing
<1>8. ASSUME NEW q \in Pods \ {p} PROVE StreamPart(q)' /\ FragmentsPart(q)'
  <2>1. StreamPart(q) /\ FragmentsPart(q) /\ streams'[q] = streams[q]
    BY <1>3 DEF Coherent
  <2>2. StreamPart(q)'
    BY <1>1, <1>2, <2>1 DEF StreamPart
  <2>3. FragmentsPart(q)'
    BY <2>1 DEF FragmentsPart, Increasing
  <2> QED
    BY <2>2, <2>3
<1> QED
  BY <1>3, <1>6, <1>7, <1>8

\* With all pods shown: the buffers are appended to or written again.
LEMMA DeliverToAllPods ==
  ASSUME pods \subseteq Pods, options \in Options, Coherent, aggregated, NEW p \in Pods, deliver(p)
  PROVE  BuffersPart' /\ \A q \in Pods : AllPodsPart(q)'
<1> DEFINE s == streams[p]
           f == Fragment(p, s, s.next)
           nextLogs == Append(s.fragments, f)
           previous == lastProcessedLogCountByPod[p]
           byPod == [allPodLogsByPod EXCEPT ![p] = nextLogs]
           new == SubSeq(nextLogs, previous + 1, Len(nextLogs))
<1>1. /\ s.status = "open" /\ Len(s.fragments) < MaxLines /\ UNCHANGED selection
      /\ allPodLogsByPod' = byPod
      /\ lastProcessedLogCountByPod' = [lastProcessedLogCountByPod EXCEPT ![p] = Len(nextLogs)]
      /\ IF Len(nextLogs) < previous THEN rebuildAllPodsLogBuffer(byPod, p)
         ELSE xterm' = xterm \o new /\ logs' = logs \o new
  BY DEF deliver, appendAllPodsLogFragments, write
<1>2. Lines' = Lines /\ \A q : LinesOf(q)' = LinesOf(q) /\ Timed(q)' = Timed(q)
  BY <1>1, SameSelection
<1>3. /\ StreamPart(p) /\ FragmentsPart(p) /\ AllPodsPart(p) /\ BuffersPart
  BY DEF Coherent
<1>4. f \in LinesOf(p) /\ f.line = s.next /\ nextLogs \in Seq(LinesOf(p))
  BY <1>1, <1>3, StreamGrows
<1>5. s.fragments \in Seq(LinesOf(p))
  BY <1>3 DEF StreamPart, StreamsOf
<1> HIDE DEF f
<1>6. /\ Len(s.fragments) \in Nat /\ nextLogs # <<>>
      /\ nextLogs = s.fragments \o <<f>> /\ Len(nextLogs) = Len(s.fragments) + 1
  BY <1>4, <1>5, AppendFacts
<1>7. /\ \A q \in Pods \ {p} : streams'[q] = streams[q]
      /\ streams'[p].fragments = nextLogs /\ streams'[p].short = s.short
  BY DeliverStreams DEF f
<1>8. previous = Len(allPodLogsByPod[p]) /\ previous \in Nat
  <2>1. allPodLogsByPod[p] \in Seq(LinesOf(p)) /\ previous = Len(allPodLogsByPod[p])
    BY <1>3 DEF BuffersPart, AllPodsPart
  <2> QED
    BY <2>1, LenProperties
<1>9. new \in Seq(LinesOf(p)) /\ (previous = Len(s.fragments) => new = <<f>>)
  <2> HIDE DEF previous
  <2> QED
    BY <1>4, <1>5, <1>8, NewOfAppended
<1> HIDE DEF nextLogs, new
<1>10. /\ DOMAIN byPod = Pods /\ byPod[p] = nextLogs
       /\ \A q \in Pods \ {p} : byPod[q] = allPodLogsByPod[q]
       /\ \A q \in Pods : byPod[q] \in Seq(LinesOf(q))
  BY <1>3, <1>4 DEF BuffersPart
<1>11. /\ DOMAIN lastProcessedLogCountByPod' = Pods
       /\ lastProcessedLogCountByPod'[p] = Len(nextLogs)
       /\ \A q \in Pods \ {p} :
            lastProcessedLogCountByPod'[q] = lastProcessedLogCountByPod[q]
  BY <1>1, <1>3 DEF BuffersPart
<1> HIDE DEF byPod
\* The buffers show what the pods' lists hold.
<1>12. /\ logs' \in Seq(Lines) /\ xterm' \in Seq(Lines)
       /\ \A q \in Pods : ~streams'[q].short =>
            Shows(logs', q, byPod[q]) /\ Shows(xterm', q, byPod[q])
  <2>1. CASE Len(nextLogs) < previous
    <3> DEFINE sorted == sortLogsByTimestamp(UNION {Range(byPod[q]) : q \in Pods})
    <3>1. xterm' = sorted /\ logs' = sorted
      BY <1>1, <2>1 DEF rebuildAllPodsLogBuffer, writeEntireLogBuffer
    <3>2. sorted \in Seq(Lines) /\ \A q \in Pods : Shows(sorted, q, byPod[q])
      BY <1>10, RebuildShows
    <3> HIDE DEF sorted
    <3> QED
      BY <3>1, <3>2
  <2>2. CASE ~(Len(nextLogs) < previous)
    <3>1. xterm' = xterm \o new /\ logs' = logs \o new
      BY <1>1, <2>2
    <3>2. logs \in Seq(Lines) /\ xterm \in Seq(Lines) /\ new \in Seq(Lines)
      <4>1. LinesOf(p) \subseteq Lines
        BY DEF LinesOf, Lines
      <4>2. new \in Seq(Lines)
        BY <1>9, <4>1, SeqMonotonic
      <4> QED
        BY <1>3, <4>2 DEF BuffersPart
    <3>3. xterm \o new \in Seq(Lines) /\ logs \o new \in Seq(Lines)
      BY <3>2, ConcatProperties
    <3>4. ASSUME ~s.short
          PROVE  Shows(logs', p, nextLogs) /\ Shows(xterm', p, nextLogs)
      <4>1. allPodLogsByPod[p] = s.fragments
        <5>1. CASE s.fragments # <<>>
          BY <1>3, <5>1 DEF AllPodsPart
        <5>2. CASE s.fragments = <<>>
          <6>1. Len(s.fragments) = 0
            BY <5>2
          <6>2. previous # 1
            BY <1>3, <1>8, <3>4, <5>2 DEF AllPodsPart
          <6>3. Len(allPodLogsByPod[p]) = 0
            BY <1>6, <1>8, <2>2, <6>1, <6>2
          <6>4. allPodLogsByPod[p] \in Seq(LinesOf(p))
            BY <1>3 DEF BuffersPart
          <6> QED
            BY <5>2, <6>3, <6>4, EmptySeq
        <5> QED
          BY <5>1, <5>2
      <4>2. new = <<f>>
        BY <1>8, <1>9, <4>1
      <4>3. Shows(logs, p, s.fragments) /\ Shows(xterm, p, s.fragments)
        BY <1>3, <3>4, <4>1 DEF AllPodsPart
      <4>4. \A i \in DOMAIN s.fragments : s.fragments[i].line < f.line
        BY <1>3, <1>4 DEF FragmentsPart
      <4>5. Shows(logs \o <<f>>, p, s.fragments \o <<f>>)
        BY <1>4, <1>5, <3>2, <4>3, <4>4, AppendShows
      <4>6. Shows(xterm \o <<f>>, p, s.fragments \o <<f>>)
        BY <1>4, <1>5, <3>2, <4>3, <4>4, AppendShows
      <4> QED
        BY <1>6, <3>1, <4>2, <4>5, <4>6
    <3>5. ASSUME NEW q \in Pods \ {p}, ~streams[q].short
          PROVE  Shows(logs', q, byPod[q]) /\ Shows(xterm', q, byPod[q])
      <4>1. Shows(logs, q, byPod[q]) /\ Shows(xterm, q, byPod[q])
        BY <1>10, <3>5 DEF Coherent, AllPodsPart
      <4> QED
        BY <1>9, <3>1, <3>2, <4>1, OthersShow
    <3> QED
      BY <1>7, <1>10, <3>1, <3>3, <3>4, <3>5
  <2> QED
    BY <2>1, <2>2
<1>13. BuffersPart'
  BY <1>1, <1>2, <1>10, <1>11, <1>12 DEF BuffersPart
<1>14. AllPodsPart(p)'
  BY <1>1, <1>2, <1>6, <1>7, <1>10, <1>11, <1>12 DEF AllPodsPart, Shows
<1>15. ASSUME NEW q \in Pods \ {p} PROVE AllPodsPart(q)'
  <2>1. AllPodsPart(q)
    BY DEF Coherent
  <2> QED
    BY <1>1, <1>2, <1>7, <1>10, <1>11, <1>12, <2>1 DEF AllPodsPart, Shows
<1> QED
  BY <1>13, <1>14, <1>15

LEMMA ShowsItself ==
  ASSUME NEW p, NEW log \in Seq(LinesOf(p)), Increasing(log)
  PROVE  ShowsLog(log, p, log) /\ InOrder(log, p)
<1>1. Range(log) \subseteq LinesOf(p) /\ \A f \in LinesOf(p) : f.pod = p
  <2>1. Range(log) \subseteq LinesOf(p)
    BY RangeOfSequence
  <2>2. \A f \in LinesOf(p) : f.pod = p
    BY DEF LinesOf
  <2> QED
    BY <2>1, <2>2
<1>2. \A i \in DOMAIN log : log[i].line \in Int
  <2>1. LineNumbers \subseteq Int
    BY BoundsAssumption DEF LineNumbers
  <2>2. \A f \in LinesOf(p) : f.line \in Int
    BY <2>1 DEF LinesOf
  <2>3. \A i \in DOMAIN log : log[i] \in LinesOf(p)
    BY <1>1 DEF Range
  <2> QED
    BY <2>2, <2>3
<1> QED
  BY <1>1, <1>2 DEF ShowsLog, InOrder, Increasing

\* With one pod shown: the list is taken over, the terminal given what is new.
LEMMA DeliverToOnePod ==
  ASSUME Coherent, ~aggregated, NEW p \in Pods, deliver(p)
  PROVE  /\ BuffersPart'
         /\ \A q \in Pods : streams'[q].status # "none" => OnePodPart(q)'
<1> DEFINE s == streams[p]
           t == streams'[p]
           f == Fragment(p, s, s.next)
           nextLogs == Append(s.fragments, f)
           count == s.lastRenderedCount
           new == SubSeq(nextLogs, count + 1, Len(nextLogs))
<1>1. /\ s.status = "open" /\ Len(s.fragments) < MaxLines /\ UNCHANGED selection
      /\ UNCHANGED <<allPodLogsByPod, lastProcessedLogCountByPod>>
      /\ xterm' = IF Len(nextLogs) < count THEN nextLogs ELSE xterm \o new
      /\ logs' = nextLogs
  BY DEF deliver, updateSinglePodLogBuffer, write, writeEntireLogBuffer, lists
<1>2. Lines' = Lines /\ \A q : LinesOf(q)' = LinesOf(q)
  BY <1>1, SameSelection
<1>3. /\ StreamPart(p) /\ FragmentsPart(p) /\ OnePodPart(p) /\ BuffersPart
  BY <1>1 DEF Coherent
<1>4. f \in LinesOf(p) /\ nextLogs \in Seq(LinesOf(p))
  BY <1>1, <1>3, StreamGrows
<1>5. s.fragments \in Seq(LinesOf(p)) /\ count \in Nat /\ s.short \in BOOLEAN
  BY <1>3 DEF StreamPart, StreamsOf
<1> HIDE DEF f
<1>6. /\ Len(s.fragments) \in Nat /\ nextLogs # <<>>
      /\ nextLogs = s.fragments \o <<f>> /\ Len(nextLogs) = Len(s.fragments) + 1
  BY <1>4, <1>5, AppendFacts
<1>7. /\ \A q \in Pods \ {p} : streams'[q] = streams[q]
      /\ t.fragments = nextLogs /\ t.short = s.short /\ t.lastRenderedCount = Len(nextLogs)
  BY DeliverStreams DEF f
<1>8. new \in Seq(LinesOf(p)) /\ (count = Len(s.fragments) => new = <<f>>)
  <2> HIDE DEF count
  <2> QED
    BY <1>4, <1>5, NewOfAppended
<1> HIDE DEF nextLogs, new
<1>9. nextLogs \in Seq(Lines) /\ new \in Seq(Lines) /\ xterm \o new \in Seq(Lines)
  <2>1. LinesOf(p) \subseteq Lines
    BY DEF LinesOf, Lines
  <2>2. nextLogs \in Seq(Lines) /\ new \in Seq(Lines)
    BY <1>4, <1>8, <2>1, SeqMonotonic
  <2>3. xterm \in Seq(Lines)
    BY <1>3 DEF BuffersPart
  <2> QED
    BY <2>2, <2>3, ConcatProperties
<1>10. BuffersPart'
  BY <1>1, <1>2, <1>3, <1>9 DEF BuffersPart
<1>11. ASSUME ~s.short PROVE xterm' = nextLogs
  <2>1. CASE Len(nextLogs) < count
    BY <1>1, <2>1
  <2>2. CASE ~(Len(nextLogs) < count)
    <3>1. xterm = s.fragments /\ count = Len(s.fragments)
      <4>1. CASE s.fragments # <<>>
        BY <1>3, <1>11, <4>1 DEF OnePodPart
      <4>2. CASE s.fragments = <<>>
        <5>1. Len(s.fragments) = 0
          BY <4>2
        <5>2. count = 0
          <6>1. count # 1
            BY <1>3, <1>11, <4>2 DEF OnePodPart
          <6> HIDE DEF count
          <6> QED
            BY <1>5, <1>6, <2>2, <5>1, <6>1
        <5> QED
          BY <1>3, <1>11, <4>2, <5>1, <5>2 DEF OnePodPart
      <4> QED
        BY <4>1, <4>2
    <3> QED
      BY <1>1, <1>6, <1>8, <2>2, <3>1
  <2> QED
    BY <2>1, <2>2
<1>12. OnePodPart(p)'
  BY <1>1, <1>6, <1>7, <1>11 DEF OnePodPart
<1>13. ASSUME NEW q \in Pods, streams'[q].status # "none"
       PROVE  q = p
  <2> SUFFICES ASSUME q # p PROVE FALSE
    OBVIOUS
  <2>1. streams[q].status # "none" /\ StreamPart(q)
    BY <1>7, <1>13 DEF Coherent
  <2>2. p \in selectedPods /\ selectedPods \subseteq {q}
    BY <1>1, <1>3, <2>1 DEF StreamPart
  <2> QED
    BY <2>2
<1> QED
  BY <1>10, <1>12, <1>13

LEMMA DeliverCoheres ==
  ASSUME pods \subseteq Pods, options \in Options, Coherent, NEW p \in Pods, deliver(p)
  PROVE  Coherent'
<1>1. DOMAIN streams' = Pods /\ \A q \in Pods : StreamPart(q)' /\ FragmentsPart(q)'
  BY DeliverKeepsStreams
<1>2. aggregated' = aggregated
  BY DEF deliver
<1>3. CASE aggregated
  BY <1>1, <1>2, <1>3, DeliverToAllPods DEF Coherent
<1>4. CASE ~aggregated
  BY <1>1, <1>2, <1>4, DeliverToOnePod DEF Coherent
<1> QED
  BY <1>3, <1>4

----------------------------------------------------------------------------
(* A new connection, and the end of one.                                    *)

LEMMA ReconnectCoheres ==
  ASSUME Coherent, NEW p \in Pods, reconnect(p)
  PROVE  Coherent'
<1> DEFINE s == streams[p]
           t == streams'[p]
<1>1. PICK first \in {s.next - Len(s.fragments), s.next - Len(s.fragments) + 1} :
        first <= MaxStart /\ streams' = [streams EXCEPT ![p].fragments = <<>>, ![p].next = first,
                                   ![p].short = @ \/ Len(s.fragments) = 1]
  BY DEF reconnect
<1>18. FragmentsPart(p)
  BY DEF Coherent
<1>2. s.status = "open" /\ UNCHANGED <<selection, aggregated, buffers, showReconnectButton>>
  BY DEF reconnect
<1>3. /\ StreamPart(p) /\ DOMAIN streams = Pods /\ s \in StreamsOf(p)
      /\ s.fragments \in Seq(LinesOf(p)) /\ s.next \in Int /\ s.short \in BOOLEAN
  BY DEF Coherent, StreamPart, StreamsOf
<1>4. Len(s.fragments) \in Nat /\ (s.fragments # <<>> => Len(s.fragments) # 0)
  BY <1>3, LenProperties, EmptySeq
<1>5. first \in Int
  BY <1>3, <1>4
<1> DEFINE x == [s EXCEPT !.fragments = <<>>]
           y == [x EXCEPT !.next = first]
           short == s.short \/ Len(s.fragments) = 1
           z == [y EXCEPT !.short = short]
<1>6. short \in BOOLEAN
  BY Zenon
<1>7. streams' = [streams EXCEPT ![p] = z]
  BY <1>1, <1>3 DEF StreamsOf
<1>8. z \in StreamsOf(p)
  <2>1. x \in StreamsOf(p)
    BY <1>3, EmptySeq, StreamFields
  <2>2. y \in StreamsOf(p)
    <3> HIDE DEF x
    <3> QED
      BY <1>5, <2>1, StreamFields
  <2> HIDE DEF y, short
  <2> QED
    BY <1>6, <2>2, StreamFields
<1>9. /\ z.status = s.status /\ z.container = s.container /\ z.options = s.options
      /\ z.terminal = s.terminal /\ z.lastRenderedCount = s.lastRenderedCount
      /\ z.fragments = <<>> /\ z.short = short /\ z.next = first
  BY <1>3 DEF StreamsOf
<1>10. z.short <=> s.short \/ Len(s.fragments) = 1
  BY <1>9
<1> HIDE DEF z, short
<1>11. /\ DOMAIN streams' = Pods /\ t = z
       /\ \A q \in Pods \ {p} : streams'[q] = streams[q]
  BY <1>3, <1>7
<1>12. /\ selectedPods' = selectedPods /\ options' = options /\ Lines' = Lines
       /\ selectedContainer' = selectedContainer /\ selectedPodName' = selectedPodName
       /\ allSelectedPodsAreTerminal' = allSelectedPodsAreTerminal
       /\ \A q : StreamsOf(q)' = StreamsOf(q) /\ LinesOf(q)' = LinesOf(q)
       /\ \A q : Timed(q)' = Timed(q)
  BY <1>2, SameSelection DEF selection
<1>13. BuffersPart'
  BY <1>2, <1>12 DEF Coherent, BuffersPart, buffers, terminal, lists
<1>14. StreamPart(p)' /\ FragmentsPart(p)'
  <2>1. StreamPart(p)'
    BY <1>2, <1>3, <1>8, <1>9, <1>11, <1>12 DEF StreamPart
  <2>2. FragmentsPart(p)'
    <3>1. z.next = first /\ first \in 1 .. MaxStart /\ Len(<<>>) = 0
      BY <1>1, <1>3, <1>4, <1>5, <1>9, <1>18, BoundsAssumption DEF FragmentsPart
    <3> QED
      BY <1>9, <1>11, <3>1, BoundsAssumption DEF FragmentsPart, Increasing
  <2> QED
    BY <2>1, <2>2
<1>15. aggregated => AllPodsPart(p)'
  <2> SUFFICES ASSUME aggregated PROVE AllPodsPart(p)'
    OBVIOUS
  <2>1. AllPodsPart(p)
    BY DEF Coherent
  <2> QED
    BY <1>2, <1>9, <1>10, <1>11, <1>12, <2>1 DEF AllPodsPart, Shows, buffers, terminal, lists
<1>16. ~aggregated => OnePodPart(p)'
  <2> SUFFICES ASSUME ~aggregated PROVE OnePodPart(p)'
    OBVIOUS
  <2>1. OnePodPart(p)
    BY <1>2 DEF Coherent
  <2> QED
    BY <1>2, <1>4, <1>9, <1>10, <1>11, <2>1 DEF OnePodPart, buffers, terminal, lists
<1>17. ASSUME NEW q \in Pods \ {p}
       PROVE  /\ StreamPart(q)' /\ FragmentsPart(q)'
              /\ aggregated => AllPodsPart(q)'
              /\ ~aggregated /\ streams'[q].status # "none" => OnePodPart(q)'
  <2>1. /\ StreamPart(q) /\ FragmentsPart(q)
        /\ aggregated => AllPodsPart(q)
        /\ ~aggregated /\ streams[q].status # "none" => OnePodPart(q)
    BY DEF Coherent
  <2>2. StreamPart(q)'
    BY <1>2, <1>11, <1>12, <2>1 DEF StreamPart
  <2>3. FragmentsPart(q)'
    BY <1>11, <2>1 DEF FragmentsPart, Increasing
  <2>4. aggregated => AllPodsPart(q)'
    BY <1>2, <1>11, <1>12, <2>1 DEF AllPodsPart, Shows, buffers, terminal, lists
  <2>5. ~aggregated /\ streams'[q].status # "none" => OnePodPart(q)'
    BY <1>2, <1>11, <2>1 DEF OnePodPart, buffers, terminal, lists
  <2> QED
    BY <2>2, <2>3, <2>4, <2>5
<1> QED
  BY <1>2, <1>11, <1>13, <1>14, <1>15, <1>16, <1>17 DEF Coherent

LEMMA StopCoheres ==
  ASSUME Coherent, NEW p \in Pods, onReconnectStop(p)
  PROVE  Coherent'
<1> DEFINE s == streams[p]
           z == [s EXCEPT !.status = "stopped"]
<1>1. /\ s.status = "open" /\ streams' = [streams EXCEPT ![p] = z]
      /\ showReconnectButton' = (showReconnectButton \/ ~s.terminal)
      /\ UNCHANGED <<selection, aggregated, buffers>>
  BY DEF onReconnectStop
<1>2. StreamPart(p) /\ DOMAIN streams = Pods /\ s \in StreamsOf(p)
  BY DEF Coherent, StreamPart
<1>3. z \in StreamsOf(p)
  BY <1>2, StreamFields
<1>4. /\ z.status = "stopped" /\ z.container = s.container /\ z.options = s.options
      /\ z.terminal = s.terminal /\ z.lastRenderedCount = s.lastRenderedCount
      /\ z.fragments = s.fragments /\ z.short = s.short /\ z.next = s.next
  BY <1>2 DEF StreamsOf
<1> HIDE DEF z
<1>5. /\ DOMAIN streams' = Pods /\ streams'[p] = z
      /\ \A q \in Pods \ {p} : streams'[q] = streams[q]
  BY <1>1, <1>2
<1>6. /\ selectedPods' = selectedPods /\ options' = options /\ Lines' = Lines
      /\ selectedContainer' = selectedContainer /\ selectedPodName' = selectedPodName
      /\ allSelectedPodsAreTerminal' = allSelectedPodsAreTerminal
      /\ \A q : StreamsOf(q)' = StreamsOf(q) /\ LinesOf(q)' = LinesOf(q)
      /\ \A q : Timed(q)' = Timed(q)
  BY <1>1, SameSelection DEF selection
<1>7. BuffersPart'
  BY <1>1, <1>6 DEF Coherent, BuffersPart, buffers, terminal, lists
<1>8. ASSUME NEW q \in Pods
      PROVE  /\ StreamPart(q)' /\ FragmentsPart(q)'
             /\ aggregated => AllPodsPart(q)'
             /\ ~aggregated /\ streams'[q].status # "none" => OnePodPart(q)'
  <2>1. /\ StreamPart(q) /\ FragmentsPart(q)
        /\ aggregated => AllPodsPart(q)
        /\ ~aggregated /\ streams[q].status # "none" => OnePodPart(q)
    BY DEF Coherent
  <2>2. /\ streams'[q].fragments = streams[q].fragments /\ streams'[q].next = streams[q].next
        /\ streams'[q].short = streams[q].short
        /\ streams'[q].lastRenderedCount = streams[q].lastRenderedCount
        /\ streams'[q].status # "none" => streams[q].status # "none"
    BY <1>1, <1>4, <1>5
  <2>3. StreamPart(q)'
    <3>1. CASE q = p
      <4>1. z.status = "stopped" /\ ~z.terminal => showReconnectButton'
        BY <1>1, <1>4
      <4> QED
        BY <1>1, <1>2, <1>3, <1>4, <1>5, <1>6, <3>1, <4>1 DEF StreamPart
    <3>2. CASE q # p
      <4>1. showReconnectButton => showReconnectButton'
        BY <1>1
      <4>2. streams'[q] = streams[q]
        BY <1>5, <3>2
      <4> QED
        BY <1>1, <1>6, <2>1, <4>1, <4>2 DEF StreamPart
    <3> QED
      BY <3>1, <3>2
  <2>4. FragmentsPart(q)'
    BY <2>1, <2>2 DEF FragmentsPart, Increasing
  <2>5. aggregated => AllPodsPart(q)'
    BY <1>1, <1>6, <2>1, <2>2 DEF AllPodsPart, Shows, buffers, terminal, lists
  <2>6. ~aggregated /\ streams'[q].status # "none" => OnePodPart(q)'
    BY <1>1, <2>1, <2>2 DEF OnePodPart, buffers, terminal, lists
  <2> QED
    BY <2>3, <2>4, <2>5, <2>6
<1> QED
  BY <1>1, <1>5, <1>7, <1>8 DEF Coherent

LEMMA StreamStepsCohere ==
  ASSUME LogsInv, NEW p \in Pods, deliver(p) \/ reconnect(p) \/ onReconnectStop(p)
  PROVE  LogsInv'
<1>1. pods' = pods /\ options' = options /\ pending' = pending
  BY DEF deliver, reconnect, onReconnectStop, selection
<1> SUFFICES ASSUME ~pending PROVE Coherent'
  BY <1>1 DEF LogsInv
<1>2. Coherent /\ pods \subseteq Pods /\ options \in Options
  BY DEF LogsInv
<1> QED
  BY <1>2, DeliverCoheres, ReconnectCoheres, StopCoheres

\* What the terminal has written is no part of the invariant.
LEMMA StutterCoheres ==
  ASSUME LogsInv, UNCHANGED vars \/ flush
  PROVE  LogsInv'
<1>1. UNCHANGED <<pods, pending, streams, aggregated, logs, xterm, allPodLogsByPod,
                  lastProcessedLogCountByPod, showReconnectButton, selection>>
  BY DEF vars, buffers, terminal, lists, selection, flush
<1> SUFFICES ASSUME ~pending PROVE Coherent'
  BY <1>1 DEF LogsInv, selection
<1>2. Coherent
  BY DEF LogsInv
<1>3. /\ selectedPods' = selectedPods /\ options' = options /\ Lines' = Lines
      /\ selectedContainer' = selectedContainer /\ selectedPodName' = selectedPodName
      /\ allSelectedPodsAreTerminal' = allSelectedPodsAreTerminal
      /\ \A q : StreamsOf(q)' = StreamsOf(q) /\ LinesOf(q)' = LinesOf(q)
      /\ \A q : Timed(q)' = Timed(q)
  BY <1>1, SameSelection DEF selection
<1>4. BuffersPart'
  BY <1>1, <1>2, <1>3 DEF Coherent, BuffersPart
<1>5. ASSUME NEW q \in Pods
      PROVE  /\ StreamPart(q)' /\ FragmentsPart(q)'
             /\ aggregated => AllPodsPart(q)'
             /\ ~aggregated /\ streams'[q].status # "none" => OnePodPart(q)'
  <2>1. StreamPart(q)'
    BY <1>1, <1>2, <1>3 DEF Coherent, StreamPart
  <2>2. FragmentsPart(q)'
    BY <1>1, <1>2 DEF Coherent, FragmentsPart, Increasing
  <2>3. aggregated => AllPodsPart(q)'
    BY <1>1, <1>2, <1>3 DEF Coherent, AllPodsPart, Shows
  <2>4. ~aggregated /\ streams'[q].status # "none" => OnePodPart(q)'
    BY <1>1, <1>2 DEF Coherent, OnePodPart
  <2> QED
    BY <2>1, <2>2, <2>3, <2>4
<1> QED
  BY <1>1, <1>2, <1>4, <1>5 DEF Coherent

----------------------------------------------------------------------------
(* The theorems.                                                            *)

LEMMA LogsHolds ==
  Spec => []LogsInv
<1>1. ASSUME LogsInv, [Next]_vars PROVE LogsInv'
  <2>1. CASE \/ \E ps \in SUBSET Pods : \E ended \in SUBSET ps : podsChanged(ps, ended)
             \/ \E name \in pods \cup {All} : setSelectedPodName(name)
             \/ \E c \in Containers : setSelectedContainer(c)
             \/ \E o \in Options : setOptions(o)
             \/ handleReconnect
    BY <1>1, <2>1, ChangesRender
  <2>2. CASE runEffects
    BY <1>1, <2>2, EffectsCohere
  <2>3. ASSUME NEW p \in Pods, deliver(p) \/ reconnect(p) \/ onReconnectStop(p)
        PROVE  LogsInv'
    BY <1>1, <2>3, StreamStepsCohere
  <2>4. CASE UNCHANGED vars \/ flush
    BY <1>1, <2>4, StutterCoheres
  <2> QED
    BY <1>1, <2>1, <2>2, <2>3, <2>4 DEF Next
<1> QED
  BY <1>1, InitCoherent, PTL DEF Spec

\* Nothing of an earlier selection is left in the download once the effects of a
\* change have run (streamEffect: the cleanup and clearLogs), nor in the terminal
\* if it had written everything when it was last cleared.
THEOREM OnlyTheSelectionShown ==
  Spec => []ShownMatchesSelection
<1>1. LogsInv => ShownMatchesSelection
  <2> SUFFICES ASSUME LogsInv, ~pending, NEW buffer \in Outputs, NEW f \in Range(buffer)
               PROVE  /\ f.pod \in selectedPods
                      /\ f.container = selectedContainer /\ f.options = options
    BY DEF ShownMatchesSelection
  <2>1. logs \in Seq(Lines) /\ xterm \in Seq(Lines)
    BY DEF LogsInv, Coherent, BuffersPart
  <2>2. Range(logs) \subseteq Lines /\ Range(xterm) \subseteq Lines
    BY <2>1, RangeOfSequence
  <2>3. f \in Lines
    BY <2>2 DEF Outputs
  <2> QED
    BY <2>3 DEF Lines
<1> QED
  BY <1>1, LogsHolds, PTL

\* Every selected pod's log is shown completely and once, however the pods'
\* deliveries and new connections interleave (appendAllPodsLogFragments,
\* rebuildAllPodsLogBuffer, updateSinglePodLogBuffer), and in the log's order when
\* the pod is shown alone or its times tell the order.
THEOREM LogsComplete ==
  Spec => []NothingLost
<1>1. LogsInv => NothingLost
  <2> SUFFICES ASSUME LogsInv, ~pending, NEW p \in selectedPods, NEW buffer \in Outputs,
                      ~streams[p].short, streams[p].fragments # <<>>
               PROVE  /\ ShowsLog(buffer, p, streams[p].fragments)
                      /\ selectedPodName # All \/ Timed(p) => InOrder(buffer, p)
    BY DEF NothingLost
  <2>1. Coherent /\ p \in Pods
    BY SelectedPodsArePods DEF LogsInv
  <2>2. StreamPart(p) /\ FragmentsPart(p) /\ streams[p].status # "none"
    BY <2>1 DEF Coherent, StreamPart
  <2>3. buffer \in {logs, xterm}
    BY DEF Outputs
  <2>4. CASE aggregated
    <3>1. Shows(buffer, p, streams[p].fragments)
      BY <2>1, <2>3, <2>4 DEF Coherent, AllPodsPart
    <3>2. selectedPodName = All
      BY <2>2, <2>4 DEF StreamPart
    <3> QED
      BY <3>1, <3>2 DEF Shows
  <2>5. CASE ~aggregated
    <3>1. buffer = streams[p].fragments
      BY <2>1, <2>2, <2>3, <2>5 DEF Coherent, OnePodPart
    <3>2. streams[p].fragments \in Seq(LinesOf(p)) /\ Increasing(streams[p].fragments)
      BY <2>2 DEF StreamPart, StreamsOf, FragmentsPart
    <3> QED
      BY <3>1, <3>2, ShowsItself
  <2> QED
    BY <2>4, <2>5
<1> QED
  BY <1>1, LogsHolds, PTL

\* A stream that gave up while a selected pod runs leaves the reconnect button
\* (onReconnectStop): what its callback closed over is still so.
THEOREM ReconnectIsOffered ==
  Spec => []ReconnectOffered
<1>1. LogsInv => ReconnectOffered
  <2> SUFFICES ASSUME LogsInv, ~pending, ~(selectedPods \subseteq terminated),
                      NEW p \in Pods, streams[p].status = "stopped"
               PROVE  showReconnectButton
    BY DEF ReconnectOffered
  <2>1. StreamPart(p)
    BY DEF LogsInv, Coherent
  <2>2. ~allSelectedPodsAreTerminal
    BY DEF allSelectedPodsAreTerminal
  <2> QED
    BY <2>1, <2>2 DEF StreamPart
<1> QED
  BY <1>1, LogsHolds, PTL
=============================================================================
