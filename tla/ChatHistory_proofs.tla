------------------------- MODULE ChatHistory_proofs -------------------------
(***************************************************************************)
(* The chat history stays a sequence of well-formed messages: what its      *)
(* editing operators do to it, and the type invariant of Conversation, for  *)
(* every number of sends, every set of tools and every set of replies.      *)
(***************************************************************************)
EXTENDS Conversation_proofs, SequenceTheorems, WellFoundedInduction

----------------------------------------------------------------------------
(* The last message that passes a test.                                     *)

LEMMA MaxIsMember ==
  ASSUME NEW n \in Nat, NEW I \in SUBSET (1 .. n), I # {}
  PROVE  Max(I) \in I
<1> DEFINE gaps == {n - i : i \in I}
           less == OpToRel(<, Nat)
<1>1. gaps \subseteq Nat /\ gaps # {}
  <2>1. \A i \in I : n - i \in Nat
    OBVIOUS
  <2> QED
    BY <2>1
<1>2. PICK g \in gaps : \A h \in gaps : ~(<<h, g>> \in less)
  <2> HIDE DEF gaps
  <2> QED
    BY <1>1, NatLessThanWellFounded, WFMin
<1>3. \A h \in gaps : ~(h < g)
  BY <1>1, <1>2 DEF OpToRel
<1>4. PICK m \in I : g = n - m
  BY <1>2
<1>5. \A i \in I : m >= i
  BY <1>3, <1>4
<1> QED
  BY <1>4, <1>5 DEF Max

Ids == Calls \cup {NoCall, ErrorCall}

Roles == {"user", "assistant", "tool", "confirm", "system"}

Entries == [role : Roles, send : Sends, calls : SUBSET Calls, id : Ids,
            quiet : BOOLEAN, busy : BOOLEAN]

HistoryOK == history \in Seq(Entries)

LEMMA LastIndex ==
  ASSUME NEW h \in Seq(Entries), NEW I \in SUBSET (1 .. Len(h)), NEW last,
         last = IF I # {} THEN Max(I) ELSE 0
  PROVE  last \in 0 .. Len(h) /\ (last > 0 => last \in I)
<1>1. Len(h) \in Nat
  BY LenProperties
<1>2. CASE I # {}
  <2>1. last = Max(I) /\ Max(I) \in I
    BY <1>1, <1>2, MaxIsMember
  <2>2. last \in I /\ last \in 1 .. Len(h)
    BY <2>1
  <2> QED
    BY <1>1, <2>2
<1>3. CASE I = {}
  BY <1>1, <1>3
<1> QED
  BY <1>2, <1>3

LEMMA EntryTyped ==
  ASSUME NEW role \in Roles, NEW s \in Sends
  PROVE  Entry(role, s) \in Entries
  BY DEF Entry, Entries, Ids

LEMMA PromptsTyped ==
  ASSUME NEW s \in Sends
  PROVE  /\ userPrompt(s) \in Entries /\ assistantPrompt(s) \in Entries
         /\ confirmationPrompt(s) \in Entries /\ systemPrompt(s) \in Entries
  BY EntryTyped DEF userPrompt, assistantPrompt, confirmationPrompt, systemPrompt, Roles

LEMMA ToolCallsPromptTyped ==
  ASSUME NEW s \in Sends, NEW C \in SUBSET Calls
  PROVE  toolCallsPrompt(s, C) \in Entries
<1>1. Entry("assistant", s) \in Entries
  BY EntryTyped DEF Roles
<1> QED
  BY <1>1 DEF toolCallsPrompt, Entries

LEMMA ToolPromptsTyped ==
  ASSUME NEW c \in Calls
  PROVE  /\ c[1] \in Sends
         /\ toolPrompt(c) \in Entries /\ placeholderPrompt(c) \in Entries
         /\ untaggedPrompt(c) \in Entries /\ failurePrompt(c) \in Entries
<1>1. c[1] \in Sends
  BY DEF Calls
<1>2. Entry("tool", c[1]) \in Entries
  BY <1>1, EntryTyped DEF Roles
<1>3. toolPrompt(c) \in Entries /\ failurePrompt(c) \in Entries
  BY <1>2 DEF toolPrompt, failurePrompt, Entries, Ids
<1>4. placeholderPrompt(c) \in Entries
  BY <1>3 DEF placeholderPrompt, Entries
<1> QED
  BY <1>1, <1>2, <1>3, <1>4 DEF untaggedPrompt

----------------------------------------------------------------------------
(* What the operators on the history make of well-formed messages.          *)

LEMMA AnswerTyped ==
  ASSUME NEW h \in Seq(Entries), NEW s \in Sends
  PROVE  answerAfterTools(h, s) \in Seq(Entries)
<1> DEFINE I == {i \in 1 .. Len(h) : hasToolCalls(h[i])}
           last == findLastAssistantWithTools(h)
<1>1. last \in 0 .. Len(h)
  <2>1. last = IF I # {} THEN Max(I) ELSE 0
    BY DEF findLastAssistantWithTools, SelectLastInSeq
  <2> HIDE DEF last
  <2> QED
    BY <2>1, LastIndex
<1> HIDE DEF last
<1>2. last > 0 => SubSeq(h, 1, last) \in Seq(Entries)
  BY <1>1, LenProperties, ElementOfSeq, SubSeqProperties
<1>3. assistantPrompt(s) \in Entries
  BY PromptsTyped
<1>4. \A k \in Seq(Entries) : Append(k, assistantPrompt(s)) \in Seq(Entries)
  BY <1>3, AppendProperties
<1> QED
  BY <1>2, <1>4 DEF answerAfterTools, last

LEMMA TagTyped ==
  ASSUME NEW h \in Seq(Entries), NEW c \in Calls
  PROVE  tagLast(h, c) \in Seq(Entries)
<1> DEFINE I == {i \in 1 .. Len(h) : isUntagged(h[i])}
           last == SelectLastInSeq(h, isUntagged)
<1>1. last \in 0 .. Len(h) /\ Len(h) \in Nat
  <2>1. last = IF I # {} THEN Max(I) ELSE 0
    BY DEF SelectLastInSeq
  <2> HIDE DEF last
  <2> QED
    BY <2>1, LastIndex, LenProperties
<1>2. ASSUME NEW k \in 1 .. Len(h) PROVE [h EXCEPT ![k].id = c] \in Seq(Entries)
  <2>1. h[k] \in Entries
    BY ElementOfSeq
  <2>2. [h[k] EXCEPT !.id = c] \in Entries
    BY <2>1 DEF Entries, Ids
  <2>3. [h EXCEPT ![k] = [h[k] EXCEPT !.id = c]] \in Seq(Entries)
    BY <2>2, ExceptSeq
  <2> QED
    BY <2>3
<1> HIDE DEF last
<1> QED
  BY <1>1, <1>2 DEF tagLast, last

LEMMA ClearTyped ==
  ASSUME NEW h \in Seq(Entries)
  PROVE  clearToolConfirmation(h) \in Seq(Entries)
<1> DEFINE I == {i \in 1 .. Len(h) : isConfirmation(h[i])}
           last == SelectLastInSeq(h, isConfirmation)
<1>1. last \in 0 .. Len(h) /\ Len(h) \in Nat
  <2>1. last = IF I # {} THEN Max(I) ELSE 0
    BY DEF SelectLastInSeq
  <2> HIDE DEF last
  <2> QED
    BY <2>1, LastIndex, LenProperties
<1>2. ASSUME NEW k \in 1 .. Len(h) PROVE RemoveAt(h, k) \in Seq(Entries)
  <2>1. SubSeq(h, 1, k - 1) \in Seq(Entries)
    BY <1>1, ElementOfSeq, SubSeqProperties
  <2>2. SubSeq(h, k + 1, Len(h)) \in Seq(Entries)
    BY <1>1, ElementOfSeq, SubSeqProperties
  <2> QED
    BY <2>1, <2>2, ConcatProperties DEF RemoveAt
<1> HIDE DEF last
<1> QED
  BY <1>1, <1>2 DEF clearToolConfirmation, last

LEMMA UpdateTyped ==
  ASSUME NEW h \in Seq(Entries), NEW s
  PROVE  updateToolConfirmationMessage(h, s) \in Seq(Entries)
<1> DEFINE e(i) == IF h[i].role = "confirm" /\ h[i].send = s THEN [h[i] EXCEPT !.busy = TRUE]
                   ELSE h[i]
<1>1. Len(h) \in Nat /\ DOMAIN h = 1 .. Len(h)
  BY LenProperties
<1>2. \A i \in 1 .. Len(h) : e(i) \in Entries
  <2> SUFFICES ASSUME NEW i \in 1 .. Len(h) PROVE e(i) \in Entries
    OBVIOUS
  <2>1. h[i] \in Entries
    BY ElementOfSeq
  <2> QED
    BY <2>1 DEF Entries
<1> HIDE DEF e
<1>3. [i \in 1 .. Len(h) |-> e(i)] \in Seq(Entries)
  BY <1>1, <1>2
<1> QED
  BY <1>1, <1>3 DEF updateToolConfirmationMessage, e

----------------------------------------------------------------------------
(* The steps.                                                               *)

FlagsOK == /\ useDirectToolCalling \in BOOLEAN /\ cached \in BOOLEAN
           /\ showApiConfirmation \in BOOLEAN /\ loading \in BOOLEAN

LEMMA PushTyped ==
  ASSUME HistoryOK, NEW e \in Entries, push(e)
  PROVE  HistoryOK'
  BY AppendProperties DEF HistoryOK, push

LEMMA PushTwoTyped ==
  ASSUME HistoryOK, NEW a \in Entries, NEW b \in Entries, history' = history \o <<a, b>>
  PROVE  HistoryOK'
<1>1. <<a, b>> \in Seq(Entries)
  OBVIOUS
<1> QED
  BY <1>1, ConcatProperties DEF HistoryOK

LEMMA ErrorHistory ==
  ASSUME HistoryOK, NEW s \in Sends,
         handleUserSendError(s) \/ (\E k : handleChainBasedRequest(s, k))
         \/ (\E path, k : invoke(s, path, k))
  PROVE  HistoryOK'
<1>1. CASE history' = history
  BY <1>1 DEF HistoryOK
<1>2. CASE push(assistantPrompt(s))
  BY <1>2, PushTyped, PromptsTyped
<1> QED
  BY <1>1, <1>2 DEF handleUserSendError, handleChainBasedRequest, invoke

\* A call about to be processed is a call.
LEMMA NextCallTyped ==
  ASSUME ControlOK, NEW s \in Sends, NEW kind, NEW failed, processes(s, kind, failed)
  PROVE  NextCall(s) \in Calls
<1>1. frame[s].plan \in Seq(Tools) /\ frame[s].plan # <<>>
  BY DEF ControlOK, Frames, processes
<1> QED
  BY <1>1 DEF NextCall, Calls

LEMMA SendHistory ==
  ASSUME ControlOK, HistoryOK, NEW s \in Sends,
         \/ userSend(s) \/ callModel(s) \/ plainAnswer(s) \/ modelCallFails(s)
         \/ errorExplained(s) \/ toolsPrepared(s)
         \/ \E p \in Plans : orchestrateToolsForRequest(s, p) \/ handleToolCalls(s, p)
  PROVE  HistoryOK'
<1>0. CASE history' = history
  BY <1>0 DEF HistoryOK
<1>1. /\ userPrompt(s) \in Entries /\ assistantPrompt(s) \in Entries
      /\ confirmationPrompt(s) \in Entries
  BY PromptsTyped
<1>2. CASE userSend(s)
  BY <1>1, <1>2, PushTyped, PushTwoTyped DEF userSend
<1>3. CASE callModel(s)
  BY <1>3, ErrorHistory DEF callModel
<1>4. CASE modelCallFails(s)
  BY <1>4, ErrorHistory DEF modelCallFails
<1>5. CASE plainAnswer(s) \/ errorExplained(s)
  BY <1>1, <1>5, PushTyped DEF plainAnswer, errorExplained
<1>6. CASE toolsPrepared(s)
  BY <1>0, <1>1, <1>6, PushTyped DEF toolsPrepared, requestApproval
<1>7. ASSUME NEW p \in Plans, orchestrateToolsForRequest(s, p) PROVE HistoryOK'
  BY <1>0, <1>7 DEF orchestrateToolsForRequest
<1>8. ASSUME NEW p \in Plans, handleToolCalls(s, p) PROVE HistoryOK'
  <2>1. p \in Seq(Tools)
    BY PlansAssumption
  <2>2. CallsOf(s, p) \in SUBSET Calls
    BY <2>1 DEF CallsOf, Calls
  <2> QED
    BY <1>8, <2>2, PushTyped, ToolCallsPromptTyped DEF handleToolCalls
<1> QED
  BY <1>2, <1>3, <1>4, <1>5, <1>6, <1>7, <1>8

LEMMA ToolHistory ==
  ASSUME ControlOK, HistoryOK, NEW s \in Sends,
         \/ approvalGranted(s) \/ approvalRefused(s)
         \/ executeMcpTool(s) \/ executeGet(s) \/ executeWrite(s)
  PROVE  HistoryOK'
<1>0. CASE history' = history
  BY <1>0 DEF HistoryOK
<1>1. assistantPrompt(s) \in Entries
  BY PromptsTyped
<1>2. CASE approvalGranted(s)
  BY <1>0, <1>2 DEF approvalGranted
<1>3. CASE approvalRefused(s)
  <2> DEFINE plan == frame[s].plan
             denials == [i \in DOMAIN plan |-> toolPrompt(<<s, plan[i]>>)]
  <2>1. denials \in Seq(Entries)
    <3>1. plan \in Seq(Tools)
      BY DEF ControlOK, Frames
    <3> HIDE DEF plan
    <3>2. Len(plan) \in Nat /\ DOMAIN plan = 1 .. Len(plan)
      BY <3>1, LenProperties
    <3>3. \A i \in 1 .. Len(plan) : toolPrompt(<<s, plan[i]>>) \in Entries
      <4> SUFFICES ASSUME NEW i \in 1 .. Len(plan)
                   PROVE  toolPrompt(<<s, plan[i]>>) \in Entries
        OBVIOUS
      <4>1. <<s, plan[i]>> \in Calls
        BY <3>1, ElementOfSeq DEF Calls
      <4> QED
        BY <4>1, ToolPromptsTyped
    <3> QED
      BY <3>2, <3>3
  <2>2. CASE history' = history \o denials
    <3> HIDE DEF denials
    <3> QED
      BY <2>1, <2>2, ConcatProperties DEF HistoryOK
  <2>3. CASE push(assistantPrompt(s))
    BY <1>1, <2>3, PushTyped
  <2> QED
    BY <1>3, <2>2, <2>3 DEF approvalRefused
<1>4. CASE executeMcpTool(s)
  <2>1. NextCall(s) \in Calls
    BY <1>4, NextCallTyped DEF executeMcpTool
  <2> QED
    BY <1>0, <1>4, <2>1, PushTyped, ToolPromptsTyped DEF executeMcpTool, push
<1>5. CASE executeGet(s)
  <2>1. NextCall(s) \in Calls
    BY <1>5, NextCallTyped DEF executeGet
  <2>2. \A e \in Entries : tagLast(Append(history, e), NextCall(s)) \in Seq(Entries)
    BY <2>1, AppendProperties, TagTyped DEF HistoryOK
  <2>3. /\ untaggedPrompt(NextCall(s)) \in Entries /\ toolPrompt(NextCall(s)) \in Entries
        /\ assistantPrompt(s) \in Entries
    BY <1>1, <2>1, ToolPromptsTyped
  <2>4. CASE push(toolPrompt(NextCall(s)))
    BY <2>3, <2>4, PushTyped
  <2> QED
    BY <1>5, <2>2, <2>3, <2>4 DEF executeGet, HistoryOK
<1>6. CASE executeWrite(s)
  <2>1. NextCall(s) \in Calls
    BY <1>6, NextCallTyped DEF executeWrite
  <2> QED
    BY <1>6, <2>1, PushTyped, ToolPromptsTyped DEF executeWrite
<1> QED
  BY <1>2, <1>3, <1>4, <1>5, <1>6

LEMMA EndHistory ==
  ASSUME HistoryOK, NEW s \in Sends,
         toolsProcessed(s) \/ generateResponseFromToolResults(s) \/ processToolResponses(s)
  PROVE  HistoryOK'
<1>1. /\ assistantPrompt(s) \in Entries /\ systemPrompt(s) \in Entries
  BY PromptsTyped
<1>2. \A e \in Entries : Append(history, e) \in Seq(Entries)
  BY AppendProperties DEF HistoryOK
<1>3. CASE toolsProcessed(s)
  <2>1. history' = history \/ history' = Append(history, systemPrompt(s))
    BY <1>3 DEF toolsProcessed
  <2> QED
    BY <1>1, <1>2, <2>1 DEF HistoryOK
<1>4. CASE generateResponseFromToolResults(s)
  BY <1>1, <1>2, <1>4, ClearTyped
  DEF generateResponseFromToolResults, handleMultipleToolExecution, HistoryOK
<1>5. CASE processToolResponses(s)
  <2>1. getCorrectedResponse(history, s) \in Seq(Entries)
    BY <1>1, <1>2 DEF getCorrectedResponse
  <2> QED
    BY <1>1, <1>5, <2>1, AnswerTyped, PushTyped DEF processToolResponses, HistoryOK
<1> QED
  BY <1>3, <1>4, <1>5

LEMMA WindowHistory ==
  ASSUME ControlOK, HistoryOK,
         \/ \E s \in Sends : handleApprove(s) \/ handleDeny(s)
         \/ handleApiConfirmation \/ handleApiDialogClose
         \/ \E c \in Calls : handleActualApiRequest(c)
         \/ handleStopRequest \/ onClearHistory \/ configureTools
  PROVE  HistoryOK'
<1>0. CASE history' = history
  BY <1>0 DEF HistoryOK
<1>1. CASE \E s \in Sends : handleApprove(s)
  BY <1>1, UpdateTyped DEF handleApprove, HistoryOK
<1>2. ASSUME NEW c \in Calls, \/ push(untaggedPrompt(c)) \/ push(failurePrompt(c))
                              \/ history' = history \o <<failurePrompt(c), assistantPrompt(c[1])>>
      PROVE  HistoryOK'
  <2>1. /\ untaggedPrompt(c) \in Entries /\ failurePrompt(c) \in Entries
        /\ assistantPrompt(c[1]) \in Entries
    BY ToolPromptsTyped, PromptsTyped
  <2> QED
    BY <1>2, <2>1, PushTyped, PushTwoTyped
<1>3. CASE handleApiConfirmation
  BY <1>0, <1>2, <1>3 DEF handleApiConfirmation, ControlOK
<1>4. ASSUME NEW c \in Calls, handleActualApiRequest(c) PROVE HistoryOK'
  BY <1>2, <1>4 DEF handleActualApiRequest
<1>5. CASE onClearHistory
  BY <1>5, EmptySeq DEF onClearHistory, HistoryOK
<1> QED
  BY <1>0, <1>1, <1>3, <1>4, <1>5
  DEF handleDeny, handleApiDialogClose, handleStopRequest, configureTools

LEMMA CacheTyped ==
  ASSUME ControlOK, cached \in BOOLEAN, NEW s \in Sends, cacheResponse(s)
  PROVE  cached' \in BOOLEAN
<1>1. frame[s].caches \in BOOLEAN
  BY DEF ControlOK, Frames
<1>2. (cached \/ frame[s].caches) \in BOOLEAN
  BY <1>1, Zenon
<1> QED
  BY <1>2 DEF cacheResponse

LEMMA FlagsStep ==
  ASSUME ControlOK, FlagsOK, [Next]_vars
  PROVE  FlagsOK'
<1>1. ASSUME NEW s \in Sends, userSend(s) \/ Work(s)
             \/ \E p \in Plans : orchestrateToolsForRequest(s, p) \/ handleToolCalls(s, p)
      PROVE  FlagsOK'
  <2>1. useDirectToolCalling' \in BOOLEAN /\ showApiConfirmation' \in BOOLEAN
    BY <1>1
    DEF FlagsOK, Work, userSend, callModel, plainAnswer, modelCallFails, errorExplained,
        toolsPrepared, approvalGranted, approvalRefused, executeMcpTool, executeGet, executeWrite,
        toolsProcessed, generateResponseFromToolResults, processToolResponses,
        orchestrateToolsForRequest, handleToolCalls, abortVars, dialogVars
  <2>2. cached' = cached \/ cacheResponse(s)
    BY <1>1
    DEF Work, userSend, callModel, plainAnswer, modelCallFails, errorExplained,
        toolsPrepared, approvalGranted, approvalRefused, executeMcpTool, executeGet, executeWrite,
        toolsProcessed, generateResponseFromToolResults, processToolResponses,
        orchestrateToolsForRequest, handleToolCalls, abortVars
  <2>3. cached' \in BOOLEAN
    BY <2>2, CacheTyped DEF FlagsOK
  <2>4. loading' \in {loading, TRUE, FALSE}
    <3>1. CASE callModel(s) \/ modelCallFails(s)
      BY <3>1 DEF callModel, modelCallFails, handleChainBasedRequest, handleUserSendError, invoke,
                  return
    <3>2. CASE ~(callModel(s) \/ modelCallFails(s))
      BY <1>1, <3>2
      DEF Work, userSend, plainAnswer, errorExplained, return, requestApproval,
          toolsPrepared, approvalGranted, approvalRefused, executeMcpTool, executeGet,
          executeWrite, toolsProcessed, generateResponseFromToolResults, processToolResponses,
          orchestrateToolsForRequest, handleToolCalls
    <3> QED
      BY <3>1, <3>2
  <2> QED
    BY <2>1, <2>3, <2>4 DEF FlagsOK
<1>2. CASE \/ \E s \in Sends : handleApprove(s) \/ handleDeny(s)
           \/ handleApiConfirmation \/ handleApiDialogClose
           \/ \E c \in Calls : handleActualApiRequest(c)
           \/ handleStopRequest \/ onClearHistory \/ configureTools
           \/ UNCHANGED vars
  BY <1>2
  DEF FlagsOK, handleApprove, handleDeny, handleApiConfirmation, handleApiDialogClose,
      handleActualApiRequest, handleStopRequest, onClearHistory, configureTools, vars, abortVars,
      dialogVars
<1> QED
  BY <1>1, <1>2 DEF Next

ConversationInv == ApprovalInv /\ HistoryOK /\ FlagsOK

\* Every variable holds a value of its type, for every number of sends, every
\* set of tools and every reply of a model: in particular every message of the
\* history, however it is cut, tagged and edited in place, belongs to a send
\* and carries the id of a call, of a failed operation or none (handleToolCalls,
\* handleToolResponseResult, clearToolConfirmation, the handler of a GET).
THEOREM ConversationTyped == Spec => []TypeOK
<1>1. Init => ConversationInv
  <2> SUFFICES ASSUME Init PROVE ConversationInv
    OBVIOUS
  <2>1. HistoryOK /\ FlagsOK
    BY EmptySeq DEF Init, HistoryOK, FlagsOK
  <2> QED
    BY <2>1, InitApproval DEF ConversationInv
<1>2. ConversationInv /\ [Next]_vars => ConversationInv'
  <2> SUFFICES ASSUME ConversationInv, [Next]_vars PROVE ConversationInv'
    OBVIOUS
  <2>1. ApprovalInv' /\ FlagsOK'
    BY NextApproval, FlagsStep DEF ConversationInv, ApprovalInv
  <2>2. HistoryOK'
    <3>1. CASE UNCHANGED vars
      BY <3>1 DEF vars, ConversationInv, HistoryOK
    <3>2. CASE Next
      BY <3>2, SendHistory, ToolHistory, EndHistory, WindowHistory
      DEF ConversationInv, ApprovalInv, Next, Work
    <3> QED
      BY <3>1, <3>2
  <2> QED
    BY <2>1, <2>2 DEF ConversationInv
<1>3. ConversationInv => TypeOK
  <2> SUFFICES ASSUME ConversationInv PROVE TypeOK
    OBVIOUS
  <2>1. \A i \in DOMAIN history : history[i] \in Entries
    BY LenProperties, ElementOfSeq DEF ConversationInv, HistoryOK
  <2>2. \A i \in DOMAIN history : history[i].send \in Sends /\ history[i].id \in Ids
    BY <2>1 DEF Entries
  <2> QED
    BY <2>2 DEF TypeOK, ConversationInv, ApprovalInv, FlagsOK, Ids
<1> QED
  BY <1>1, <1>2, <1>3, PTL DEF Spec
=============================================================================
