------------------------ MODULE Conversation_proofs ------------------------
(***************************************************************************)
(* Conversation implements ApprovalContract, for every number of sends,     *)
(* every set of tools and every set of replies a model may give.            *)
(***************************************************************************)
EXTENDS Conversation, TLAPS

\* A send asks for approval at most once: until it does, its promise is unused.
AskedOnce ==
  \A s \in Sends :
    pc[s] \in {"idle", "orchestrate", "invoke", "prepare"} => promise[s] = "none"

\* The MCP tools a send is about to run were granted.
RunsGranted ==
  \A s \in Sends :
    pc[s] = "process" /\ CallsMcp(frame[s].plan) => promise[s] = "granted"

\* The confirmation dialog only ever holds writes.
DialogWrites ==
  \A c \in writing \cup {apiRequest} : c \in Calls => Kind[c[2]] = "write"

ApprovalInv == ControlOK /\ AskedOnce /\ RunsGranted /\ DialogWrites

----------------------------------------------------------------------------
(* Facts about the operators.                                               *)

LEMMA NoneNoSend == None \notin Sends
  BY SendsAssumption DEF None, Sends

LEMMA NoCallNoCall == NoCall \notin Calls
  BY NoneNoSend DEF NoCall, Calls

LEMMA NoFrameTyped == NoFrame \in Frames
  BY DEF NoFrame, Frames

LEMMA FrameInvokes ==
  ASSUME NEW f \in Frames, NEW c \in Sends \cup {None}, NEW path \in {"direct", "chain"},
         NEW k \in BOOLEAN
  PROVE  [f EXCEPT !.signal = c, !.via = path, !.caches = k] \in Frames
  BY DEF Frames

LEMMA FrameOrchestrates ==
  ASSUME NEW f \in Frames, NEW p \in Seq(Tools)
  PROVE  [f EXCEPT !.plan = p, !.orchestrated = TRUE] \in Frames
  BY DEF Frames

LEMMA FrameCalls ==
  ASSUME NEW p \in Seq(Tools), NEW C \in SUBSET Calls, NEW k \in BOOLEAN
  PROVE  [NoFrame EXCEPT !.plan = p, !.caches = k, !.toolCalls = C] \in Frames
  BY DEF Frames, NoFrame

LEMMA FrameProceeds ==
  ASSUME NEW f \in Frames, f.plan # <<>>, NEW failed \in BOOLEAN
  PROVE  /\ [f EXCEPT !.plan = Tail(@), !.failed = @ \/ failed] \in Frames
         /\ [f EXCEPT !.plan = Tail(@), !.failed = @ \/ failed].plan = Tail(f.plan)
<1>1. f.plan \in Seq(Tools) /\ Tail(f.plan) \in Seq(Tools)
  BY DEF Frames
<1>2. (f.failed \/ failed) \in BOOLEAN
  BY Zenon DEF Frames
<1> QED
  BY <1>1, <1>2 DEF Frames

LEMMA SettleTyped ==
  ASSUME ControlOK, NEW s \in Sends \cup {None}, NEW v \in {"granted", "refused"}
  PROVE  settle(promise, s, v) \in [Sends -> {"none", "waiting", "granted", "refused"}]
  BY NoneNoSend DEF settle, ControlOK

\* Settling leaves a promise alone that is not waiting.
LEMMA SettleKeeps ==
  ASSUME ControlOK, NEW s \in Sends \cup {None}, NEW v,
         NEW r \in Sends, promise[r] # "waiting"
  PROVE  settle(promise, s, v)[r] = promise[r]
  BY NoneNoSend DEF settle, ControlOK

\* What is left of a plan calls an MCP tool only if the plan did.
LEMMA TailCallsMcp ==
  ASSUME NEW p \in Seq(Tools), p # <<>>
  PROVE  /\ Tail(p) \in Seq(Tools)
         /\ Head(p) \in Tools
         /\ CallsMcp(Tail(p)) => CallsMcp(p)
         /\ IsMcp(Head(p)) => CallsMcp(p)
<1>1. Tail(p) \in Seq(Tools) /\ Head(p) \in Tools
  OBVIOUS
<1>2. ASSUME CallsMcp(Tail(p)) PROVE CallsMcp(p)
  <2>1. PICK i \in DOMAIN Tail(p) : IsMcp(Tail(p)[i])
    BY <1>2 DEF CallsMcp
  <2>2. i + 1 \in DOMAIN p /\ p[i + 1] = Tail(p)[i]
    BY <1>1
  <2> QED
    BY <2>1, <2>2 DEF CallsMcp
<1>3. ASSUME IsMcp(Head(p)) PROVE CallsMcp(p)
  <2>1. 1 \in DOMAIN p /\ p[1] = Head(p)
    OBVIOUS
  <2> QED
    BY <1>3, <2>1 DEF CallsMcp
<1> QED
  BY <1>1, <1>2, <1>3

----------------------------------------------------------------------------
(* The steps.  Most of them move one send and leave the promises, the       *)
(* dialog and the executed calls alone.                                     *)

Early == {"idle", "orchestrate", "invoke", "prepare"}

mapped == <<promise, {c \in executed : IsMcp(c[2])}>>

LEMMA AwaitMoves ==
  ASSUME ControlOK, NEW s \in Sends, NEW step \in Steps, NEW f \in Frames,
         await(s, step, f)
  PROVE  /\ pc' \in [Sends -> Steps]
         /\ frame' \in [Sends -> Frames]
         /\ pc'[s] = step
         /\ frame'[s] = f
         /\ \A r \in Sends \ {s} : pc'[r] = pc[r] /\ frame'[r] = frame[r]
  BY DEF ControlOK, await

LEMMA QuietStep ==
  ASSUME ApprovalInv, NEW s \in Sends, NEW step \in Steps, NEW f \in Frames,
         await(s, step, f),
         UNCHANGED <<aborted, approvalVars, dialogVars, executed>>,
         currentAbortController' \in Sends \cup {None},
         step \in Early => pc[s] \in Early,
         step = "process" /\ CallsMcp(f.plan) => promise[s] = "granted"
  PROVE  ApprovalInv' /\ UNCHANGED mapped
<1>1. ControlOK'
  BY AwaitMoves DEF ApprovalInv, ControlOK, approvalVars, dialogVars
<1>2. AskedOnce'
  <2> SUFFICES ASSUME NEW r \in Sends, pc'[r] \in Early
               PROVE  promise[r] = "none"
    BY DEF AskedOnce, Early, approvalVars
  <2>1. pc[r] \in Early
    BY AwaitMoves DEF ApprovalInv
  <2> QED
    BY <2>1 DEF ApprovalInv, AskedOnce, Early
<1>3. RunsGranted'
  <2> SUFFICES ASSUME NEW r \in Sends, pc'[r] = "process", CallsMcp(frame'[r].plan)
               PROVE  promise[r] = "granted"
    BY DEF RunsGranted, approvalVars, CallsMcp, IsMcp
  <2>1. CASE r = s
    BY <2>1, AwaitMoves DEF ApprovalInv
  <2>2. CASE r # s
    BY <2>2, AwaitMoves DEF ApprovalInv, RunsGranted
  <2> QED
    BY <2>1, <2>2
<1>4. DialogWrites'
  BY DEF ApprovalInv, DialogWrites, dialogVars
<1> QED
  BY <1>1, <1>2, <1>3, <1>4 DEF ApprovalInv, mapped, approvalVars

\* Ending a send is such a step.
LEMMA ReturnQuiet ==
  ASSUME ApprovalInv, NEW s \in Sends, return(s),
         UNCHANGED <<aborted, approvalVars, dialogVars, executed>>,
         currentAbortController' \in Sends \cup {None}
  PROVE  ApprovalInv' /\ UNCHANGED mapped
  BY QuietStep, NoFrameTyped DEF return, Steps, Early

LEMMA ErrorQuiet ==
  ASSUME ApprovalInv, NEW s \in Sends, handleUserSendError(s),
         UNCHANGED <<aborted, approvalVars, dialogVars, executed>>
  PROVE  ApprovalInv' /\ UNCHANGED mapped
<1>1. currentAbortController' \in Sends \cup {None}
  BY DEF handleUserSendError
<1>2. CASE await(s, "explain", NoFrame)
  BY <1>1, <1>2, QuietStep, NoFrameTyped DEF Steps, Early
<1>3. CASE return(s)
  BY <1>1, <1>3, ReturnQuiet
<1> QED
  BY <1>2, <1>3 DEF handleUserSendError

LEMMA InvokeQuiet ==
  ASSUME ApprovalInv, NEW s \in Sends, NEW path \in {"direct", "chain"},
         NEW k \in BOOLEAN, invoke(s, path, k), pc[s] \in Early,
         UNCHANGED <<aborted, approvalVars, dialogVars, executed>>
  PROVE  ApprovalInv' /\ UNCHANGED mapped
<1> DEFINE f == [frame[s] EXCEPT !.signal = currentAbortController, !.via = path,
                                 !.caches = k]
<1>1. f \in Frames
  BY FrameInvokes DEF ApprovalInv, ControlOK
<1>2. currentAbortController' \in Sends \cup {None}
  BY DEF invoke, ApprovalInv, ControlOK
<1>3. await(s, "invoke", f)
  BY DEF invoke
<1> HIDE DEF f
<1> QED
  BY <1>1, <1>2, <1>3, QuietStep DEF Steps, Early

LEMMA ChainQuiet ==
  ASSUME ApprovalInv, NEW s \in Sends, NEW k \in BOOLEAN,
         handleChainBasedRequest(s, k), pc[s] \in Early,
         UNCHANGED <<aborted, approvalVars, dialogVars, executed>>
  PROVE  ApprovalInv' /\ UNCHANGED mapped
  BY ErrorQuiet, InvokeQuiet DEF handleChainBasedRequest

\* The sends before they ask, and after their tools ran.
LEMMA ModelSteps ==
  ASSUME ApprovalInv, NEW s \in Sends,
         \/ userSend(s)
         \/ \E p \in Plans : orchestrateToolsForRequest(s, p) \/ handleToolCalls(s, p)
         \/ callModel(s) \/ plainAnswer(s) \/ modelCallFails(s) \/ errorExplained(s)
  PROVE  ApprovalInv' /\ UNCHANGED mapped
<1> USE DEF Early
<1>0. currentAbortController \in Sends \cup {None}
  BY DEF ApprovalInv, ControlOK
<1>1. CASE userSend(s)
  <2>1. currentAbortController' \in Sends \cup {None}
    BY <1>0, <1>1 DEF userSend
  <2>2. UNCHANGED <<aborted, approvalVars, dialogVars, executed>> /\ pc[s] = "idle"
    BY <1>1 DEF userSend
  <2>3. return(s) \/ await(s, "orchestrate", NoFrame)
    BY <1>1 DEF userSend
  <2> QED
    BY <2>1, <2>2, <2>3, ReturnQuiet, QuietStep, NoFrameTyped DEF Steps
<1>2. ASSUME NEW p \in Plans, orchestrateToolsForRequest(s, p)
      PROVE  ApprovalInv' /\ UNCHANGED mapped
  <2> DEFINE f == [frame[s] EXCEPT !.plan = p, !.orchestrated = TRUE]
  <2>1. f \in Frames
    BY PlansAssumption, FrameOrchestrates DEF ApprovalInv, ControlOK
  <2>2. /\ await(s, "prepare", f) /\ pc[s] = "orchestrate"
        /\ UNCHANGED <<aborted, approvalVars, dialogVars, executed>>
        /\ currentAbortController' = currentAbortController
    BY <1>2 DEF orchestrateToolsForRequest, abortVars
  <2> HIDE DEF f
  <2> QED
    BY <1>0, <2>1, <2>2, QuietStep DEF Steps
<1>3. ASSUME NEW p \in Plans, handleToolCalls(s, p)
      PROVE  ApprovalInv' /\ UNCHANGED mapped
  <2> DEFINE f == [NoFrame EXCEPT !.plan = p, !.caches = frame[s].caches,
                                !.toolCalls = CallsOf(s, p)]
  <2>1. p \in Seq(Tools)
    BY PlansAssumption
  <2>2. CallsOf(s, p) \in SUBSET Calls
    BY <2>1 DEF CallsOf, Calls
  <2>3. f \in Frames
    <3>1. frame[s].caches \in BOOLEAN
      BY DEF ApprovalInv, ControlOK, Frames
    <3> QED BY <2>1, <2>2, <3>1, FrameCalls
  <2>4. /\ await(s, "prepare", f) /\ pc[s] = "invoke"
        /\ UNCHANGED <<aborted, approvalVars, dialogVars, executed>>
        /\ currentAbortController' = None
    BY <1>3 DEF handleToolCalls
  <2> HIDE DEF f
  <2> QED
    BY <2>3, <2>4, QuietStep DEF Steps
<1>4. CASE callModel(s)
  <2>1. invoke(s, "direct", FALSE) \/ handleChainBasedRequest(s, TRUE)
    BY <1>4 DEF callModel
  <2>2. UNCHANGED <<aborted, approvalVars, dialogVars, executed>> /\ pc[s] = "orchestrate"
    BY <1>4 DEF callModel
  <2> QED
    BY <2>1, <2>2, InvokeQuiet, ChainQuiet
<1>5. CASE plainAnswer(s)
  BY <1>5, ReturnQuiet DEF plainAnswer
<1>6. CASE modelCallFails(s)
  <2>1. handleChainBasedRequest(s, FALSE) \/ handleUserSendError(s)
    BY <1>6 DEF modelCallFails
  <2>2. UNCHANGED <<aborted, approvalVars, dialogVars, executed>> /\ pc[s] = "invoke"
    BY <1>6 DEF modelCallFails
  <2> QED
    BY <2>1, <2>2, ErrorQuiet, ChainQuiet
<1>7. CASE errorExplained(s)
  BY <1>0, <1>7, ReturnQuiet DEF errorExplained, abortVars
<1> QED
  BY <1>1, <1>2, <1>3, <1>4, <1>5, <1>6, <1>7

LEMMA AnswerSteps ==
  ASSUME ApprovalInv, NEW s \in Sends,
         \/ toolsProcessed(s) \/ generateResponseFromToolResults(s)
         \/ processToolResponses(s) \/ approvalRefused(s)
  PROVE  ApprovalInv' /\ UNCHANGED mapped
<1>0. currentAbortController \in Sends \cup {None}
  BY DEF ApprovalInv, ControlOK
<1>1. UNCHANGED <<aborted, approvalVars, dialogVars, executed>>
  BY DEF toolsProcessed, generateResponseFromToolResults, processToolResponses,
         approvalRefused, abortVars
<1>2. currentAbortController' \in Sends \cup {None}
  BY <1>0 DEF toolsProcessed, generateResponseFromToolResults, processToolResponses,
         approvalRefused, abortVars
<1>3. \/ return(s)
      \/ await(s, "summarise", NoFrame)
      \/ await(s, "followup", finalFrame(s))
  <2>1. CASE toolsProcessed(s)
    BY <2>1 DEF toolsProcessed
  <2>2. CASE ~toolsProcessed(s)
    BY <2>2 DEF generateResponseFromToolResults, processToolResponses, approvalRefused
  <2> QED BY <2>1, <2>2
<1>4. finalFrame(s) \in Frames
  <2>1. frame[s].caches \in BOOLEAN
    BY DEF ApprovalInv, ControlOK, Frames
  <2>2. NoFrame \in Frames
    BY NoFrameTyped
  <2>3. ASSUME NEW k \in BOOLEAN PROVE [NoFrame EXCEPT !.caches = k] \in Frames
    BY <2>2 DEF Frames
  <2> QED BY <2>1, <2>3 DEF finalFrame
<1> QED
  BY <1>1, <1>2, <1>3, <1>4, ReturnQuiet, QuietStep, NoFrameTyped DEF Steps, Early

\* A prepared send asks, which supersedes the pending request, or has nothing
\* to ask about.
LEMMA AskStep ==
  ASSUME ApprovalInv, NEW s \in Sends, toolsPrepared(s)
  PROVE  ApprovalInv' /\ [Approval!Next]_mapped
<1> USE DEF Early
<1>0. /\ currentAbortController \in Sends \cup {None}
      /\ frame[s] \in Frames /\ pc[s] = "prepare" /\ promise[s] = "none"
      /\ UNCHANGED <<aborted, currentAbortController, dialogVars, executed>>
  BY DEF ApprovalInv, ControlOK, AskedOnce, toolsPrepared, abortVars
<1>1. CASE ~CallsMcp(frame[s].plan)
  <2>1. await(s, "process", frame[s]) /\ UNCHANGED approvalVars
    BY <1>1 DEF toolsPrepared
  <2> QED
    BY <1>0, <1>1, <2>1, QuietStep DEF Steps
<1>2. CASE CallsMcp(frame[s].plan)
  <2>1. /\ await(s, "approve", frame[s])
        /\ promise' = [settle(promise, pendingRequest, "refused") EXCEPT ![s] = "waiting"]
        /\ pendingRequest' = s
    BY <1>2 DEF toolsPrepared, requestApproval
  <2>2. /\ pendingRequest \in Sends \cup {None}
        /\ promise \in [Sends -> {"none", "waiting", "granted", "refused"}]
        /\ settle(promise, pendingRequest, "refused")
             \in [Sends -> {"none", "waiting", "granted", "refused"}]
    BY SettleTyped DEF ApprovalInv, ControlOK
  <2>3. /\ promise' \in [Sends -> {"none", "waiting", "granted", "refused"}]
        /\ \A r \in Sends \ {s} : promise[r] # "waiting" => promise'[r] = promise[r]
    BY <2>1, <2>2, SettleKeeps DEF ApprovalInv
  <2>4. ControlOK'
    BY <1>0, <2>1, <2>3, AwaitMoves DEF ApprovalInv, ControlOK, Steps, dialogVars
  <2>5. AskedOnce'
    BY <1>0, <2>1, <2>3, AwaitMoves DEF ApprovalInv, AskedOnce, Steps
  <2>6. RunsGranted'
    <3> SUFFICES ASSUME NEW r \in Sends, pc'[r] = "process", CallsMcp(frame'[r].plan)
                 PROVE  promise'[r] = "granted"
      BY DEF RunsGranted, CallsMcp, IsMcp
    <3>1. r # s /\ pc[r] = "process" /\ frame'[r] = frame[r]
      BY <1>0, <2>1, AwaitMoves DEF ApprovalInv, Steps
    <3> QED
      BY <2>3, <3>1 DEF ApprovalInv, RunsGranted
  <2>7. DialogWrites'
    BY <1>0 DEF ApprovalInv, DialogWrites, dialogVars
  <2>8. Approval!Next
    <3> DEFINE R == {r \in Sends : r = pendingRequest /\ promise[r] = "waiting"}
    <3>1. s \notin R /\ \A r \in R : promise[r] = "waiting"
      BY <1>0
    <3>2. promise' = [Approval!Superseded(R) EXCEPT ![s] = "waiting"]
      BY <2>1, <2>2, NoneNoSend DEF Approval!Superseded, settle
    <3>3. Approval!Ask(s, R)
      BY <1>0, <3>1, <3>2 DEF Approval!Ask
    <3>4. R \in SUBSET Sends
      OBVIOUS
    <3> HIDE DEF R
    <3> QED
      BY <3>3, <3>4 DEF Approval!Next
  <2> QED
    BY <2>4, <2>5, <2>6, <2>7, <2>8 DEF ApprovalInv
<1> QED
  BY <1>1, <1>2

\* A button of a card decides its request, if it is still open.
LEMMA ButtonSteps ==
  ASSUME ApprovalInv, NEW s \in Sends, handleApprove(s) \/ handleDeny(s)
  PROVE  ApprovalInv' /\ [Approval!Next]_mapped
<1>1. PICK v \in {"granted", "refused"} : promise' = settle(promise, s, v)
  BY DEF handleApprove, handleDeny
<1>2. pendingRequest' = None /\ UNCHANGED <<sendVars, abortVars, dialogVars, executed>>
  BY DEF handleApprove, handleDeny
<1>3. promise' \in [Sends -> {"none", "waiting", "granted", "refused"}]
  BY <1>1, SettleTyped DEF ApprovalInv
<1>4. \A r \in Sends : promise[r] # "waiting" => promise'[r] = promise[r]
  BY <1>1, SettleKeeps DEF ApprovalInv
<1>5. ControlOK'
  BY <1>2, <1>3 DEF ApprovalInv, ControlOK, sendVars, abortVars, dialogVars
<1>6. AskedOnce'
  BY <1>2, <1>4 DEF ApprovalInv, AskedOnce, sendVars
<1>7. RunsGranted'
  BY <1>2, <1>4 DEF ApprovalInv, RunsGranted, sendVars, CallsMcp, IsMcp
<1>8. DialogWrites'
  BY <1>2 DEF ApprovalInv, DialogWrites, dialogVars
<1>9. [Approval!Next]_mapped
  <2>1. CASE promise[s] = "waiting"
    <3>1. promise' = [promise EXCEPT ![s] = v]
      BY <1>1, <2>1, NoneNoSend DEF settle
    <3>2. Approval!Decide(s, v)
      BY <1>2, <2>1, <3>1 DEF Approval!Decide
    <3> QED
      BY <3>2 DEF Approval!Next
  <2>2. CASE promise[s] # "waiting"
    BY <1>1, <1>2, <2>2 DEF settle, mapped
  <2> QED
    BY <2>1, <2>2
<1> QED
  BY <1>5, <1>6, <1>7, <1>8, <1>9 DEF ApprovalInv

LEMMA GrantedStep ==
  ASSUME ApprovalInv, NEW s \in Sends, approvalGranted(s)
  PROVE  ApprovalInv' /\ UNCHANGED mapped
<1>1. /\ frame[s] \in Frames /\ promise[s] = "granted"
      /\ await(s, "process", frame[s])
      /\ currentAbortController' \in Sends \cup {None}
      /\ UNCHANGED <<aborted, approvalVars, dialogVars, executed>>
  BY DEF approvalGranted, ApprovalInv, ControlOK, abortVars
<1> QED
  BY <1>1, QuietStep DEF Steps, Early

\* A tool is taken off the plan: nothing but the executed calls and the dialog
\* is left to look at.
LEMMA ProcessMoves ==
  ASSUME ApprovalInv, NEW s \in Sends, NEW kind, NEW failed \in BOOLEAN,
         processes(s, kind, failed),
         UNCHANGED <<abortVars, approvalVars>>,
         apiRequest' \in Calls \cup {NoCall}, UNCHANGED writing,
         executed' \in SUBSET Calls
  PROVE  /\ ControlOK' /\ AskedOnce' /\ RunsGranted'
         /\ NextCall(s) \in Calls
         /\ Kind[NextCall(s)[2]] = kind
         /\ kind = "mcp" => promise[s] = "granted"
<1> DEFINE f == [frame[s] EXCEPT !.plan = Tail(@), !.failed = @ \/ failed]
<1>1. /\ frame[s] \in Frames /\ frame[s].plan \in Seq(Tools)
      /\ frame[s].plan # <<>> /\ pc[s] = "process"
      /\ Kind[Head(frame[s].plan)] = kind
  BY DEF ApprovalInv, ControlOK, Frames, processes
<1>2. f \in Frames /\ f.plan = Tail(frame[s].plan)
  BY <1>1, FrameProceeds
<1>3. await(s, "process", f)
  BY DEF processes
<1>4. /\ CallsMcp(f.plan) => CallsMcp(frame[s].plan)
      /\ Head(frame[s].plan) \in Tools
      /\ kind = "mcp" => CallsMcp(frame[s].plan)
  BY <1>1, <1>2, TailCallsMcp DEF IsMcp
<1> HIDE DEF f
<1>5. ControlOK'
  BY <1>2, <1>3, AwaitMoves DEF ApprovalInv, ControlOK, Steps, abortVars, approvalVars
<1>6. AskedOnce'
  BY <1>2, <1>3, AwaitMoves DEF ApprovalInv, AskedOnce, Steps, approvalVars
<1>7. RunsGranted'
  <2> SUFFICES ASSUME NEW r \in Sends, pc'[r] = "process", CallsMcp(frame'[r].plan)
               PROVE  promise[r] = "granted"
    BY DEF RunsGranted, CallsMcp, IsMcp, approvalVars
  <2>1. pc[r] = "process" /\ CallsMcp(frame[r].plan)
    BY <1>1, <1>2, <1>3, <1>4, AwaitMoves DEF ApprovalInv, Steps
  <2> QED
    BY <2>1 DEF ApprovalInv, RunsGranted
<1> QED
  BY <1>1, <1>4, <1>5, <1>6, <1>7 DEF ApprovalInv, RunsGranted, NextCall, Calls

LEMMA RunSteps ==
  ASSUME ApprovalInv, NEW s \in Sends,
         executeMcpTool(s) \/ executeGet(s) \/ executeWrite(s)
  PROVE  ApprovalInv' /\ [Approval!Next]_mapped
<1>0. /\ executed \in SUBSET Calls /\ apiRequest \in Calls \cup {NoCall}
      /\ \A kind, failed : processes(s, kind, failed) =>
           /\ frame[s].plan # <<>> /\ Kind[Head(frame[s].plan)] = kind
           /\ NextCall(s) \in Calls
  <2>1. frame[s].plan \in Seq(Tools)
    BY DEF ApprovalInv, ControlOK, Frames
  <2>2. ASSUME NEW kind, NEW failed, processes(s, kind, failed)
        PROVE  /\ frame[s].plan # <<>> /\ Kind[Head(frame[s].plan)] = kind
               /\ NextCall(s) \in Calls
    BY <2>1, <2>2 DEF processes, NextCall, Calls
  <2> QED
    BY <2>2 DEF ApprovalInv, ControlOK
<1>1. CASE executeMcpTool(s)
  <2>1. /\ processes(s, "mcp", FALSE) /\ executed' = executed \cup {NextCall(s)}
        /\ UNCHANGED <<abortVars, approvalVars, dialogVars>>
    BY <1>1 DEF executeMcpTool
  <2>2. executed' \in SUBSET Calls /\ UNCHANGED <<apiRequest, writing>>
    BY <1>0, <2>1 DEF dialogVars
  <2>3. /\ ControlOK' /\ AskedOnce' /\ RunsGranted'
        /\ NextCall(s) \in Calls /\ Kind[NextCall(s)[2]] = "mcp"
        /\ promise[s] = "granted"
    BY <1>0, <2>1, <2>2, ProcessMoves
  <2>4. DialogWrites'
    BY <2>1 DEF ApprovalInv, DialogWrites, dialogVars
  <2>5. PICK t \in Tools : NextCall(s) = <<s, t>> /\ IsMcp(t)
    BY <2>3 DEF NextCall, Calls, IsMcp
  <2>6. {c \in executed' : IsMcp(c[2])} = {c \in executed : IsMcp(c[2])} \cup {<<s, t>>}
    BY <2>1, <2>5
  <2>7. Approval!Run(s, t)
    BY <2>1, <2>3, <2>6 DEF Approval!Run, approvalVars, IsMcp
  <2>8. Approval!Next
    BY <2>7 DEF Approval!Next
  <2> QED
    BY <2>3, <2>4, <2>8 DEF ApprovalInv
<1>2. CASE executeGet(s)
  <2>1. PICK failed \in BOOLEAN : processes(s, "get", failed)
    BY <1>2 DEF executeGet
  <2>2. /\ executed' = executed \cup {NextCall(s)}
        /\ UNCHANGED <<abortVars, approvalVars, dialogVars>>
    BY <1>2 DEF executeGet
  <2>3. executed' \in SUBSET Calls /\ UNCHANGED <<apiRequest, writing>>
    BY <1>0, <2>1, <2>2 DEF dialogVars
  <2>4. /\ ControlOK' /\ AskedOnce' /\ RunsGranted'
        /\ Kind[NextCall(s)[2]] = "get"
    BY <1>0, <2>1, <2>2, <2>3, ProcessMoves
  <2>5. DialogWrites'
    BY <2>2 DEF ApprovalInv, DialogWrites, dialogVars
  <2>6. {c \in executed' : IsMcp(c[2])} = {c \in executed : IsMcp(c[2])}
    BY <2>2, <2>4 DEF IsMcp
  <2> QED
    BY <2>2, <2>4, <2>5, <2>6 DEF ApprovalInv, mapped, approvalVars, IsMcp
<1>3. CASE executeWrite(s)
  <2>1. /\ processes(s, "write", FALSE) /\ apiRequest' = NextCall(s)
        /\ UNCHANGED <<abortVars, approvalVars, writing, executed>>
    BY <1>3 DEF executeWrite
  <2>2. /\ ControlOK' /\ AskedOnce' /\ RunsGranted'
        /\ Kind[NextCall(s)[2]] = "write"
    BY <1>0, <2>1, ProcessMoves
  <2>3. DialogWrites'
    BY <2>1, <2>2 DEF ApprovalInv, DialogWrites
  <2> QED
    BY <2>1, <2>2, <2>3 DEF ApprovalInv, mapped, approvalVars
<1> QED
  BY <1>1, <1>2, <1>3

\* The dialog executes writes, which need no approval, and stopping, clearing
\* and reconfiguring touch no promise.
LEMMA WindowSteps ==
  ASSUME ApprovalInv,
         \/ handleApiConfirmation \/ handleApiDialogClose
         \/ \E c \in Calls : handleActualApiRequest(c)
         \/ handleStopRequest \/ onClearHistory \/ configureTools
  PROVE  ApprovalInv' /\ UNCHANGED mapped
<1>1. UNCHANGED <<pc, frame, approvalVars>>
  BY DEF handleApiConfirmation, handleApiDialogClose, handleActualApiRequest,
         handleStopRequest, onClearHistory, configureTools, sendVars
<1>2. /\ aborted' \in SUBSET Sends
      /\ currentAbortController' \in Sends \cup {None}
  BY DEF handleApiConfirmation, handleApiDialogClose, handleActualApiRequest,
         handleStopRequest, onClearHistory, configureTools, abortVars, ApprovalInv,
         ControlOK
<1>3. /\ writing' \cup {apiRequest'} \subseteq writing \cup {apiRequest, NoCall}
      /\ apiRequest' \in Calls \cup {NoCall} /\ writing' \in SUBSET Calls
  BY DEF handleApiConfirmation, handleApiDialogClose, handleActualApiRequest,
         handleStopRequest, onClearHistory, configureTools, dialogVars, ApprovalInv,
         ControlOK
<1>4. /\ executed' \in SUBSET Calls
      /\ {c \in executed' : IsMcp(c[2])} = {c \in executed : IsMcp(c[2])}
  <2>1. CASE executed' = executed
    BY <2>1 DEF ApprovalInv, ControlOK
  <2>2. ASSUME NEW c \in Calls, handleActualApiRequest(c)
        PROVE  /\ executed' \in SUBSET Calls
               /\ {d \in executed' : IsMcp(d[2])} = {d \in executed : IsMcp(d[2])}
    <3>1. executed' = executed \cup {c} /\ Kind[c[2]] = "write"
      BY <2>2 DEF handleActualApiRequest, ApprovalInv, DialogWrites
    <3> QED
      BY <3>1 DEF ApprovalInv, ControlOK, IsMcp
  <2> QED
    BY <2>1, <2>2 DEF handleApiConfirmation, handleApiDialogClose,
         handleStopRequest, onClearHistory, configureTools
<1>5. ControlOK'
  BY <1>1, <1>2, <1>3, <1>4 DEF ApprovalInv, ControlOK, approvalVars
<1>6. AskedOnce' /\ RunsGranted'
  BY <1>1 DEF ApprovalInv, AskedOnce, RunsGranted, approvalVars, CallsMcp, IsMcp
<1>7. DialogWrites'
  BY <1>3, NoCallNoCall DEF ApprovalInv, DialogWrites
<1> QED
  BY <1>1, <1>4, <1>5, <1>6, <1>7 DEF ApprovalInv, mapped, approvalVars, IsMcp

----------------------------------------------------------------------------
LEMMA InitApproval == Init => ApprovalInv /\ Approval!Init
<1> SUFFICES ASSUME Init PROVE ApprovalInv /\ Approval!Init
  OBVIOUS
<1>1. ControlOK
  BY NoFrameTyped DEF Init, ControlOK, Steps
<1>2. AskedOnce /\ RunsGranted /\ DialogWrites
  BY NoCallNoCall DEF Init, AskedOnce, RunsGranted, DialogWrites
<1> QED
  BY <1>1, <1>2 DEF ApprovalInv, Init, Approval!Init

LEMMA NextApproval ==
  ASSUME ApprovalInv, [Next]_vars
  PROVE  ApprovalInv' /\ [Approval!Next]_mapped
<1>1. CASE UNCHANGED vars
  BY <1>1 DEF vars, sendVars, abortVars, approvalVars, dialogVars, ApprovalInv,
     ControlOK, AskedOnce, RunsGranted, DialogWrites, CallsMcp, IsMcp, mapped
<1>2. ASSUME NEW s \in Sends, Work(s) PROVE ApprovalInv' /\ [Approval!Next]_mapped
  BY <1>2, ModelSteps, AnswerSteps, AskStep, GrantedStep, RunSteps DEF Work
<1>3. ASSUME NEW s \in Sends,
             \/ userSend(s) \/ handleApprove(s) \/ handleDeny(s)
             \/ \E p \in Plans : orchestrateToolsForRequest(s, p) \/ handleToolCalls(s, p)
      PROVE  ApprovalInv' /\ [Approval!Next]_mapped
  BY <1>3, ModelSteps, ButtonSteps
<1>4. CASE \/ handleApiConfirmation \/ handleApiDialogClose
           \/ \E c \in Calls : handleActualApiRequest(c)
           \/ handleStopRequest \/ onClearHistory \/ configureTools
  BY <1>4, WindowSteps
<1> QED
  BY <1>1, <1>2, <1>3, <1>4 DEF Next

\* The assistant implements the approval contract: whatever the sends, the
\* buttons of old and new cards, stops and clears do, a request for MCP tools is
\* decided once and only a granted one runs (requestApproval, handleToolCalls,
\* handleMultipleToolExecution, processToolCalls).
THEOREM ApprovalIsKept == Spec => ApprovalKept
<1>1. Init => ApprovalInv /\ Approval!Init
  BY InitApproval
<1>2. ApprovalInv /\ [Next]_vars => ApprovalInv' /\ [Approval!Next]_mapped
  BY NextApproval
<1> QED
  BY <1>1, <1>2, PTL DEF Spec, ApprovalKept, Approval!Spec, mapped

----------------------------------------------------------------------------
(* The spinner.                                                             *)

Busy(step) == step \notin {"idle", "approve", "done"}

\* A step ends the spinner, leaves a send at work, or leaves both alone.
SpinnerMoves ==
  \/ loading' = FALSE
  \/ \E s \in Sends : Busy(pc'[s])
  \/ loading' = loading /\ pc' = pc

LEMMA AwaitBusy ==
  ASSUME ControlOK, NEW s \in Sends, NEW step, NEW f, await(s, step, f), Busy(step)
  PROVE  SpinnerMoves
<1>1. pc'[s] = step
  BY DEF ControlOK, await
<1> QED
  BY <1>1 DEF SpinnerMoves

LEMMA ReturnSpinner ==
  ASSUME NEW s \in Sends, return(s)
  PROVE  SpinnerMoves
  BY DEF return, SpinnerMoves

LEMMA ErrorSpinner ==
  ASSUME ControlOK, NEW s \in Sends, handleUserSendError(s)
  PROVE  SpinnerMoves
  BY AwaitBusy, ReturnSpinner DEF handleUserSendError, Busy

LEMMA InvokeSpinner ==
  ASSUME ControlOK, NEW s \in Sends, NEW path, NEW k, invoke(s, path, k)
  PROVE  SpinnerMoves
  BY AwaitBusy DEF invoke, Busy

LEMMA ChainSpinner ==
  ASSUME ControlOK, NEW s \in Sends, NEW k, handleChainBasedRequest(s, k)
  PROVE  SpinnerMoves
  BY InvokeSpinner, ErrorSpinner DEF handleChainBasedRequest

LEMMA SendSpinner ==
  ASSUME ControlOK, NEW s \in Sends,
         \/ userSend(s) \/ Work(s)
         \/ \E p \in Plans : orchestrateToolsForRequest(s, p) \/ handleToolCalls(s, p)
  PROVE  SpinnerMoves
<1> USE DEF Busy
<1>1. CASE userSend(s)
  BY <1>1, AwaitBusy, ReturnSpinner DEF userSend
<1>2. CASE \E p \in Plans : orchestrateToolsForRequest(s, p) \/ handleToolCalls(s, p)
  <2>1. PICK f : await(s, "prepare", f)
    BY <1>2 DEF orchestrateToolsForRequest, handleToolCalls
  <2> QED
    BY <2>1, AwaitBusy
<1>3. CASE callModel(s) \/ modelCallFails(s)
  BY <1>3, InvokeSpinner, ChainSpinner, ErrorSpinner DEF callModel, modelCallFails
<1>4. CASE plainAnswer(s) \/ errorExplained(s) \/ generateResponseFromToolResults(s)
           \/ processToolResponses(s)
  BY <1>4, ReturnSpinner
  DEF plainAnswer, errorExplained, generateResponseFromToolResults, processToolResponses
<1>5. CASE toolsPrepared(s)
  <2>1. CASE loading' = FALSE
    BY <2>1 DEF SpinnerMoves
  <2>2. CASE await(s, "process", frame[s])
    BY <2>2, AwaitBusy
  <2> QED
    BY <1>5, <2>1, <2>2 DEF toolsPrepared, requestApproval
<1>6. CASE approvalGranted(s)
  BY <1>6, AwaitBusy DEF approvalGranted
<1>7. CASE approvalRefused(s)
  BY <1>7, AwaitBusy, ReturnSpinner DEF approvalRefused
<1>8. CASE executeMcpTool(s) \/ executeGet(s) \/ executeWrite(s)
  <2>1. PICK kind, failed : processes(s, kind, failed)
    BY <1>8 DEF executeMcpTool, executeGet, executeWrite
  <2> QED
    BY <2>1, AwaitBusy DEF processes
<1>9. CASE toolsProcessed(s)
  <2>1. CASE return(s)
    BY <2>1, ReturnSpinner
  <2>2. CASE \E step \in {"summarise", "followup"}, f \in {NoFrame, finalFrame(s)} : await(s, step, f)
    BY <2>2, AwaitBusy
  <2> QED
    BY <1>9, <2>1, <2>2 DEF toolsProcessed
<1> QED
  BY <1>1, <1>2, <1>3, <1>4, <1>5, <1>6, <1>7, <1>8, <1>9 DEF Work

\* The spinner never outlives the work, for every number of sends and whatever
\* tools the models call: the code only sets it for a send that has all its
\* work before it, and every way a send stops to work, the wait for an approval
\* included, ends it (setLoading in modal.tsx, requestApproval, userSend).
THEOREM SpinnerIsTrue == Spec => []SpinnerHasWork
<1>1. Init => SpinnerHasWork
  BY DEF Init, SpinnerHasWork
<1>2. ApprovalInv /\ SpinnerHasWork /\ [Next]_vars => SpinnerHasWork'
  <2> SUFFICES ASSUME ApprovalInv, SpinnerHasWork, [Next]_vars PROVE SpinnerHasWork'
    OBVIOUS
  <2>1. SpinnerMoves
    <3>1. CASE loading' = FALSE \/ UNCHANGED <<loading, pc>>
      BY <3>1 DEF SpinnerMoves
    <3>2. CASE \E s \in Sends : handleApprove(s) \/ handleDeny(s)
      BY <3>1, <3>2 DEF handleApprove, handleDeny, sendVars
    <3>3. CASE \/ handleApiConfirmation \/ handleApiDialogClose
               \/ (\E c \in Calls : handleActualApiRequest(c))
               \/ handleStopRequest \/ onClearHistory \/ configureTools
      BY <3>1, <3>3 DEF handleApiConfirmation, handleApiDialogClose, handleActualApiRequest,
                        handleStopRequest, onClearHistory, configureTools, sendVars
    <3>4. CASE UNCHANGED vars
      BY <3>1, <3>4 DEF vars, sendVars
    <3> QED
      BY <3>2, <3>3, <3>4, SendSpinner DEF Next, ApprovalInv
  <2> QED
    BY <2>1 DEF SpinnerMoves, SpinnerHasWork, Busy
<1>3. Init => ApprovalInv
  BY InitApproval
<1>4. ApprovalInv /\ [Next]_vars => ApprovalInv'
  BY NextApproval
<1> QED
  BY <1>1, <1>2, <1>3, <1>4, PTL DEF Spec
=============================================================================
