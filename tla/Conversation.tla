---------------------------- MODULE Conversation ----------------------------
(***************************************************************************)
(* A conversation with the AI assistant: LangChainManager (the sends, each  *)
(* an async function that suspends at its awaits), InlineToolApprovalManager*)
(* (the approval of MCP tools), the Kubernetes tool with its API helper, and*)
(* the parts of modal.tsx that drive them (send, stop, clear, the API       *)
(* confirmation dialog).  One action is the code between two awaits.        *)
(***************************************************************************)
EXTENDS ChatHistory

CONSTANTS Kind,       \* Kind[t]: a GET, a write or an MCP tool
          Plans       \* the sequences of tools a model's reply may call

ASSUME SendsAssumption == MaxSends \in Nat

ASSUME KindAssumption == Kind \in [Tools -> {"get", "write", "mcp"}]

ASSUME PlansAssumption == Plans \subseteq Seq(Tools)

VARIABLES
  history,        \* AIManager.history
  pc,             \* pc[s]: where userSend s is suspended
  frame,          \* frame[s]: the local variables of userSend s
  aborted,        \* the controllers aborted, named by the send that made them
  currentAbortController,
  useDirectToolCalling,
  cached,         \* responseCache holds an answer
  pendingRequest, \* InlineToolApprovalManager.pendingRequest
  promise,        \* promise[s]: the approval promise of send s
  apiRequest,     \* the operation the API confirmation dialog shows
  showApiConfirmation,
  writing,        \* confirmed operations the cluster has not answered yet
  loading,        \* the spinner of the chat window
  executed        \* the calls that reached the cluster or an MCP server

sendVars == <<pc, frame>>
abortVars == <<aborted, currentAbortController, useDirectToolCalling, cached>>
approvalVars == <<pendingRequest, promise>>
dialogVars == <<apiRequest, showApiConfirmation, writing>>
vars == <<history, sendVars, abortVars, approvalVars, dialogVars, loading,
          executed>>

Steps == {"idle", "orchestrate", "invoke", "explain", "prepare", "approve",
          "process", "summarise", "followup", "done"}

CallsOf(s, p) == {<<s, p[i]>> : i \in DOMAIN p}

IsMcp(t) == Kind[t] = "mcp"

CallsMcp(p) == \E i \in DOMAIN p : IsMcp(p[i])

\* The locals of a send: whether it runs handleMultipleToolExecution, the tools
\* not processed yet, the calls of the model's reply, whether one of them
\* failed, the abort controller its model call listens to, whether that call is
\* the direct one or the chain, and whether userSend caches what it returns.
NoFrame ==
  [orchestrated |-> FALSE, plan |-> <<>>, toolCalls |-> {}, failed |-> FALSE,
   signal |-> None, via |-> "direct", caches |-> FALSE]

Frames ==
  [orchestrated : BOOLEAN, plan : Seq(Tools), toolCalls : SUBSET Calls,
   failed : BOOLEAN, signal : Sends \cup {None}, via : {"direct", "chain"},
   caches : BOOLEAN]

Init ==
  /\ history = <<>>
  /\ pc = [s \in Sends |-> "idle"]
  /\ frame = [s \in Sends |-> NoFrame]
  /\ aborted = {}
  /\ currentAbortController = None
  /\ useDirectToolCalling = TRUE
  /\ cached = FALSE
  /\ pendingRequest = None
  /\ promise = [s \in Sends |-> "none"]
  /\ apiRequest = NoCall
  /\ showApiConfirmation = FALSE
  /\ writing = {}
  /\ loading = FALSE
  /\ executed = {}

----------------------------------------------------------------------------
(* What the steps of a send share.                                          *)

push(e) == history' = Append(history, e)

\* The send suspends at a step, with the locals f.
await(s, step, f) ==
  /\ pc' = [pc EXCEPT ![s] = step]
  /\ frame' = [frame EXCEPT ![s] = f]

\* Mutant: the spinner is left to the next send.
return_KeepsSpinner(s) ==
  /\ await(s, "done", NoFrame)
  /\ UNCHANGED loading

\* userSend returns to AnalyzeResourceBasedOnPrompt, whose finally clause ends
\* the spinner, also when another send is still at work.
return(s) ==
  /\ await(s, "done", NoFrame)
  /\ loading' = FALSE

\* handleUserSendError drops the controller, whoever made it; an API error is
\* first put into words by the model (explain), the others are pushed at once.
handleUserSendError(s) ==
  /\ currentAbortController' = None
  /\ \/ /\ await(s, "explain", NoFrame)
        /\ UNCHANGED <<history, loading>>
     \/ /\ push(assistantPrompt(s))
        /\ return(s)

\* The model is called, and listens to the current controller.
invoke(s, path, caches) ==
  /\ await(s, "invoke", [frame[s] EXCEPT !.signal = currentAbortController,
                                         !.via = path, !.caches = caches])
  /\ UNCHANGED <<history, currentAbortController, loading>>

\* The chain reads currentAbortController.signal: without a controller that
\* throws, and the error is handled like any other.
handleChainBasedRequest(s, caches) ==
  IF currentAbortController = None THEN handleUserSendError(s)
  ELSE invoke(s, "chain", caches)

\* What is left to know when the tool results are commented on.
finalFrame(s) == [NoFrame EXCEPT !.caches = frame[s].caches]

----------------------------------------------------------------------------
(* Sending a prompt.                                                        *)

\* The send button is there while nothing loads.  A cached answer ends the
\* send at once; else it gets a controller and the orchestrator is asked.
userSend(s) ==
  /\ ~loading
  /\ pc[s] = "idle"
  /\ \A r \in Sends : r < s => pc[r] # "idle"
  /\ \/ /\ cached
        /\ history' = history \o <<userPrompt(s), assistantPrompt(s)>>
        /\ return(s)
        /\ UNCHANGED currentAbortController
     \/ /\ push(userPrompt(s))
        /\ currentAbortController' = s
        /\ loading' = TRUE
        /\ await(s, "orchestrate", NoFrame)
  /\ UNCHANGED <<aborted, useDirectToolCalling, cached, approvalVars,
                 dialogVars, executed>>

\* The orchestrator recommends two or more MCP tools to run together.
orchestrateToolsForRequest(s, p) ==
  /\ pc[s] = "orchestrate"
  /\ Len(p) >= 2
  /\ \A i \in DOMAIN p : IsMcp(p[i])
  /\ await(s, "prepare", [frame[s] EXCEPT !.plan = p, !.orchestrated = TRUE])
  /\ UNCHANGED <<history, abortVars, approvalVars, dialogVars, loading,
                 executed>>

\* It recommends nothing, or fails: the model itself is called.
callModel(s) ==
  /\ pc[s] = "orchestrate"
  /\ IF useDirectToolCalling THEN invoke(s, "direct", FALSE)
     ELSE handleChainBasedRequest(s, TRUE)
  /\ UNCHANGED <<aborted, useDirectToolCalling, cached, approvalVars,
                 dialogVars, executed>>

\* A result without tool calls is cached, unless the chain was only tried after
\* the direct call.
cacheResponse(s) == cached' = (cached \/ frame[s].caches)

\* The model answers in words.
plainAnswer(s) ==
  /\ pc[s] = "invoke"
  /\ frame[s].signal \notin aborted
  /\ currentAbortController' = None
  /\ push(assistantPrompt(s))
  /\ cacheResponse(s)
  /\ return(s)
  /\ UNCHANGED <<aborted, useDirectToolCalling, approvalVars, dialogVars,
                 executed>>

\* The model answers with calls of enabled tools.
handleToolCalls(s, p) ==
  /\ pc[s] = "invoke"
  /\ frame[s].signal \notin aborted
  /\ p # <<>>
  /\ currentAbortController' = None
  /\ push(toolCallsPrompt(s, CallsOf(s, p)))
  /\ await(s, "prepare", [NoFrame EXCEPT !.plan = p, !.caches = frame[s].caches,
                                         !.toolCalls = CallsOf(s, p)])
  /\ UNCHANGED <<aborted, useDirectToolCalling, cached, approvalVars,
                 dialogVars, loading, executed>>

\* The model call fails or was aborted.  The direct path gives up direct tool
\* calling and tries the chain, the chain reports the error.
modelCallFails(s) ==
  /\ pc[s] = "invoke"
  /\ \/ /\ frame[s].via = "direct"
        /\ useDirectToolCalling' = FALSE
        /\ handleChainBasedRequest(s, FALSE)
     \/ /\ frame[s].via = "chain"
        /\ handleUserSendError(s)
        /\ UNCHANGED useDirectToolCalling
  /\ UNCHANGED <<aborted, cached, approvalVars, dialogVars, executed>>

errorExplained(s) ==
  /\ pc[s] = "explain"
  /\ push(assistantPrompt(s))
  /\ return(s)
  /\ UNCHANGED <<abortVars, approvalVars, dialogVars, executed>>

----------------------------------------------------------------------------
(* Approval.                                                                *)

\* Mutant: a late click overturns the verdict.
settle_Overwrites(p, s, verdict) ==
  IF s # None THEN [p EXCEPT ![s] = verdict] ELSE p

\* Settling a promise that is settled has no effect.
settle(p, s, verdict) ==
  IF s # None /\ p[s] = "waiting" THEN [p EXCEPT ![s] = verdict] ELSE p

\* A new request refuses the pending one, takes its place and shows its card,
\* which ends the spinner.
requestApproval(s) ==
  /\ promise' = [settle(promise, pendingRequest, "refused")
                   EXCEPT ![s] = "waiting"]
  /\ pendingRequest' = s
  /\ push(confirmationPrompt(s))
  /\ loading' = FALSE

\* The arguments are enhanced; MCP tools then wait for approval, calls of
\* built-in tools only are processed right away.
toolsPrepared(s) ==
  /\ pc[s] = "prepare"
  /\ \/ /\ CallsMcp(frame[s].plan)
        /\ requestApproval(s)
        /\ await(s, "approve", frame[s])
     \/ /\ ~CallsMcp(frame[s].plan)
        /\ await(s, "process", frame[s])
        /\ UNCHANGED <<history, approvalVars, loading>>
  /\ UNCHANGED <<abortVars, dialogVars, executed>>

\* The buttons of a card call the closures of its own request, whether or not
\* that request is still the pending one; approving puts the card of the
\* pending request in its loading state.
handleApprove(s) ==
  /\ s \in liveCards(history)
  /\ history' = updateToolConfirmationMessage(history, pendingRequest)
  /\ pendingRequest' = None
  /\ promise' = settle(promise, s, "granted")
  /\ UNCHANGED <<sendVars, abortVars, dialogVars, loading, executed>>

handleDeny(s) ==
  /\ s \in liveCards(history)
  /\ pendingRequest' = None
  /\ promise' = settle(promise, s, "refused")
  /\ UNCHANGED <<history, sendVars, abortVars, dialogVars, loading, executed>>

approvalGranted(s) ==
  /\ pc[s] = "approve"
  /\ promise[s] = "granted"
  /\ await(s, "process", frame[s])
  /\ UNCHANGED <<history, abortVars, approvalVars, dialogVars, loading,
                 executed>>

\* Mutant: the refusal only reaches the request that is still the pending one.
approvalRefused_IfPending(s) ==
  /\ pc[s] = "approve"
  /\ promise[s] = "refused"
  /\ pendingRequest = s
  /\ push(assistantPrompt(s))
  /\ return(s)
  /\ UNCHANGED <<abortVars, approvalVars, dialogVars, executed>>

\* A refusal answers every call with a denial, the approved built-in ones too,
\* and goes on to the follow-up; an orchestrated send just says so.
approvalRefused(s) ==
  /\ pc[s] = "approve"
  /\ promise[s] = "refused"
  /\ \/ /\ frame[s].orchestrated
        /\ push(assistantPrompt(s))
        /\ return(s)
     \/ /\ ~frame[s].orchestrated
        /\ history' = history \o [i \in DOMAIN frame[s].plan |->
                                    toolPrompt(<<s, frame[s].plan[i]>>)]
        /\ await(s, "followup", finalFrame(s))
        /\ UNCHANGED loading
  /\ UNCHANGED <<abortVars, approvalVars, dialogVars, executed>>

----------------------------------------------------------------------------
(* Running the tools, one after the other.                                  *)

NextCall(s) == <<s, Head(frame[s].plan)>>

\* processToolCalls is at a call of the given kind, and goes on to the next one.
processes(s, kind, failed) ==
  /\ pc[s] = "process"
  /\ frame[s].plan # <<>>
  /\ Kind[Head(frame[s].plan)] = kind
  /\ await(s, "process", [frame[s] EXCEPT !.plan = Tail(@),
                                          !.failed = @ \/ failed])

\* An MCP tool runs, and its formatted result is pushed with its toolCallId; an
\* error is formatted too and is no failed operation.  Orchestrated tools keep
\* theirs out of the history.
executeMcpTool(s) ==
  /\ processes(s, "mcp", FALSE)
  /\ executed' = executed \cup {NextCall(s)}
  /\ history' = IF frame[s].orchestrated THEN history
                ELSE Append(history, toolPrompt(NextCall(s)))
  /\ UNCHANGED <<abortVars, approvalVars, dialogVars, loading>>

\* A GET pushes its result without a toolCallId, an error as an assistant
\* message; the handler then tags the last tool message that has none.  Whether
\* the call failed is read off the text of the answer.  What the handler throws
\* is pushed with the toolCallId.
executeGet(s) ==
  /\ \/ /\ \E failed \in BOOLEAN : processes(s, "get", failed)
        /\ \E answer \in {untaggedPrompt(NextCall(s)), assistantPrompt(s)} :
             history' = tagLast(Append(history, answer), NextCall(s))
     \/ /\ processes(s, "get", TRUE)
        /\ push(toolPrompt(NextCall(s)))
  /\ executed' = executed \cup {NextCall(s)}
  /\ UNCHANGED <<abortVars, approvalVars, dialogVars, loading>>

\* Any other method opens the confirmation dialog on the operation, in the
\* place of the one it showed, and leaves a placeholder.
executeWrite(s) ==
  /\ processes(s, "write", FALSE)
  /\ apiRequest' = NextCall(s)
  /\ showApiConfirmation' = TRUE
  /\ push(placeholderPrompt(NextCall(s)))
  /\ UNCHANGED <<abortVars, approvalVars, writing, loading, executed>>

\* All calls are processed: failures leave a system message, and the answers
\* in the history decide whether the model is asked to comment on them.
toolsProcessed(s) ==
  /\ pc[s] = "process"
  /\ frame[s].plan = <<>>
  /\ \/ /\ frame[s].orchestrated
        /\ await(s, "summarise", NoFrame)
        /\ UNCHANGED <<history, loading>>
     \/ /\ ~frame[s].orchestrated
        /\ history' = IF frame[s].failed THEN Append(history, systemPrompt(s))
                      ELSE history
        /\ IF shouldProcessFollowUp(history, frame[s].toolCalls)
           THEN await(s, "followup", finalFrame(s)) /\ UNCHANGED loading
           ELSE return(s)
  /\ UNCHANGED <<abortVars, approvalVars, dialogVars, executed>>

\* The orchestrated tools are summed up, also when the model fails to, and the
\* last confirmation card is taken out of the history.
generateResponseFromToolResults(s) ==
  /\ pc[s] = "summarise"
  /\ \/ currentAbortController' = None
     \/ UNCHANGED currentAbortController
  /\ history' = handleMultipleToolExecution(history, s)
  /\ return(s)
  /\ UNCHANGED <<aborted, useDirectToolCalling, cached, approvalVars,
                 dialogVars, executed>>

\* The model comments on the tool results: its answer, sent back once with a
\* reminder if it suggests kubectl, replaces what follows the last tool calls;
\* an error is pushed.
processToolResponses(s) ==
  /\ pc[s] = "followup"
  /\ \/ history' = answerAfterTools(history, s)
     \/ history' = answerAfterTools(getCorrectedResponse(history, s), s)
     \/ push(assistantPrompt(s))
  /\ cacheResponse(s)
  /\ return(s)
  /\ UNCHANGED <<aborted, currentAbortController, useDirectToolCalling,
                 approvalVars, dialogVars, executed>>

----------------------------------------------------------------------------
(* The API confirmation dialog.                                             *)

\* Confirming takes the operation and closes the dialog; a body that does not
\* parse is reported and leaves the dialog open, empty.
handleApiConfirmation ==
  /\ showApiConfirmation
  /\ apiRequest # NoCall
  /\ apiRequest' = NoCall
  /\ \/ /\ writing' = writing \cup {apiRequest}
        /\ showApiConfirmation' = FALSE
        /\ UNCHANGED history
     \/ /\ history' = history \o <<failurePrompt(apiRequest),
                                   assistantPrompt(apiRequest[1])>>
        /\ UNCHANGED <<writing, showApiConfirmation>>
  /\ UNCHANGED <<sendVars, abortVars, approvalVars, loading, executed>>

handleApiDialogClose ==
  /\ showApiConfirmation
  /\ showApiConfirmation' = FALSE
  /\ apiRequest' = NoCall
  /\ UNCHANGED <<history, sendVars, abortVars, approvalVars, writing, loading,
                 executed>>

\* The cluster answers a confirmed operation: a message without toolCallId on
\* success; on failure the failure callback's, and one of the helper itself.
handleActualApiRequest(c) ==
  /\ c \in writing
  /\ writing' = writing \ {c}
  /\ executed' = executed \cup {c}
  /\ \/ push(untaggedPrompt(c))
     \/ push(failurePrompt(c))
     \/ history' = history \o <<failurePrompt(c), assistantPrompt(c[1])>>
  /\ UNCHANGED <<sendVars, abortVars, approvalVars, apiRequest,
                 showApiConfirmation, loading>>

----------------------------------------------------------------------------
(* Stop, clear and reconfigure.                                             *)

\* Mutant: there is always a controller to abort.
handleStopRequest_NoNullCheck ==
  /\ loading
  /\ loading' = FALSE
  /\ aborted' = aborted \cup {currentAbortController}
  /\ currentAbortController' = None
  /\ UNCHANGED <<history, sendVars, useDirectToolCalling, cached, approvalVars,
                 dialogVars, executed>>

handleStopRequest ==
  /\ loading
  /\ loading' = FALSE
  /\ aborted' = IF currentAbortController = None THEN aborted
                ELSE aborted \cup {currentAbortController}
  /\ currentAbortController' = None
  /\ UNCHANGED <<history, sendVars, useDirectToolCalling, cached, approvalVars,
                 dialogVars, executed>>

\* The pending approval outlives the history its card was in.
onClearHistory ==
  /\ history # <<>>
  /\ history' = <<>>
  /\ UNCHANGED <<sendVars, abortVars, approvalVars, dialogVars, loading,
                 executed>>

\* The tools are configured again when the Kubernetes context changes.
configureTools ==
  /\ ~useDirectToolCalling
  /\ useDirectToolCalling' = TRUE
  /\ UNCHANGED <<history, sendVars, aborted, currentAbortController, cached,
                 approvalVars, dialogVars, loading, executed>>

----------------------------------------------------------------------------
\* The steps the JavaScript event loop and the services behind it owe a send.
Work(s) ==
  \/ callModel(s) \/ plainAnswer(s) \/ modelCallFails(s) \/ errorExplained(s)
  \/ toolsPrepared(s) \/ approvalGranted(s) \/ approvalRefused(s)
  \/ executeMcpTool(s) \/ executeGet(s) \/ executeWrite(s)
  \/ toolsProcessed(s) \/ generateResponseFromToolResults(s)
  \/ processToolResponses(s)

Next ==
  \/ \E s \in Sends :
       \/ userSend(s) \/ Work(s)
       \/ handleApprove(s) \/ handleDeny(s)
       \/ \E p \in Plans : orchestrateToolsForRequest(s, p) \/ handleToolCalls(s, p)
  \/ handleApiConfirmation
  \/ handleApiDialogClose
  \/ \E c \in Calls : handleActualApiRequest(c)
  \/ handleStopRequest
  \/ onClearHistory
  \/ configureTools

Spec == Init /\ [][Next]_vars

FairSpec == Spec /\ \A s \in Sends : WF_vars(Work(s))

----------------------------------------------------------------------------
ControlOK ==
  /\ pc \in [Sends -> Steps]
  /\ frame \in [Sends -> Frames]
  /\ aborted \in SUBSET Sends
  /\ currentAbortController \in Sends \cup {None}
  /\ pendingRequest \in Sends \cup {None}
  /\ promise \in [Sends -> {"none", "waiting", "granted", "refused"}]
  /\ apiRequest \in Calls \cup {NoCall}
  /\ writing \in SUBSET Calls
  /\ executed \in SUBSET Calls

\* Every variable holds a value of its type.
TypeOK ==
  /\ ControlOK
  /\ \A i \in DOMAIN history :
       /\ history[i].send \in Sends
       /\ history[i].id \in Calls \cup {NoCall, ErrorCall}
  /\ {useDirectToolCalling, cached, showApiConfirmation, loading} \subseteq BOOLEAN

Approval ==
  INSTANCE ApprovalContract
    WITH Requests <- Sends, ToolNames <- Tools, decision <- promise,
         ran <- {c \in executed : IsMcp(c[2])}

\* The approval of MCP tools keeps its contract in every interleaving of
\* sends, supersessions, stale buttons, stops and clears: a request is decided
\* once and only a granted one runs its tools (requestApproval, the closures
\* of the cards, handleToolCalls and handleMultipleToolExecution).
ApprovalKept == Approval!Spec

\* The spinner never outlives the work: while the chat shows it, some send is
\* under way and not merely waiting for an approval (setLoading in modal.tsx).
SpinnerHasWork ==
  loading => \E s \in Sends : pc[s] \notin {"idle", "approve", "done"}

\* A send ends, or waits for the user: every decision on its approval, also a
\* supersession, lets it end, and nothing else keeps it (userSend).
SendSettles ==
  \A s \in Sends :
    pc[s] # "idle" ~> (pc[s] = "done" \/ promise[s] = "waiting")

\* handleMultipleToolExecution: "Clear the tool confirmation message from history
\* after execution completes.  This ensures the "Executing tools..." loading dialog
\* is hidden".  clearToolConfirmation takes the last card instead, which may be the
\* open one of another send.
OwnDialogHidden ==
  [][\A s \in Sends :
       pc[s] = "summarise" /\ pc'[s] = "done" => s \notin cards(history')]_vars
=============================================================================
