---------------------------- MODULE ChatHistory ----------------------------
(***************************************************************************)
(* The chat history of the AI assistant: the array AIManager.history that   *)
(* every part of the assistant pushes to, cuts and edits in place.  An      *)
(* entry keeps what the code decides on: its role, the send it belongs to,  *)
(* the tool calls an assistant message carries and the toolCallId of a tool *)
(* message.  Texts are left out.                                            *)
(***************************************************************************)
EXTENDS Naturals, Sequences, SequencesExt, FiniteSets

CONSTANTS Tools,      \* the tools a model may call
          MaxSends    \* bound: prompts the user sends in one behaviour

Sends == 1 .. MaxSends

\* No send, or no pending request.
None == 0

Calls == Sends \X Tools

\* The toolCallId of a tool message that has none.
NoCall == <<None, None>>

\* The toolCallId handleOperationFailure invents for a failed operation.
ErrorCall == <<None, 1>>

\* A message: calls are the tool calls of an assistant message, id is the
\* toolCallId of a tool message; quiet marks the placeholder of an operation
\* awaiting confirmation (isDisplayOnly), busy a confirmation card in its
\* loading state.
Entry(role, s) ==
  [role |-> role, send |-> s, calls |-> {}, id |-> NoCall,
   quiet |-> FALSE, busy |-> FALSE]

userPrompt(s) == Entry("user", s)

assistantPrompt(s) == Entry("assistant", s)

toolCallsPrompt(s, calls) == [Entry("assistant", s) EXCEPT !.calls = calls]

toolPrompt(c) == [Entry("tool", c[1]) EXCEPT !.id = c]

placeholderPrompt(c) == [toolPrompt(c) EXCEPT !.quiet = TRUE]

\* A tool message pushed by handleActualApiRequest: it carries no toolCallId.
untaggedPrompt(c) == Entry("tool", c[1])

confirmationPrompt(s) == Entry("confirm", s)

systemPrompt(s) == Entry("system", s)

failurePrompt(c) == [Entry("tool", c[1]) EXCEPT !.id = ErrorCall]

----------------------------------------------------------------------------
hasToolCalls(e) == e.role = "assistant" /\ e.calls # {}

findLastAssistantWithTools(h) == SelectLastInSeq(h, hasToolCalls)

\* handleToolResponseResult cuts the history after the last message with tool
\* calls, whoever's they are, and pushes the answer.
answerAfterTools(h, s) ==
  LET last == findLastAssistantWithTools(h)
  IN Append(IF last > 0 THEN SubSeq(h, 1, last) ELSE h, assistantPrompt(s))

getCorrectedResponse(h, s) == Append(h, systemPrompt(s))

isUntagged(e) == e.role = "tool" /\ e.id = NoCall

\* The handler of a GET gives its toolCallId to the last tool message that has
\* none.
tagLast(h, c) ==
  LET last == SelectLastInSeq(h, isUntagged)
  IN IF last > 0 THEN [h EXCEPT ![last].id = c] ELSE h

isConfirmation(e) == e.role = "confirm"

clearToolConfirmation(h) ==
  LET last == SelectLastInSeq(h, isConfirmation)
  IN IF last > 0 THEN RemoveAt(h, last) ELSE h

\* handleMultipleToolExecution ends with a summary of the results, which it keeps
\* out of the history, and takes the last confirmation card out of it.
handleMultipleToolExecution(h, s) ==
  clearToolConfirmation(Append(h, assistantPrompt(s)))

\* The card of a request is put in its loading state; it is looked up by
\* requestId, from the front.
updateToolConfirmationMessage(h, s) ==
  [i \in DOMAIN h |->
     IF h[i].role = "confirm" /\ h[i].send = s THEN [h[i] EXCEPT !.busy = TRUE]
     ELSE h[i]]

cards(h) == {h[i].send : i \in {j \in DOMAIN h : h[j].role = "confirm"}}

liveCards(h) ==
  {h[i].send : i \in {j \in DOMAIN h : h[j].role = "confirm" /\ ~h[j].busy}}

\* The messages that answer one of the calls, and whether they are worth a
\* follow-up: there is one, and none is a placeholder.
toolResponses(h, calls) ==
  {h[i] : i \in {j \in DOMAIN h : h[j].role = "tool" /\ h[j].id \in calls}}

shouldProcessFollowUp(h, calls) ==
  /\ toolResponses(h, calls) # {}
  /\ \A e \in toolResponses(h, calls) : ~e.quiet
=============================================================================
