-------------------------- MODULE ApprovalContract --------------------------
(***************************************************************************)
(* What inline tool approval promises, without the chat around it: a        *)
(* request is asked once and decided once, and a tool of a request runs     *)
(* only while the request stands granted.  Asking may refuse the requests   *)
(* that are still open, which is how a newer request supersedes an older    *)
(* one.                                                                     *)
(***************************************************************************)
CONSTANTS Requests, ToolNames

VARIABLES decision,   \* decision[r]: none, waiting, granted or refused
          ran         \* the tools run, as pairs of request and tool

Init ==
  /\ decision = [r \in Requests |-> "none"]
  /\ ran = {}

\* Requests decided by a step go from waiting to one of the two verdicts.
Superseded(R) ==
  [q \in Requests |-> IF q \in R THEN "refused" ELSE decision[q]]

Ask(r, R) ==
  /\ decision[r] = "none"
  /\ r \notin R
  /\ \A q \in R : decision[q] = "waiting"
  /\ decision' = [Superseded(R) EXCEPT ![r] = "waiting"]
  /\ UNCHANGED ran

Decide(r, verdict) ==
  /\ decision[r] = "waiting"
  /\ decision' = [decision EXCEPT ![r] = verdict]
  /\ UNCHANGED ran

Run(r, t) ==
  /\ decision[r] = "granted"
  /\ ran' = ran \cup {<<r, t>>}
  /\ UNCHANGED decision

Next ==
  \/ \E r \in Requests, R \in SUBSET Requests : Ask(r, R)
  \/ \E r \in Requests, verdict \in {"granted", "refused"} : Decide(r, verdict)
  \/ \E r \in Requests, t \in ToolNames : Run(r, t)

Spec == Init /\ [][Next]_<<decision, ran>>
=============================================================================
