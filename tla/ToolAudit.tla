----------------------------- MODULE ToolAudit ------------------------------
(***************************************************************************)
(* Invocations of protected tools and the audit rows around them, on the   *)
(* three surfaces that write the log:                                      *)
(*   "frontend"  FrontendToolAuthorizationPolicy.dispatch                  *)
(*   "agent"     tool_boundary of a high-risk tool, AuditService.tool_call *)
(*   "admin"     AdminToolRuntime.invoke                                   *)
(* Every append, the consumption of an approval and the action itself are  *)
(* awaited: each may fail before or after its effect, and the invocation   *)
(* may be cancelled there, or end with the process.                        *)
(***************************************************************************)
EXTENDS Naturals, FiniteSets

CONSTANTS Invocations, Approvals, None

ASSUME AuditAssumption ==
  None \notin Approvals \cup {"success", "failure", "answered", "abandoned", "denied", "pending"}

Surfaces == {"frontend", "agent", "admin"}

VARIABLES
  surface,  \* of the invocation
  wants,    \* the approval it presents; None: no confirmation required
  step,     \* what the invocation awaits
  verdict,  \* how the action ended; "answered": with a failure of the
            \* browser that its tool returned
  spent,    \* approvals consumed
  trail, effect, reply   \* as in AuditPromise; reply "failed": the result says
                         \* so, "error": an exception

auditVars == <<surface, wants, step, verdict, spent, trail, effect, reply>>
promised == <<trail, effect, reply>>

AuditInit ==
  /\ surface = [k \in Invocations |-> None] /\ wants = [k \in Invocations |-> None]
  /\ step = [k \in Invocations |-> "idle"]
  /\ verdict = [k \in Invocations |-> None]
  /\ spent = {}
  /\ trail = [k \in Invocations |-> {}]
  /\ effect = [k \in Invocations |-> FALSE]
  /\ reply = [k \in Invocations |-> "none"]

Go(k, l) == step' = [step EXCEPT ![k] = l]
Tell(k, r) == Go(k, "over") /\ reply' = [reply EXCEPT ![k] = r]

\* What an exception becomes: invoke turns it into a result, elsewhere it
\* reaches tool_boundary, which says nothing of the outcome.
Raised(k) == IF surface[k] = "admin" THEN "failed" ELSE "error"

Invoke(k, s, a) ==
  /\ step[k] = "idle"
  /\ s # "frontend" => a = None
  /\ surface' = [surface EXCEPT ![k] = s] /\ wants' = [wants EXCEPT ![k] = a]
  /\ Go(k, "access")
  /\ UNCHANGED <<verdict, spent, promised>>

\* Slip: whatever consume answers counts as consent.
Consents(a) == TRUE

\* The approval store consumes an approval atomically and once.
Consumable(a) == a \notin spent

\* require_tool_access, and consume where the policy asks for confirmation.
Access(k) ==
  /\ step[k] = "access"
  /\ \/ /\ wants[k] = None \/ Consumable(wants[k])
        /\ spent' = spent \cup ({wants[k]} \ {None})
        /\ Go(k, "pending")
     \/ /\ surface[k] # "agent" /\ UNCHANGED spent
        /\ Go(k, "denying")
  /\ UNCHANGED <<surface, wants, verdict, promised>>

\* The check, the token or the approval store fails: nothing is recorded,
\* and the approval may be spent.
AccessFails(k) ==
  /\ step[k] = "access"
  /\ spent' \in {spent, spent \cup ({wants[k]} \ {None})}
  /\ Tell(k, Raised(k))
  /\ UNCHANGED <<surface, wants, verdict, trail, effect>>

-----------------------------------------------------------------------------
(* Rows.                                                                   *)

\* tool_call records a success whenever its tool returns.
Row(k) == IF step[k] = "recording" THEN IF verdict[k] = "answered" THEN "success" ELSE verdict[k]
          ELSE [denying |-> "denied", pending |-> "pending", failing |-> "failure"][step[k]]

Recording == {"denying", "pending", "recording", "failing"}

Append(k) == trail' = [trail EXCEPT ![k] = @ \cup {Row(k)}]

\* append returns.
Recorded(k) ==
  /\ step[k] \in Recording /\ Append(k)
  /\ \/ step[k] = "pending" /\ Go(k, "acting") /\ UNCHANGED reply
     \/ step[k] = "recording" /\ Tell(k, IF verdict[k] = "success" THEN "ok" ELSE "failed")
     \/ step[k] \in {"denying", "failing"} /\ Tell(k, Raised(k))
  /\ UNCHANGED <<surface, wants, verdict, spent, effect>>

\* Slip: an unwritten outcome is taken for a failure of the action.
FailureAgain(k) ==
  IF step[k] \in {"pending", "recording"} THEN Go(k, "failing") /\ UNCHANGED reply
  ELSE Tell(k, Raised(k))

\* Without a record of the intent nothing is done (invoke still tries to
\* note a failure); an action that returned is not called a failure.
Unrecorded(k) ==
  \/ step[k] = "pending" /\ surface[k] = "admin" /\ Go(k, "failing") /\ UNCHANGED reply
  \/ step[k] = "recording" /\ surface[k] = "admin" /\ Tell(k, "unknown")
  \/ /\ step[k] \in {"denying", "failing"} \/ surface[k] # "admin"
     /\ Tell(k, Raised(k))

\* append raises; the row may have been written.
RecordFails(k) ==
  /\ step[k] \in Recording
  /\ Append(k) \/ UNCHANGED trail
  /\ Unrecorded(k)
  /\ UNCHANGED <<surface, wants, verdict, spent, effect>>

-----------------------------------------------------------------------------
(* The action.                                                             *)

\* Saleor or the browser performs it, perhaps after the caller gave up.
Happen(k) ==
  /\ step[k] = "acting" \/ (step[k] \in {"failing", "recording", "over"}
                              /\ verdict[k] \in {"failure", "answered", "abandoned"})
  /\ ~effect[k]
  /\ effect' = [effect EXCEPT ![k] = TRUE]
  /\ UNCHANGED <<surface, wants, step, verdict, spent, trail, reply>>

\* A browser may refuse the action, fail, be gone or not answer: that is a
\* result, too.  dispatch records it as a failure; ToolDependencies.frontend
\* returns it, and so does the tool of the agent.
BrowserFails(k) == IF surface[k] = "frontend" THEN "failure" ELSE "answered"

\* The action returns.
Returns(k) ==
  /\ step[k] = "acting"
  /\ \/ effect[k] /\ verdict' = [verdict EXCEPT ![k] = "success"]
     \/ surface[k] \in {"frontend", "agent"} /\ verdict' = [verdict EXCEPT ![k] = BrowserFails(k)]
  /\ Go(k, "recording")
  /\ UNCHANGED <<surface, wants, spent, promised>>

\* The action raises.
Raises(k) ==
  /\ step[k] = "acting"
  /\ verdict' = [verdict EXCEPT ![k] = "failure"]
  /\ Go(k, "failing")
  /\ UNCHANGED <<surface, wants, spent, promised>>

\* Cancellation.  invoke does not catch it; elsewhere the row of a failure
\* is written under a shield, which a second cancellation of the task ends.
Cancel(k) ==
  /\ step[k] \notin {"idle", "over"}
  /\ IF step[k] \in Recording THEN Append(k) \/ UNCHANGED trail ELSE UNCHANGED trail
  /\ spent' \in {spent} \cup {spent \cup ({wants[k]} \ {None}) : x \in {"access"} \cap {step[k]}}
  /\ verdict' = IF step[k] = "acting" THEN [verdict EXCEPT ![k] = "abandoned"] ELSE verdict
  /\ Go(k, IF step[k] = "acting" /\ surface[k] # "admin" THEN "failing" ELSE "over")
  /\ UNCHANGED <<surface, wants, effect, reply>>

Crash ==
  /\ verdict' = [k \in Invocations |-> IF step[k] = "acting" THEN "abandoned" ELSE verdict[k]]
  /\ step' = [k \in Invocations |-> IF step[k] = "idle" THEN "idle" ELSE "over"]
  /\ UNCHANGED <<surface, wants, spent, promised>>

-----------------------------------------------------------------------------
(* Properties.                                                             *)

\* The row of a tool of the agent says whether it returned, not what the
\* browser answered: that is in the row dispatch writes for the same action.
Promise == INSTANCE AuditPromise
             WITH vouched <- {k \in Invocations : surface[k] # "agent"}

\* The audit log keeps AuditPromise, whichever append, action or invocation
\* fails, is cancelled or dies, before or after its effect: on every surface
\* as to the record of the intent, the one outcome and the success a caller
\* is told of, and on the browser's and the administrators' as to the truth
\* of the outcome it records.
KeepsTrail == Promise!Spec

Acted(k) == "pending" \in trail[k] \/ effect[k]

\* An approval lets one invocation reach the protected action, however many
\* present it and however they end.
ApprovalOnce ==
  \A j, k \in Invocations :
    wants[j] # None /\ wants[j] = wants[k] /\ Acted(j) /\ Acted(k) => j = k
=============================================================================
