---------------------------- MODULE ToolPromise ----------------------------
(***************************************************************************)
(* What FrontendToolDispatcher promises the agent's tools and the browser, *)
(* with queues, deadlines, locks and state updates left out: a call that   *)
(* is opened is settled at most once, at most one browser receipt is ever  *)
(* told "accepted", and the tool always gets exactly one outcome.          *)
(* Dispatcher implements this specification.                               *)
(***************************************************************************)
EXTENDS Naturals

CONSTANTS Tools,     \* the tool calls of one run
          Receipts,  \* what a browser receipt can settle a call with
          Refusals   \* outcomes of a call that is never opened

VARIABLES status,    \* "idle", "open" or "closed"
          verdict,   \* what settled the call, "none" while undecided
          accepted,  \* how many receipts were told "accepted"
          outcome    \* what the tool was given, "none" before it returns

vars == <<status, verdict, accepted, outcome>>

Init == /\ status = [t \in Tools |-> "idle"]
        /\ verdict = [t \in Tools |-> "none"]
        /\ accepted = [t \in Tools |-> 0]
        /\ outcome = [t \in Tools |-> "none"]

Undecided(t) == status[t] = "open" /\ verdict[t] = "none"

Close(t, o) == /\ status' = [status EXCEPT ![t] = "closed"]
               /\ outcome' = [outcome EXCEPT ![t] = o]
               /\ UNCHANGED <<verdict, accepted>>

Open(t) == /\ status[t] = "idle"
           /\ status' = [status EXCEPT ![t] = "open"]
           /\ UNCHANGED <<verdict, accepted, outcome>>

Refuse(t) == /\ status[t] = "idle"
             /\ \E o \in Refusals : Close(t, o)

\* A browser receipt settles the call and is told so.
Accept(t) == /\ Undecided(t)
             /\ \E v \in Receipts : verdict' = [verdict EXCEPT ![t] = v]
             /\ accepted' = [accepted EXCEPT ![t] = @ + 1]
             /\ UNCHANGED <<status, outcome>>

\* The connection goes away: every undecided call is settled at once.
Hangup == /\ \E t \in Tools : Undecided(t)
          /\ verdict' = [t \in Tools |-> IF Undecided(t) THEN "disconnected"
                                                         ELSE verdict[t]]
          /\ UNCHANGED <<status, accepted, outcome>>

Deliver(t) == /\ status[t] = "open" /\ verdict[t] # "none"
              /\ Close(t, verdict[t])

\* The deadline or a cancellation of the tool may overtake even a settled
\* call on its way to the tool; a transport failure only an undecided one.
Abandon(t) == /\ status[t] = "open"
              /\ \/ \E o \in {"timeout", "cancelled"} : Close(t, o)
                 \/ verdict[t] = "none" /\ Close(t, "send_failed")

Next == \/ Hangup
        \/ \E t \in Tools : Open(t) \/ Refuse(t) \/ Accept(t) \/ Deliver(t) \/ Abandon(t)

Spec == /\ Init /\ [][Next]_vars
        /\ \A t \in Tools : WF_vars(Deliver(t) \/ Abandon(t))

=============================================================================
