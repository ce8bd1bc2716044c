----------------------------- MODULE Knowledge ------------------------------
(***************************************************************************)
(* RagMcpClient and RagClient: one MCP client, entered and left again,     *)
(* shared by tasks that ask the knowledge hub.  The lock is held across    *)
(* every operation on the client; each has a timeout, and what it does at  *)
(* the other side may have happened when it is cut.  Tool calls are sent   *)
(* once, a list of the tools may be asked for again.                       *)
(*                                                                         *)
(* An operation that is cancelled is assumed to end.  How the MCP client   *)
(* is left by an entry or an exit that failed is not known.                *)
(***************************************************************************)
EXTENDS RagAnswer

CONSTANTS Tasks, MaxAttempts, None

ASSUME KnowledgeAssumption ==
  /\ MaxAttempts \in Nat \ {0}
  /\ None \notin Tasks \cup Answers \cup {"connect", "close", "call", "list"}

VARIABLES
  lock,       \* _lock: its holder, or None
  connected,  \* _connected
  client,     \* the MCP client: "out", "entering", "in", "exiting", "broken"
  pc, op,     \* where each task is, and in which operation
  attempt,    \* of the operation
  sent,       \* requests of the operation that reached the hub
  payload,    \* what the hub answered, None before
  answer      \* KnowledgeAnswer

link == <<lock, connected, client>>
asked == <<payload, answer>>
vars == <<link, pc, op, attempt, sent, asked>>

Init ==
  /\ lock = None /\ connected = FALSE /\ client = "out"
  /\ pc = [t \in Tasks |-> "idle"] /\ op = [t \in Tasks |-> None]
  /\ attempt = [t \in Tasks |-> 0] /\ sent = [t \in Tasks |-> 0]
  /\ payload = [t \in Tasks |-> None] /\ answer = [t \in Tasks |-> None]

Go(t, l) == pc' = [pc EXCEPT ![t] = l]

Request(t) == op[t] \in {"call", "list"}

Begin(t, what) ==
  /\ pc[t] = "idle" /\ Go(t, "locking")
  /\ op' = [op EXCEPT ![t] = what]
  /\ attempt' = [attempt EXCEPT ![t] = 0] /\ sent' = [sent EXCEPT ![t] = 0]
  /\ payload' = [payload EXCEPT ![t] = None] /\ answer' = [answer EXCEPT ![t] = None]
  /\ UNCHANGED link

MayEnter(t) == pc[t] = "locking" /\ lock = None

\* connect when connected, close and requests when not, and a client that
\* cannot be built: nothing happens.
Turned(t) ==
  /\ MayEnter(t)
  /\ op[t] = "connect" \/ ~connected
  /\ Go(t, "idle")
  /\ UNCHANGED <<link, op, attempt, sent, asked>>

\* _execute up to the await of the operation.
Act(t) ==
  /\ MayEnter(t)
  /\ connected = (op[t] # "connect")
  /\ lock' = t /\ Go(t, "acting")
  /\ attempt' = [attempt EXCEPT ![t] = 1]
  /\ \/ op[t] = "connect" /\ client' = "entering"
     \/ op[t] = "close" /\ client' = "exiting"
     \/ Request(t) /\ UNCHANGED client
  /\ UNCHANGED <<connected, op, sent, asked>>

\* The hub receives a request, perhaps of an attempt that was cut.
Received(t) ==
  /\ pc[t] \in {"acting", "sleeping"} /\ Request(t) /\ sent[t] < attempt[t]
  /\ sent' = [sent EXCEPT ![t] = @ + 1]
  /\ UNCHANGED <<link, pc, op, attempt, asked>>

Connects(t) ==
  /\ pc[t] = "acting" /\ op[t] = "connect"
  /\ client' = "in" /\ connected' = TRUE /\ lock' = None
  /\ Go(t, "idle") /\ UNCHANGED <<op, attempt, sent, asked>>

Closes(t) ==
  /\ pc[t] = "acting" /\ op[t] = "close"
  /\ client' = "out" /\ connected' = FALSE /\ lock' = None
  /\ Go(t, "idle") /\ UNCHANGED <<op, attempt, sent, asked>>

\* A list of the tools; an error of the tool; what is not an answer.
Returns(t) ==
  /\ pc[t] = "acting" /\ Request(t) /\ sent[t] > 0
  /\ lock' = None /\ Go(t, "idle")
  /\ UNCHANGED <<connected, client, op, attempt, sent, asked>>

\* A tool's answer, which _answer shapes after the lock is given back.
Answered(t) ==
  /\ pc[t] = "acting" /\ op[t] = "call" /\ sent[t] > 0
  /\ \E p \in Payloads : /\ payload' = [payload EXCEPT ![t] = p]
                         /\ answer' = [answer EXCEPT ![t] = Shaped(p)]
  /\ lock' = None /\ Go(t, "shaping")
  /\ UNCHANGED <<connected, client, op, attempt, sent>>

Retryable(t) == op[t] = "list" /\ attempt[t] < MaxAttempts

\* Slip: closing has no timeout.
LimitedUnlessClosing(t) == pc[t] = "acting" /\ op[t] # "close"

Limited(t) == pc[t] = "acting"

\* Slip: a failed exit leaves the client marked as connected.
StillConnected(t) == connected

ConnectedAfter(t) == connected /\ op[t] # "close"

Give(t) ==
  /\ lock' = None /\ Go(t, "idle")
  /\ connected' = ConnectedAfter(t)
  /\ client' \in IF Request(t) THEN {client} ELSE {"out", "broken"}

\* The timeout, or an error of the transport: ask again, or give up.
Fails(t) ==
  /\ Limited(t)
  /\ IF Retryable(t) THEN Go(t, "sleeping") /\ UNCHANGED link ELSE Give(t)
  /\ UNCHANGED <<op, attempt, sent, asked>>

Retry(t) ==
  /\ pc[t] = "sleeping" /\ Go(t, "acting")
  /\ attempt' = [attempt EXCEPT ![t] = @ + 1]
  /\ UNCHANGED <<link, op, sent, asked>>

\* Another error, or the task is cancelled.
Breaks(t) ==
  /\ \/ pc[t] \in {"acting", "sleeping"} /\ Give(t)
     \/ pc[t] = "locking" /\ Go(t, "idle") /\ UNCHANGED link
  /\ UNCHANGED <<op, attempt, sent, asked>>

Shrink(t) ==
  /\ pc[t] = "shaping" /\ TooBig(answer[t])
  /\ answer' = [answer EXCEPT ![t] = Shrunk(@)]
  /\ UNCHANGED <<link, pc, op, attempt, sent, payload>>

Deliver(t) ==
  /\ pc[t] = "shaping" /\ ~TooBig(answer[t])
  /\ Go(t, "idle") /\ UNCHANGED <<link, op, attempt, sent, asked>>

Next ==
  \E t \in Tasks :
    \/ \E what \in {"connect", "close", "call", "list"} : Begin(t, what)
    \/ Turned(t) \/ Act(t) \/ Received(t) \/ Connects(t) \/ Closes(t)
    \/ Returns(t) \/ Answered(t) \/ Fails(t) \/ Retry(t) \/ Breaks(t)
    \/ Shrink(t) \/ Deliver(t)

Spec == Init /\ [][Next]_vars

\* The lock is handed over in the order it was asked for, every operation has
\* its timeout, and the loop of _answer does not wait for anything.
Fairness ==
  \A t \in Tasks : /\ SF_vars(Turned(t) \/ Act(t))
                   /\ WF_vars(Fails(t)) /\ WF_vars(Retry(t))
                   /\ WF_vars(Shrink(t) \/ Deliver(t))

FairSpec == Spec /\ Fairness

-----------------------------------------------------------------------------
(* Properties.                                                             *)

TypeOK ==
  /\ lock \in Tasks \cup {None} /\ connected \in BOOLEAN
  /\ client \in {"out", "entering", "in", "exiting", "broken"}
  /\ pc \in [Tasks -> {"idle", "locking", "acting", "sleeping", "shaping"}]
  /\ op \in [Tasks -> {"connect", "close", "call", "list", None}]
  /\ attempt \in [Tasks -> 0 .. MaxAttempts] /\ sent \in [Tasks -> Nat]
  /\ payload \in [Tasks -> Payloads \cup {None}]
  /\ answer \in [Tasks -> Answers \cup {None}]

\* A request is only under way on a client that is in, never while another
\* task enters or leaves it nor after an entry or exit broke off; and the hub
\* receives a tool call once at most and a list max_attempts times, whatever
\* timed out or was cancelled.
RequestsAreSafe ==
  \A t \in Tasks :
    /\ pc[t] \in {"acting", "sleeping"} /\ Request(t) => client = "in"
    /\ sent[t] <= IF op[t] = "list" THEN MaxAttempts ELSE 1

\* Without its metadata and with the text cut to Keep the answer would fit.
WouldFit(b) ==
  Base + Least(b.len, Keep) * b.width + b.sources * SourceBytes + b.collection <= MaxBytes

\* An answer fits the budget; it says that it was truncated if anything is
\* missing, by whichever of the two bounds; and no source is lost as long as
\* leaving out metadata and the text beyond Keep is enough.
AnswersAreHonest ==
  \A t \in Tasks :
    pc[t] = "idle" /\ answer[t] # None =>
      /\ Size(answer[t]) <= MaxBytes
      /\ answer[t] = payload[t] \/ answer[t].truncated
      /\ WouldFit(Bounded(payload[t])) => answer[t].sources = Bounded(payload[t]).sources

\* Every operation returns or raises, whatever the hub does.
EveryLookupReturns == \A t \in Tasks : pc[t] = "locking" ~> pc[t] = "idle"
=============================================================================
