----------------------------- MODULE Dispatcher -----------------------------
(***************************************************************************)
(* FrontendToolDispatcher of one AG-UI run, with what a run composes it    *)
(* of: the run's state store (_RunStateStore over FrontendStateManager),   *)
(* the bounded event queue of AguiEventStream, the state_lock under which  *)
(* AguiRunRunner.handle_tool_result submits browser receipts, and the      *)
(* disconnect/close of the run's finalizer.                                *)
(*                                                                         *)
(* Everything runs on one event loop, so an action is what a task does     *)
(* between two suspensions.  A tool is the task that awaits dispatch(); a  *)
(* resolver is one HTTP request that submits one receipt.  Cancelling a    *)
(* send or update task takes effect at once: a cancelled task does nothing *)
(* more that any other task can see.                                       *)
(***************************************************************************)
EXTENDS Naturals, Sequences, FiniteSets

CONSTANTS Tools,        \* tasks that call dispatch(), once each
          Ids,          \* call_ids
          Resolvers,    \* requests that submit a receipt, once each
          Requests,     \* the receipts the browser may send
          None,
          MaxCalls,     \* max_calls
          MaxRevision,  \* bound: receipts carry revisions up to this one
          QueueCap,     \* maxsize of AguiEventStream.queue
          InitialRevisions, \* of the state an earlier run has left
          MaxNotices,   \* bound: semantic events of one state change
          Rejections,   \* what the tool policy may answer to a call it stops
          SinkMayFail   \* may sink.send raise?

Revisions == 1..MaxRevision
Updates == [kind : {"snapshot", "delta"}, base : 0..MaxRevision,
            version : Revisions, wellFormed : BOOLEAN]
RequestType == [id : Ids, status : {"success", "error", "timeout"},
                stated : 0..MaxRevision, update : Updates \cup {None}]

ASSUME ConstantsAssumption ==
  /\ IsFiniteSet(Ids)
  /\ None \notin Tools \cup Ids \cup Resolvers \cup Updates \cup Requests
  /\ Requests \subseteq RequestType
  /\ MaxCalls \in Nat \ {0} /\ QueueCap \in Nat \ {0}
  /\ MaxRevision \in Nat /\ MaxNotices \in Nat
  /\ InitialRevisions \subseteq 0..MaxRevision
  /\ Rejections \subseteq {"denied", "invalid_arguments", "confirmation_required"}
  /\ SinkMayFail \in BOOLEAN

VARIABLES
  pc,         \* dispatch(): "idle", "sending", "waiting", "returned"
  call,       \* call_id of the tool, None before dispatch
  phase,      \* PendingCall: events handed to the sink (3: accepting_result)
  send,       \* PendingCall.send_task
  future,     \* PendingCall.future, "unset" until it has a result
  woken,      \* resulting_state_version of the receipt in the future, or 0
  expired,    \* loop.time() >= deadline
  outcome,    \* what dispatch() returned or raised
  pending,    \* _pending
  used,       \* _used
  rpc,        \* resolver: "idle", "locking", "updating", "replied"
  request,    \* the receipt a resolver submits
  target,     \* the tool whose call a resolver settles
  update,     \* PendingCall.update_task that the resolver awaits
  notices,    \* semantic events the update task still has to create
  reply,      \* what handle_tool_result answered
  lock,       \* ActiveRun.state_lock: the resolver that holds it
  revision,   \* version in FrontendStateManager, 0 without a state
  noticed,    \* revisions whose semantic events were all created
  published,  \* revisions whose snapshot was put into the queue
  queue,      \* AguiEventStream.queue
  seen,       \* last event of a call that reached the browser
  run         \* "streaming", "stopped" (nobody reads the queue), "ended"

toolVars == <<pc, call, phase, send, future, woken, expired, outcome>>
resolverVars == <<rpc, request, target, update, notices, reply>>
stateVars == <<revision, noticed, published>>
vars == <<toolVars, pending, used, resolverVars, lock, stateVars, queue, seen, run>>

Open == {"sending", "waiting"}
Success == {"success"}
BrowserErrors == {"execution_failed", "state_conflict", "invalid_state"}
Refusals == {"disconnected", "id_used", "limit_reached", "denied",
             "invalid_arguments", "confirmation_required"}
Receipts == Success \cup BrowserErrors
Losses == {"timeout", "cancelled", "send_failed"}

Running == {"created", "notifying", "publishing"}   \* update_task not done
Committed == {"notifying", "publishing", "done", "failed", "torn"}

ToolEvent(id, p) == [call |-> id, phase |-> p]
Snapshot(v) == [snapshot |-> v]
Events == [call : Ids, phase : 1..3] \cup [snapshot : Revisions]

Init ==
  /\ pc = [t \in Tools |-> "idle"]
  /\ call = [t \in Tools |-> None]
  /\ phase = [t \in Tools |-> 0]
  /\ send = [t \in Tools |-> "none"]
  /\ future = [t \in Tools |-> "unset"]
  /\ woken = [t \in Tools |-> 0]
  /\ expired = [t \in Tools |-> FALSE]
  /\ outcome = [t \in Tools |-> "none"]
  /\ pending = [i \in Ids |-> None]
  /\ used = {}
  /\ rpc = [r \in Resolvers |-> "idle"]
  /\ request = [r \in Resolvers |-> None]
  /\ target = [r \in Resolvers |-> None]
  /\ update = [r \in Resolvers |-> "none"]
  /\ notices = [r \in Resolvers |-> 0]
  /\ reply = [r \in Resolvers |-> "none"]
  /\ lock = None
  /\ revision \in InitialRevisions
  /\ noticed = {} /\ published = {}
  /\ queue = <<>>
  /\ seen = [i \in Ids |-> 0]
  /\ run = "streaming"

-----------------------------------------------------------------------------
(* dispatch().                                                             *)

\* _closed and _disconnected: the finalizer of the run sets both.
Closed == run = "ended"

Refuse(t, o) ==
  /\ pc' = [pc EXCEPT ![t] = "returned"]
  /\ outcome' = [outcome EXCEPT ![t] = o]
  /\ UNCHANGED <<phase, send, future, woken, expired, pending, resolverVars,
                 lock, stateVars, queue, seen, run>>

DispatchClosed(t) ==
  /\ pc[t] = "idle" /\ Closed
  /\ Refuse(t, "disconnected")
  /\ UNCHANGED <<call, used>>

DispatchUsedId(t, id) ==
  /\ pc[t] = "idle" /\ ~Closed
  /\ id \in used
  /\ Refuse(t, "id_used")
  /\ UNCHANGED <<call, used>>

DispatchOverLimit(t, id) ==
  /\ pc[t] = "idle" /\ ~Closed
  /\ id \notin used /\ Cardinality(used) >= MaxCalls
  /\ Refuse(t, "limit_reached")
  /\ UNCHANGED <<call, used>>

\* Slip: only the running calls are looked at.
FreshWhenNotPending(id) == pending[id] = None /\ Cardinality(used) < MaxCalls

\* The checks that every call which is not refused outright has passed.
FreshId(id) == id \notin used /\ Cardinality(used) < MaxCalls

\* The policy denies the tool, the arguments do not validate, or the action
\* needs a confirmation it has not got.  The ID is retired all the same.
DispatchDenied(t, id) ==
  /\ pc[t] = "idle" /\ ~Closed
  /\ FreshId(id)
  /\ used' = used \cup {id}
  /\ call' = [call EXCEPT ![t] = id]
  /\ \E o \in Rejections : Refuse(t, o)

\* The call is registered and its first event handed to a send task.
DispatchOpen(t, id) ==
  /\ pc[t] = "idle" /\ ~Closed
  /\ FreshId(id)
  /\ used' = used \cup {id}
  /\ pc' = [pc EXCEPT ![t] = "sending"]
  /\ call' = [call EXCEPT ![t] = id]
  /\ phase' = [phase EXCEPT ![t] = 1]
  /\ send' = [send EXCEPT ![t] = "running"]
  /\ pending' = [pending EXCEPT ![id] = t]
  /\ UNCHANGED <<future, woken, expired, outcome, resolverVars, lock,
                 stateVars, queue, seen, run>>

HasRoom == Len(queue) < QueueCap

\* sink.send: put the event when the queue has room, wait for room otherwise.
SendPut(t) ==
  /\ send[t] = "running" /\ HasRoom
  /\ queue' = Append(queue, ToolEvent(call[t], phase[t]))
  /\ send' = [send EXCEPT ![t] = "done"]
  /\ UNCHANGED <<pc, call, phase, future, woken, expired, outcome, pending,
                 used, resolverVars, lock, stateVars, seen, run>>

SendRaises(t) ==
  /\ SinkMayFail
  /\ send[t] = "running"
  /\ send' = [send EXCEPT ![t] = "failed"]
  /\ UNCHANGED <<pc, call, phase, future, woken, expired, outcome, pending,
                 used, resolverVars, lock, stateVars, queue, seen, run>>

\* The event was sent and no result came meanwhile: send the next one, or
\* wait for the future after TOOL_CALL_END.
SendNext(t) ==
  /\ pc[t] = "sending" /\ send[t] = "done" /\ future[t] = "unset"
  /\ IF phase[t] < 3
     THEN /\ phase' = [phase EXCEPT ![t] = @ + 1]
          /\ send' = [send EXCEPT ![t] = "running"]
          /\ UNCHANGED pc
     ELSE /\ pc' = [pc EXCEPT ![t] = "waiting"]
          /\ UNCHANGED <<phase, send>>
  /\ UNCHANGED <<call, future, woken, expired, outcome, pending, used,
                 resolverVars, lock, stateVars, queue, seen, run>>

\* Slips: the helper tasks are left running.
KeepUpdates(T) == update
KeepSend(t) == send

CancelSend(t) == [send EXCEPT ![t] = IF @ = "running" THEN "cancelled" ELSE @]

\* The update tasks of the calls in T after a cancel(): one that has not
\* started never runs, one that has committed is torn off its publication.
CancelUpdates(T) ==
  [r \in Resolvers |-> IF target[r] \notin T \/ update[r] \notin Running THEN update[r]
                       ELSE IF update[r] = "created" THEN "dropped" ELSE "torn"]

\* The finally block: deregister, cancel the future and both helper tasks.
Finish(t, o) ==
  /\ pc' = [pc EXCEPT ![t] = "returned"]
  /\ outcome' = [outcome EXCEPT ![t] = o]
  /\ pending' = [pending EXCEPT ![call[t]] = None]
  /\ future' = [future EXCEPT ![t] = IF @ = "unset" THEN "cancelled" ELSE @]
  /\ send' = CancelSend(t)
  /\ update' = CancelUpdates({t})
  /\ UNCHANGED <<call, phase, woken, expired, used, rpc, request, target,
                 notices, reply, lock, stateVars, queue, seen, run>>

\* sink.send raised and no result had come by then.
DispatchSendFailed(t) ==
  /\ pc[t] = "sending" /\ send[t] = "failed" /\ future[t] = "unset"
  /\ Finish(t, "send_failed")

\* The task runs again with the future done, whatever became of the send.
DispatchResult(t) ==
  /\ pc[t] \in Open /\ future[t] # "unset"
  /\ Finish(t, future[t])

Expire(t) ==
  /\ pc[t] \in Open /\ ~expired[t]
  /\ expired' = [expired EXCEPT ![t] = TRUE]
  /\ UNCHANGED <<pc, call, phase, send, future, woken, outcome, pending, used,
                 resolverVars, lock, stateVars, queue, seen, run>>

\* Slip: the deadline covers only the wait for the browser, not the sends.
TimeoutWhileWaiting(t) ==
  /\ pc[t] = "waiting" /\ expired[t]
  /\ Finish(t, "timeout")

\* timeout_at fires.  It wins even over a future set just before: the timer
\* cancels the task before the task has run again.
DispatchTimeout(t) ==
  /\ pc[t] \in Open /\ expired[t]
  /\ Finish(t, "timeout")

\* The agent SDK cancels the task of the tool.
DispatchCancelled(t) ==
  /\ pc[t] \in Open
  /\ Finish(t, "cancelled")

-----------------------------------------------------------------------------
(* handle_tool_result() and resolve_result().                              *)

\* The run is looked up, then the request queues for state_lock.
HandleToolResult(r, q) ==
  /\ rpc[r] = "idle"
  /\ IF run = "ended"
     THEN /\ rpc' = [rpc EXCEPT ![r] = "replied"]
          /\ reply' = [reply EXCEPT ![r] = "false"]
          /\ UNCHANGED request
     ELSE /\ rpc' = [rpc EXCEPT ![r] = "locking"]
          /\ request' = [request EXCEPT ![r] = q]
          /\ UNCHANGED reply
  /\ UNCHANGED <<toolVars, pending, used, target, update, notices, lock,
                 stateVars, queue, seen, run>>

\* pending.resolving is set exactly while a resolver awaits its update task.
Resolving(t) == \E r \in Resolvers : rpc[r] = "updating" /\ target[r] = t

\* Slip: a settled call may be settled again.
AcceptableTwice(id) ==
  LET t == pending[id]
  IN t # None /\ ~Resolving(t) /\ phase[t] = 3 /\ ~expired[t]

\* A receipt for id is looked at only while its call is registered, END has
\* been handed to the sink, and nothing has settled the call.
Acceptable(id) ==
  LET t == pending[id]
  IN t # None /\ ~Resolving(t) /\ phase[t] = 3 /\ future[t] = "unset" /\ ~expired[t]

Malformed(q) ==
  \/ q.status \notin {"success", "error"}
  \/ q.status = "error" /\ q.update # None
  \/ q.status = "success" /\ q.update = None /\ q.stated # 0
  \/ q.update # None /\ q.stated # q.update.version

Answer(r, a) ==
  /\ rpc' = [rpc EXCEPT ![r] = "replied"]
  /\ reply' = [reply EXCEPT ![r] = a]
  /\ request' = [request EXCEPT ![r] = None]
  /\ update' = [update EXCEPT ![r] = "none"]
  /\ notices' = [notices EXCEPT ![r] = 0]

Unchanged4Reply == UNCHANGED <<pc, call, phase, send, expired, outcome, pending,
                               used, stateVars, queue, seen, run>>

\* Slip: the receipts of a run are not serialized.
HasNoLock(r) == rpc[r] = "locking"

\* The request holds the lock from here until its next suspension or answer.
HasLock(r) == rpc[r] = "locking" /\ lock = None

ResolveStale(r) ==
  /\ HasLock(r)
  /\ ~Acceptable(request[r].id)
  /\ Answer(r, "false")
  /\ UNCHANGED <<target, lock, future, woken>>
  /\ Unchanged4Reply

ResolveMalformed(r) ==
  /\ HasLock(r)
  /\ Acceptable(request[r].id) /\ Malformed(request[r])
  /\ Answer(r, "raised")
  /\ UNCHANGED <<target, lock, future, woken>>
  /\ Unchanged4Reply

\* set_result and the answer True, in one step.
Settle(r, t, v, n) ==
  /\ future' = [future EXCEPT ![t] = v]
  /\ woken' = [woken EXCEPT ![t] = n]
  /\ target' = [target EXCEPT ![r] = t]
  /\ Answer(r, "true")

ResolvePlain(r) ==
  LET q == request[r]
  IN /\ HasLock(r)
     /\ Acceptable(q.id) /\ ~Malformed(q) /\ q.update = None
     /\ Settle(r, pending[q.id], IF q.status = "error" THEN "execution_failed" ELSE "success", 0)
     /\ UNCHANGED lock
     /\ Unchanged4Reply

ResolveWithState(r) ==
  LET q == request[r]
  IN /\ HasLock(r)
     /\ Acceptable(q.id) /\ ~Malformed(q) /\ q.update # None
     /\ lock' = r
     /\ rpc' = [rpc EXCEPT ![r] = "updating"]
     /\ target' = [target EXCEPT ![r] = pending[q.id]]
     /\ update' = [update EXCEPT ![r] = "created"]
     /\ UNCHANGED <<toolVars, pending, used, request, notices, reply,
                    stateVars, queue, seen, run>>

-----------------------------------------------------------------------------
(* _RunStateStore.update(), the update task.                               *)

\* FrontendStateReducer: apply_snapshot validates before it compares
\* revisions, apply_delta compares revisions before it looks at sections.
Verdict(u) ==
  LET advances == IF u.kind = "snapshot" THEN u.version = revision + 1
                  ELSE revision # 0 /\ u.base = revision /\ u.version = u.base + 1
  IN IF u.kind = "snapshot" /\ ~u.wellFormed THEN "invalid"
     ELSE IF ~advances THEN "conflict"
     ELSE IF ~u.wellFormed THEN "invalid" ELSE "ok"

\* Slip: put_nowait, and a full queue is ignored.
DropSnapshotWhenFull(r, v) ==
  /\ IF HasRoom THEN queue' = Append(queue, Snapshot(v)) /\ published' = published \cup {v}
                ELSE UNCHANGED <<queue, published>>
  /\ update' = [update EXCEPT ![r] = "done"]

\* queue.put of the snapshot: immediate when there is room.
PutSnapshot(r, v) ==
  IF HasRoom
  THEN /\ queue' = Append(queue, Snapshot(v))
       /\ published' = published \cup {v}
       /\ update' = [update EXCEPT ![r] = "done"]
  ELSE /\ update' = [update EXCEPT ![r] = "publishing"]
       /\ UNCHANGED <<queue, published>>

UnchangedByUpdate == UNCHANGED <<toolVars, pending, used, rpc, request, target,
                                 reply, lock, seen, run>>

UpdateRefused(r) ==
  /\ update[r] = "created"
  /\ Verdict(request[r].update) # "ok"
  /\ update' = [update EXCEPT ![r] = Verdict(request[r].update)]
  /\ UNCHANGED <<notices, stateVars, queue>>
  /\ UnchangedByUpdate

\* The revision is committed in the first step of the task, before the
\* first call of the event gateway.
UpdateCommit(r) ==
  LET v == request[r].update.version
  IN /\ update[r] = "created"
     /\ Verdict(request[r].update) = "ok"
     /\ revision' = v
     /\ \E n \in 0..MaxNotices :
          /\ notices' = [notices EXCEPT ![r] = n]
          /\ IF n = 0
             THEN noticed' = noticed \cup {v} /\ PutSnapshot(r, v)
             ELSE /\ update' = [update EXCEPT ![r] = "notifying"]
                  /\ UNCHANGED <<noticed, published, queue>>
     /\ UnchangedByUpdate

\* The gateway created a semantic event; after the last one the snapshot.
NoticeCreated(r) ==
  LET v == request[r].update.version
  IN /\ update[r] = "notifying"
     /\ notices' = [notices EXCEPT ![r] = @ - 1]
     /\ IF notices[r] = 1
        THEN noticed' = noticed \cup {v} /\ PutSnapshot(r, v)
        ELSE UNCHANGED <<noticed, published, queue, update>>
     /\ UNCHANGED revision
     /\ UnchangedByUpdate

\* The gateway raises: the error propagates, the revision stays committed.
NoticeFailed(r) ==
  /\ update[r] = "notifying"
  /\ update' = [update EXCEPT ![r] = "failed"]
  /\ UNCHANGED <<notices, stateVars, queue>>
  /\ UnchangedByUpdate

SnapshotPut(r) ==
  /\ update[r] = "publishing" /\ HasRoom
  /\ PutSnapshot(r, request[r].update.version)
  /\ UNCHANGED <<notices, revision, noticed>>
  /\ UnchangedByUpdate

-----------------------------------------------------------------------------
(* resolve_result() resumes after its update task.                         *)

Resumes(r) == rpc[r] = "updating" /\ lock' = None /\ Unchanged4Reply

SettledWith(r) == CASE update[r] = "done" -> "success"
                    [] update[r] = "conflict" -> "state_conflict"
                    [] update[r] = "invalid" -> "invalid_state"

\* Slip: whatever settled the call during the update is overwritten.
ResumeSettleBlindly(r) ==
  /\ Resumes(r)
  /\ update[r] \in {"done", "conflict", "invalid"}
  /\ Settle(r, target[r], SettledWith(r), 0)

\* The update ran to its end, or the store refused it.
ResumeSettle(r) ==
  LET t == target[r]
  IN /\ Resumes(r)
     /\ update[r] \in {"done", "conflict", "invalid"}
     /\ IF future[t] = "unset"
        THEN Settle(r, t, SettledWith(r),
                    IF update[r] = "done" THEN request[r].update.version ELSE 0)
        ELSE /\ target' = [target EXCEPT ![r] = None]
             /\ Answer(r, "false")
             /\ UNCHANGED <<future, woken>>

\* Slip: the lock is released on the normal way out only.
FailedKeepsLock(r) ==
  /\ rpc[r] = "updating" /\ update[r] = "failed"
  /\ target' = [target EXCEPT ![r] = None]
  /\ Answer(r, "raised")
  /\ UNCHANGED <<future, woken, lock>>
  /\ Unchanged4Reply

\* A gateway failure leaves the call registered and unsettled.
ResumeFailed(r) ==
  /\ Resumes(r)
  /\ update[r] = "failed"
  /\ target' = [target EXCEPT ![r] = None]
  /\ Answer(r, "raised")
  /\ UNCHANGED <<future, woken>>

\* The task was cancelled by dispatch() or disconnect(): the future is done.
ResumeCancelled(r) ==
  /\ Resumes(r)
  /\ update[r] \in {"dropped", "torn"}
  /\ target' = [target EXCEPT ![r] = None]
  /\ Answer(r, IF future[target[r]] # "unset" THEN "false" ELSE "raised")
  /\ UNCHANGED <<future, woken>>

\* timeout_at of the resolver fires; like in dispatch() it wins over an
\* update task that has just ended.
ResumeTimeout(r) ==
  /\ Resumes(r)
  /\ expired[target[r]]
  /\ target' = [target EXCEPT ![r] = None]
  /\ Answer(r, "false")
  /\ UNCHANGED <<future, woken>>

\* The request itself is cancelled, while it waits for the lock or for its
\* update task (which is cancelled with it).
ResolverCancelled(r) ==
  /\ rpc[r] \in {"locking", "updating"}
  /\ lock' = IF lock = r THEN None ELSE lock
  /\ target' = [target EXCEPT ![r] = None]
  /\ Answer(r, IF rpc[r] = "updating" /\ future[target[r]] # "unset" THEN "false"
                                                                     ELSE "raised")
  /\ UNCHANGED <<future, woken>>
  /\ Unchanged4Reply

-----------------------------------------------------------------------------
(* The run around the dispatcher.                                          *)

\* The stream hands the next event to the browser.
Consume ==
  /\ run = "streaming" /\ queue # <<>>
  /\ queue' = Tail(queue)
  /\ seen' = IF "call" \in DOMAIN Head(queue)
             THEN [seen EXCEPT ![Head(queue).call] = Head(queue).phase]
             ELSE seen
  /\ UNCHANGED <<toolVars, pending, used, resolverVars, lock, stateVars, run>>

\* The stream ends or is abandoned; its finally block still joins the
\* engine, and the tools stay registered, while nobody reads the queue.
StopStreaming ==
  /\ run = "streaming"
  /\ run' = "stopped"
  /\ UNCHANGED <<toolVars, pending, used, resolverVars, lock, stateVars, queue, seen>>

\* The finalizer: dispatcher.disconnect(), close(), and out of _active.
EndRun ==
  LET T == {t \in {pending[i] : i \in Ids} \ {None} : future[t] = "unset"}
  IN /\ run = "stopped"
     /\ run' = "ended"
     /\ future' = [t \in Tools |-> IF t \in T THEN "disconnected" ELSE future[t]]
     /\ update' = CancelUpdates(T)
     /\ UNCHANGED <<pc, call, phase, send, woken, expired, outcome, pending, used,
                    rpc, request, target, notices, reply, lock, stateVars, queue, seen>>

Terminated ==
  /\ run = "ended"
  /\ \A t \in Tools : pc[t] = "returned"
  /\ \A r \in Resolvers : rpc[r] = "replied"
  /\ UNCHANGED vars

ToolStep(t) ==
  \/ SendPut(t) \/ SendNext(t) \/ DispatchSendFailed(t) \/ DispatchResult(t)
  \/ DispatchTimeout(t)

ResolverStep(r) ==
  \/ ResolveStale(r) \/ ResolveMalformed(r) \/ ResolvePlain(r) \/ ResolveWithState(r)
  \/ UpdateRefused(r) \/ UpdateCommit(r) \/ SnapshotPut(r)
  \/ ResumeSettle(r) \/ ResumeFailed(r) \/ ResumeCancelled(r) \/ ResumeTimeout(r)

Dispatch(t) ==
  \/ DispatchClosed(t)
  \/ \E id \in Ids : \/ DispatchUsedId(t, id) \/ DispatchOverLimit(t, id)
                     \/ DispatchDenied(t, id) \/ DispatchOpen(t, id)

Next ==
  \/ \E t \in Tools : Dispatch(t) \/ ToolStep(t) \/ SendRaises(t) \/ Expire(t) \/ DispatchCancelled(t)
  \/ \E r \in Resolvers : \/ \E q \in Requests : HandleToolResult(r, q)
                          \/ ResolverStep(r) \/ NoticeCreated(r) \/ NoticeFailed(r)
                          \/ ResolverCancelled(r)
  \/ Consume \/ StopStreaming \/ EndRun \/ Terminated

\* The event loop runs every ready task and time passes.  Nothing is assumed
\* of the browser, the event gateway, the agent SDK or the end of the run.
Fairness ==
  /\ \A t \in Tools : WF_vars(ToolStep(t)) /\ WF_vars(Expire(t))
  /\ \A r \in Resolvers : WF_vars(ResolverStep(r))

Spec == Init /\ [][Next]_vars
FairSpec == Spec /\ Fairness

-----------------------------------------------------------------------------
(* Properties.                                                             *)

\* Every variable has its type; the queue never exceeds its maxsize, and the
\* retired IDs never exceed max_calls.
TypeOK ==
  /\ pc \in [Tools -> {"idle", "sending", "waiting", "returned"}]
  /\ call \in [Tools -> Ids \cup {None}]
  /\ phase \in [Tools -> 0..3]
  /\ send \in [Tools -> {"none", "running", "done", "failed", "cancelled"}]
  /\ future \in [Tools -> Receipts \cup {"unset", "disconnected", "cancelled"}]
  /\ woken \in [Tools -> 0..MaxRevision]
  /\ expired \in [Tools -> BOOLEAN]
  /\ outcome \in [Tools -> Receipts \cup Refusals \cup Losses \cup {"none"}]
  /\ pending \in [Ids -> Tools \cup {None}]
  /\ used \in SUBSET Ids /\ Cardinality(used) <= MaxCalls
  /\ rpc \in [Resolvers -> {"idle", "locking", "updating", "replied"}]
  /\ request \in [Resolvers -> Requests \cup {None}]
  /\ target \in [Resolvers -> Tools \cup {None}]
  /\ update \in [Resolvers -> Running \cup {"none", "done", "conflict", "invalid",
                                          "failed", "dropped", "torn"}]
  /\ notices \in [Resolvers -> 0..MaxNotices]
  /\ reply \in [Resolvers -> {"none", "true", "false", "raised"}]
  /\ lock \in Resolvers \cup {None}
  /\ revision \in 0..MaxRevision
  /\ noticed \in SUBSET Revisions /\ published \in SUBSET Revisions
  /\ queue \in Seq(Events) /\ Len(queue) <= QueueCap
  /\ seen \in [Ids -> 0..3]
  /\ run \in {"streaming", "stopped", "ended"}

\* The registry and the running dispatch() calls agree: an entry of _pending
\* names a call that is running under that ID, every running call is found
\* under its ID (or no receipt could ever reach it), and a call that has
\* returned leaves no send or update task of its own behind.
RegistryConsistent ==
  /\ \A i \in Ids : pending[i] # None => pc[pending[i]] \in Open /\ call[pending[i]] = i
  /\ \A t \in Tools : pc[t] \in Open => pending[call[t]] = t
  /\ \A t \in Tools : pc[t] = "returned" =>
       /\ send[t] # "running"
       /\ \A r \in Resolvers : target[r] = t => update[r] \notin Running

\* "Publish state/UI events before the dispatcher wakes the waiting agent
\* tool" (_RunStateStore): when a call is settled with a new revision, the
\* revision is committed, its semantic events exist and its snapshot is queued.
PublishedBeforeWake ==
  \A t \in Tools : future[t] = "success" /\ woken[t] # 0 =>
    woken[t] <= revision /\ woken[t] \in noticed \cap published

\* At most one receipt is told "accepted" per call, and only if it settled
\* the call: an accepted receipt is never contradicted by a disconnect or a
\* failed send, at worst overtaken by the deadline or a cancellation.
AcceptedOnce ==
  /\ \A r1, r2 \in Resolvers :
       reply[r1] = "true" /\ reply[r2] = "true" /\ target[r1] = target[r2] => r1 = r2
  /\ \A r \in Resolvers : reply[r] = "true" =>
       /\ future[target[r]] \in Receipts
       /\ outcome[target[r]] \in {"none", future[target[r]], "timeout", "cancelled"}

\* "Process revisions in order in the caller" (FrontendEventHandler): both the
\* semantic events and the snapshots of a later revision come later, also when
\* receipts of several tools race and publications are torn or fail.
RevisionsInOrder ==
  [][/\ \A v \in noticed' \ noticed : \A w \in noticed : w < v
     /\ \A v \in published' \ published : \A w \in published : w < v]_vars

\* After the run's finalizer no receipt of this run changes the store state
\* of the thread any more (a later run of the thread may own it by then).
NoCommitAfterEnd == [][run = "ended" => UNCHANGED stateVars]_vars

\* The browser gets START, ARGS and END of a call in this order, each once,
\* and a call that has returned to the agent is never announced further: with
\* its dispatch() over, no event of its ID enters the queue.
BrowserSeesCallsInOrder ==
  [][/\ \A i \in Ids : seen'[i] # seen[i] => seen'[i] = seen[i] + 1
     /\ \A t \in Tools : pc[t] = "returned" /\ call[t] # None /\ Len(queue') > Len(queue)
          => queue'[Len(queue')] \notin [call : {call[t]}, phase : 1..3]]_vars

\* Every receipt is answered, though a hung event gateway or a full queue may
\* keep the update task of the receipt before it, and state_lock with it.
EveryReceiptAnswered ==
  \A r \in Resolvers : rpc[r] \in {"locking", "updating"} ~> rpc[r] = "replied"

\* resolve_result's docstring: "False for duplicate/late/foreign results; no
\* state mutation in those cases."
FalseMeansNoMutation ==
  [][\A r \in Resolvers : reply[r] = "none" /\ reply'[r] = "false"
       => update[r] \notin Committed]_vars

-----------------------------------------------------------------------------
(* Why the invariants hold: the links between a call, the receipt that is   *)
(* about to settle it and the lock, in the form DispatcherProofs needs.     *)

\* A call has a settled future only once it was opened, keeps its ID retired,
\* and is told nothing else than what settled it unless it gave up waiting.
CallsOK ==
  /\ \A t \in Tools : pc[t] = "idle" => future[t] = "unset" /\ outcome[t] = "none"
  /\ \A t \in Tools : pc[t] \in Open => call[t] \in used /\ outcome[t] = "none"
  /\ \A t \in Tools : send[t] = "running" => pc[t] = "sending" /\ phase[t] # 0
  /\ \A t \in Tools : future[t] \in Receipts =>
       outcome[t] \in {"none", future[t], "timeout", "cancelled"}
  /\ run = "ended" => \A t \in Tools : pc[t] \in Open => future[t] # "unset"

\* state_lock is held exactly while a resolver awaits its update task; a
\* running update task belongs to a call that is open and not yet settled.
ResolversOK ==
  /\ \A r \in Resolvers : rpc[r] \in {"locking", "updating"} => request[r] # None
  /\ \A r \in Resolvers : rpc[r] = "updating" <=> lock = r
  /\ \A r \in Resolvers : rpc[r] = "updating" =>
       target[r] # None /\ request[r].update # None
  /\ \A r \in Resolvers : reply[r] # "none" => rpc[r] = "replied"
  /\ \A r \in Resolvers : update[r] # "none" => rpc[r] = "updating"
  /\ \A r \in Resolvers : update[r] \in Running =>
       pc[target[r]] \in Open /\ future[target[r]] = "unset"
  /\ \A r \in Resolvers : rpc[r] = "updating" /\ future[target[r]] = "unset" =>
       pc[target[r]] \in Open
  /\ \A r \in Resolvers : update[r] = "notifying" => notices[r] # 0
  /\ \A r \in Resolvers : reply[r] = "true" =>
       target[r] # None /\ future[target[r]] \in Receipts

\* How far the publication of the revision a resolver commits has come.
PublicationOK ==
  \A r \in Resolvers :
    LET v == request[r].update.version
    IN /\ update[r] \in {"notifying", "publishing", "done"} => v <= revision
       /\ update[r] \in {"publishing", "done"} => v \in noticed
       /\ update[r] = "done" => v \in published

\* Only the latest revision is still being published, and what is published
\* of it comes after everything of the revisions before it.
OrderOK ==
  /\ \A v \in noticed \cup published : v <= revision
  /\ \A r \in Resolvers : update[r] \in {"notifying", "publishing"} =>
       request[r].update.version = revision /\ revision \notin published
  /\ \A r \in Resolvers : update[r] = "notifying" => revision \notin noticed

\* The inductive invariant: the properties with what they rest on.
IndInv == /\ TypeOK /\ CallsOK /\ ResolversOK /\ PublicationOK /\ OrderOK
          /\ RegistryConsistent /\ PublishedBeforeWake /\ AcceptedOnce

-----------------------------------------------------------------------------
(* Refinement.                                                             *)

\* The state of a call, what settled it and how many receipts were told so, as
\* the agent's tool and the browser see them.
CallStatus == [t \in Tools |-> IF pc[t] = "idle" THEN "idle"
                               ELSE IF pc[t] \in Open THEN "open" ELSE "closed"]
CallVerdict == [t \in Tools |-> IF future[t] \in {"unset", "cancelled"} THEN "none"
                                ELSE future[t]]
TimesAccepted ==
  [t \in Tools |-> Cardinality({r \in Resolvers : reply[r] = "true" /\ target[r] = t})]

Promise == INSTANCE ToolPromise WITH
  status <- CallStatus, verdict <- CallVerdict, accepted <- TimesAccepted

\* The steps of the dispatcher are steps of ToolPromise: a call is settled once,
\* one receipt at most is told so, and the tool gets one outcome.
KeepsPromiseSteps == Promise!Init /\ [][Promise!Next]_(Promise!vars)

\* The dispatcher keeps the promise of ToolPromise, its fairness included: every
\* dispatch() returns, even if the browser never reads and the agent never
\* cancels; the deadline alone is enough.
KeepsPromise == Promise!Spec

=============================================================================
