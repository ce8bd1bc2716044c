---------------------------- MODULE RunLifecycle ----------------------------
(***************************************************************************)
(* The runs of AguiRunRunner from the request to the finalizer, with the   *)
(* registries they share (_reserved, _active, _tasks and the tool contexts *)
(* of ActiveToolContexts), the endpoint that drives a run, and close().    *)
(*                                                                         *)
(* A run is an async generator.  The task of the request takes its first   *)
(* event; the task of the streaming response takes the others, and cancels *)
(* with the request.  While the generator is suspended at a yield, its     *)
(* driver is in a send to the browser, and whatever cancels the driver     *)
(* then does not reach the generator: nobody closes it but the garbage     *)
(* collector's hook, in a task of its own ("collector").                   *)
(***************************************************************************)
EXTENDS Naturals, FiniteSets

CONSTANTS Runs,      \* requests that start a run, once each
          Threads,
          ThreadOf,  \* the thread of each run
          None

ASSUME ConstantsAssumption ==
  /\ IsFiniteSet(Runs) /\ IsFiniteSet(Threads)
  /\ ThreadOf \in [Runs -> Threads]
  /\ None \notin Runs

VARIABLES
  pc,       \* where the generator of the run is
  way,      \* how it leaves: to RUN_FINISHED, to RUN_ERROR, by return or by cancellation
  driver,   \* the task that runs it: "request", "stream", "collector", or "nobody"
  cancel,   \* the task of the run with a cancellation to be delivered
  engine,   \* the processing task of the agent
  reserved, \* _reserved
  active,   \* _active
  contexts, \* ActiveToolContexts._active; a thread has one session
  tasks,    \* _tasks
  closing,  \* close(): "no", "joining", "returned"
  awaited   \* the tasks close() gathers

registries == <<reserved, active, tasks>>
vars == <<pc, way, driver, cancel, engine, registries, contexts, closing, awaited>>

AtYield == {"opened", "snapshot", "handing", "ending"}
AtAwait == {"preparing", "syncing", "sending", "polling", "joining"}
Live == AtYield \cup AtAwait
LiveRuns == {r \in Runs : pc[r] \in Live}
Ways == {"none", "finish", "error", "return", "cancelled"}
Tasks == {"request", "stream"}

Init ==
  /\ pc = [r \in Runs |-> "idle"]
  /\ way = [r \in Runs |-> "none"]
  /\ driver = [r \in Runs |-> "nobody"]
  /\ cancel = [r \in Runs |-> "none"]
  /\ engine = [r \in Runs |-> "none"]
  /\ reserved = {}
  /\ active = [t \in Threads |-> None]
  /\ contexts = [t \in Threads |-> None]
  /\ tasks = {}
  /\ closing = "no" /\ awaited = {}

-----------------------------------------------------------------------------
(* Parts of several steps.                                                 *)

\* No cancellation is due in the driver's next step.
Driven(r) == driver[r] \in Tasks /\ cancel[r] # driver[r]

To(r, p) == pc' = [pc EXCEPT ![r] = p]
Leaving(r, w) == way' = [way EXCEPT ![r] = w]

\* Slip: the engine is joined but not cancelled.
JoinOnly(r) == UNCHANGED engine

\* The finally block of stream_run cancels the processing task.
CancelEngine(r) ==
  engine' = [engine EXCEPT ![r] = IF @ = "running" THEN "finalizing" ELSE @]

\* The tool context is bound, and dropped, with the block of contexts.bind().
Bind(r) == contexts' = [contexts EXCEPT ![ThreadOf[r]] = r]
Unbind(r) == contexts' = [contexts EXCEPT ![ThreadOf[r]] = None]

\* The task under which the generator has registered itself.
Registered(r) == <<r, IF pc[r] = "opened" THEN "request" ELSE "stream">>

\* The finally block of _run; disconnecting the dispatcher does not suspend.
Finalize(r) ==
  /\ To(r, "ended")
  /\ driver' = [driver EXCEPT ![r] = "nobody"]
  /\ active' = [active EXCEPT ![ThreadOf[r]] = None]
  /\ reserved' = reserved \ {ThreadOf[r]}
  /\ tasks' = tasks \ {Registered(r)}

\* An exception that leaves the block of the timeout becomes RUN_ERROR.
Fail(r) == To(r, "ending") /\ Leaving(r, "error")

-----------------------------------------------------------------------------
(* The request and the start of the stream.                                *)

\* Slip: only a thread that has an active run is taken.
Inactive(t) == active[t] = None

Free(t) == t \notin reserved

\* The first event is taken by the request's own task, without suspending.
Begin(r) ==
  /\ pc[r] = "idle"
  /\ IF closing = "no" /\ Free(ThreadOf[r])
     THEN /\ To(r, "opened")
          /\ driver' = [driver EXCEPT ![r] = "request"]
          /\ reserved' = reserved \cup {ThreadOf[r]}
          /\ tasks' = tasks \cup {<<r, "request">>}
     ELSE /\ To(r, "refused")
          /\ UNCHANGED <<driver, reserved, tasks>>
  /\ UNCHANGED <<way, cancel, engine, active, contexts, closing, awaited>>

\* The response starts a task for its body; the request's task awaits it.
StartBody(r) ==
  /\ pc[r] = "opened" /\ driver[r] = "request" /\ Driven(r)
  /\ driver' = [driver EXCEPT ![r] = "stream"]
  /\ UNCHANGED <<pc, way, cancel, engine, registries, contexts, closing, awaited>>

\* Slip: the generator stays registered under the request's task only.
RegisterNone(r) == tasks' = tasks \ {<<r, "request">>}

Reregister(r) == tasks' = (tasks \ {<<r, "request">>}) \cup {<<r, "stream">>}

\* RUN_STARTED was sent: the generator goes on, in the stream's task.
Resume(r) ==
  /\ pc[r] = "opened" /\ driver[r] = "stream" /\ Driven(r)
  /\ To(r, "preparing")
  /\ Reregister(r)
  /\ UNCHANGED <<way, driver, cancel, engine, reserved, active, contexts, closing, awaited>>

\* Identity, conversation and history are there, or one of them failed.
Prepare(r) ==
  /\ pc[r] = "preparing" /\ Driven(r)
  /\ \/ /\ To(r, "syncing")
        /\ active' = [active EXCEPT ![ThreadOf[r]] = r]
        /\ UNCHANGED way
     \/ Fail(r) /\ UNCHANGED active
  /\ UNCHANGED <<driver, cancel, engine, reserved, contexts, tasks, closing, awaited>>

\* With a message the tool context is bound, without one the run is over.
Proceed(r) ==
  \/ To(r, "sending") /\ Bind(r) /\ UNCHANGED way
  \/ To(r, "ending") /\ Leaving(r, "finish") /\ UNCHANGED contexts

\* _sync_state: the state's snapshot is sent first; without a state, or with
\* one that is known already, there is nothing to send.
Sync(r) ==
  /\ pc[r] = "syncing" /\ Driven(r)
  /\ \/ To(r, "snapshot") /\ UNCHANGED <<way, contexts>>
     \/ Fail(r) /\ UNCHANGED contexts
     \/ Proceed(r)
  /\ UNCHANGED <<driver, cancel, engine, registries, closing, awaited>>

SnapshotSent(r) ==
  /\ pc[r] = "snapshot" /\ Driven(r)
  /\ Proceed(r)
  /\ UNCHANGED <<driver, cancel, engine, registries, closing, awaited>>

\* The message is in the session: stream_run starts the engine.
Send(r) ==
  /\ pc[r] = "sending" /\ Driven(r)
  /\ \/ /\ To(r, "polling")
        /\ engine' = [engine EXCEPT ![r] = "running"]
        /\ UNCHANGED <<way, contexts>>
     \/ Fail(r) /\ Unbind(r) /\ UNCHANGED engine
  /\ UNCHANGED <<driver, cancel, registries, closing, awaited>>

-----------------------------------------------------------------------------
(* stream_run and the end of the run.                                      *)

Poll(r) ==
  /\ pc[r] = "polling" /\ Driven(r)
  /\ To(r, "handing")
  /\ UNCHANGED <<way, driver, cancel, engine, registries, contexts, closing, awaited>>

EventSent(r) ==
  /\ pc[r] = "handing" /\ Driven(r)
  /\ To(r, "polling")
  /\ UNCHANGED <<way, driver, cancel, engine, registries, contexts, closing, awaited>>

EngineEnds(r) ==
  /\ engine[r] \in {"running", "finalizing"}
  /\ engine' = [engine EXCEPT ![r] = "over"]
  /\ UNCHANGED <<pc, way, driver, cancel, registries, contexts, closing, awaited>>

\* The end of the queue: after the engine's, or because polling failed
\* ("error") or the agent had reported an error ("return").
StreamOver(r) ==
  /\ pc[r] = "polling" /\ Driven(r)
  /\ To(r, "joining")
  /\ \/ engine[r] = "over" /\ Leaving(r, "finish")
     \/ Leaving(r, "error")
     \/ Leaving(r, "return")
  /\ CancelEngine(r)
  /\ UNCHANGED <<driver, cancel, registries, contexts, closing, awaited>>

\* Slip: the context is dropped without waiting for the engine.
EngineMayRun(r) == TRUE

EngineOver(r) == engine[r] = "over"

\* The gather of stream_run returns, and contexts.bind() is left.
Joined(r) ==
  /\ pc[r] = "joining" /\ EngineOver(r)
  /\ driver[r] = "collector" \/ Driven(r)
  /\ Unbind(r)
  /\ IF way[r] \in {"finish", "error"}
     THEN To(r, "ending") /\ UNCHANGED <<driver, registries>>
     ELSE Finalize(r)
  /\ UNCHANGED <<way, cancel, engine, closing, awaited>>

\* RUN_FINISHED or RUN_ERROR was sent.
LastSent(r) ==
  /\ pc[r] = "ending" /\ Driven(r)
  /\ Finalize(r)
  /\ UNCHANGED <<way, cancel, engine, contexts, closing, awaited>>

-----------------------------------------------------------------------------
(* Cancellation, timeout and abandoned generators.                         *)

\* Both go through a scope of AnyIO, which the shielded join keeps out.
Unshielded(r) == pc[r] \in Live \ {"joining"}

\* The browser disconnects, which cancels the driver, or its send raises.
Disconnect(r) ==
  /\ Unshielded(r) /\ Driven(r)
  /\ cancel' = [cancel EXCEPT ![r] = driver[r]]
  /\ UNCHANGED <<pc, way, driver, engine, registries, contexts, closing, awaited>>

\* The request's task was cancelled while it awaits the stream's.
HandOn(r) ==
  /\ Unshielded(r) /\ cancel[r] = "request" /\ driver[r] = "stream"
  /\ cancel' = [cancel EXCEPT ![r] = "stream"]
  /\ UNCHANGED <<pc, way, driver, engine, registries, contexts, closing, awaited>>

\* The driver ends in its send; the generator stays where it is.
Abandon(r) ==
  /\ pc[r] \in AtYield
  /\ driver' = [driver EXCEPT ![r] = "nobody"]
  /\ UNCHANGED <<pc, way, engine, registries, contexts>>

\* stream_run is left before the engine's end, for the reason w.
LeaveStream(r, w) ==
  /\ pc[r] \in {"polling", "joining"}
  /\ To(r, "joining") /\ Leaving(r, w) /\ CancelEngine(r)

Cancelled(r) ==
  /\ cancel[r] = driver[r]
  /\ \/ Abandon(r)
     \/ /\ pc[r] \in {"preparing", "syncing", "sending"}
        /\ Leaving(r, "cancelled") /\ Finalize(r)
        /\ IF pc[r] = "sending" THEN Unbind(r) ELSE UNCHANGED contexts
        /\ UNCHANGED engine
     \/ LeaveStream(r, "cancelled") /\ UNCHANGED <<driver, registries, contexts>>
  /\ cancel' = [cancel EXCEPT ![r] = "none"]
  /\ UNCHANGED <<closing, awaited>>

\* asyncio.timeout(run_timeout) cancels the stream's task.  A cancellation
\* that came before it is not turned into an error.
Timed(r) ==
  \/ pc[r] \in Live \ {"opened", "ending"}
  \/ pc[r] = "ending" /\ way[r] = "finish"

Timeout(r) ==
  /\ Timed(r) /\ Driven(r) /\ way[r] # "cancelled"
  /\ \/ Abandon(r)
     \/ /\ pc[r] \in {"preparing", "syncing", "sending"}
        /\ Fail(r)
        /\ IF pc[r] = "sending" THEN Unbind(r) ELSE UNCHANGED contexts
        /\ UNCHANGED <<driver, engine, registries>>
     \/ LeaveStream(r, "error") /\ UNCHANGED <<driver, registries, contexts>>
  /\ UNCHANGED <<cancel, closing, awaited>>

\* The hook for abandoned generators closes it: GeneratorExit at its yield.
Collect(r) ==
  /\ pc[r] \in AtYield /\ driver[r] = "nobody"
  /\ IF pc[r] = "handing"
     THEN /\ To(r, "joining") /\ CancelEngine(r)
          /\ driver' = [driver EXCEPT ![r] = "collector"]
          /\ UNCHANGED registries
     ELSE Finalize(r) /\ UNCHANGED engine
  /\ Leaving(r, "cancelled")
  /\ UNCHANGED <<cancel, contexts, closing, awaited>>

\* close(): no run starts any more.  It cancels the tasks themselves, which
\* no shield keeps out.
CloseBegin ==
  /\ closing = "no"
  /\ closing' = "joining"
  /\ awaited' = tasks
  /\ cancel' = [r \in Runs |->
                  IF <<r, "stream">> \in tasks /\ driver[r] = "stream" THEN "stream"
                  ELSE IF <<r, "request">> \in tasks /\ driver[r] \in Tasks
                          /\ cancel[r] = "none" THEN "request" ELSE cancel[r]]
  /\ UNCHANGED <<pc, way, driver, engine, registries, contexts>>

\* The request's task ends with the stream's.
TaskOver(r) == driver[r] \notin Tasks

CloseEnd ==
  /\ closing = "joining"
  /\ \A x \in awaited : TaskOver(x[1])
  /\ closing' = "returned"
  /\ UNCHANGED <<pc, way, driver, cancel, engine, registries, contexts, awaited>>

Terminated ==
  /\ \A r \in Runs : pc[r] \in {"ended", "refused"}
  /\ closing # "joining"
  /\ UNCHANGED vars

\* What the event loop does without anybody's help.
LoopStep(r) ==
  \/ StartBody(r) \/ HandOn(r) \/ Cancelled(r) \/ Timeout(r) \/ Joined(r) \/ Collect(r)

PeerStep(r) == Resume(r) \/ LastSent(r)

RunStep(r) ==
  \/ Begin(r) \/ Prepare(r) \/ Sync(r) \/ SnapshotSent(r) \/ Send(r) \/ Poll(r)
  \/ EventSent(r) \/ EngineEnds(r) \/ StreamOver(r) \/ Disconnect(r)

Next ==
  \/ \E r \in Runs : RunStep(r) \/ LoopStep(r) \/ PeerStep(r)
  \/ CloseBegin \/ CloseEnd \/ Terminated

\* Tasks that are ready run, the run's timeout comes, abandoned generators are
\* collected, and a cancelled engine gets through its finalizers.  The peer takes
\* the first and the last event, which no timeout covers, or disconnects.
Fairness ==
  /\ \A r \in Runs : /\ WF_vars(LoopStep(r))
                     /\ WF_vars(engine[r] = "finalizing" /\ EngineEnds(r))
                     /\ WF_vars(PeerStep(r) \/ Disconnect(r))
  /\ WF_vars(CloseEnd)

Spec == Init /\ [][Next]_vars
FairSpec == Spec /\ Fairness

-----------------------------------------------------------------------------
(* Properties.                                                             *)

\* Every variable has its type, and _tasks never outgrows the reservations.
TypeOK ==
  /\ pc \in [Runs -> Live \cup {"idle", "refused", "ended"}]
  /\ way \in [Runs -> Ways]
  /\ driver \in [Runs -> Tasks \cup {"collector", "nobody"}]
  /\ cancel \in [Runs -> Tasks \cup {"none"}]
  /\ engine \in [Runs -> {"none", "running", "finalizing", "over"}]
  /\ reserved \in SUBSET Threads
  /\ active \in [Threads -> Runs \cup {None}]
  /\ contexts \in [Threads -> Runs \cup {None}]
  /\ tasks \in SUBSET (Runs \X Tasks) /\ Cardinality(tasks) <= Cardinality(reserved)
  /\ closing \in {"no", "joining", "returned"}
  /\ awaited \in SUBSET (Runs \X Tasks)

\* The registries tell the truth about the runs: a thread is reserved exactly
\* while one run of it lives, at most one does, the active run of a thread is
\* that one, and close() finds every run that a task drives.
RegistriesAgree ==
  /\ reserved = {ThreadOf[r] : r \in LiveRuns}
  /\ \A r, s \in LiveRuns : ThreadOf[r] = ThreadOf[s] => r = s
  /\ \A t \in Threads : active[t] # None =>
       active[t] \in LiveRuns /\ ThreadOf[active[t]] = t
  /\ \A r \in LiveRuns : Registered(r) \in tasks

\* "Serial runs per session prevent ambiguous auth status" (ActiveToolContexts):
\* an engine that lives, also one that is being cancelled, has the context of
\* its own run and no other, and its receipts reach that run; a run that is about
\* to bind its context finds the session free.
EngineHasItsContext ==
  /\ \A r \in Runs : engine[r] \in {"running", "finalizing"} =>
       contexts[ThreadOf[r]] = r /\ active[ThreadOf[r]] = r
  /\ \A r \in Runs : pc[r] \in {"syncing", "snapshot"} => contexts[ThreadOf[r]] = None

\* When close() has returned, no request and no response works on a run; what
\* still lives was abandoned at a yield and waits for its collector.
CloseLeavesOnlyAbandoned ==
  closing = "returned" => \A r \in LiveRuns : driver[r] \in {"nobody", "collector"}

\* Every run ends, and with it the reservation of its thread, whatever the
\* agent does, and wherever the browser leaves or close() hits.
EveryRunEnds == \A r \in Runs : pc[r] = "opened" ~> pc[r] = "ended"

\* close() returns though agents never return by themselves.
CloseReturns == closing = "joining" ~> closing = "returned"

\* test_cancellation_awaits_processing_and_releases_context ("shutdown"): when
\* close() has returned, the processing was awaited and the context released.
CloseAwaitsProcessing ==
  closing = "returned" => \A r \in Runs : engine[r] \notin {"running", "finalizing"}

-----------------------------------------------------------------------------
(* Why the invariants hold, in the form RunLifecycleProofs needs.           *)

Bound == {"sending", "polling", "handing", "joining"}

\* Who drives a run at which point, and where its engine and context live.
RunOK(r) ==
  /\ pc[r] \notin Live => driver[r] = "nobody"
  /\ driver[r] = "request" => pc[r] = "opened"
  /\ driver[r] = "collector" => pc[r] = "joining" /\ way[r] = "cancelled"
  /\ engine[r] \in {"running", "finalizing"} => pc[r] \in {"polling", "handing", "joining"}
  /\ pc[r] \in Bound \cup {"syncing", "snapshot"} => active[ThreadOf[r]] = r
  /\ pc[r] \in Bound => contexts[ThreadOf[r]] = r

\* A context is that of a run of its thread which has bound it.
ContextsOK ==
  \A t \in Threads : contexts[t] # None =>
    pc[contexts[t]] \in Bound /\ ThreadOf[contexts[t]] = t

\* One registered task per live run, and no other.
TasksOK ==
  \A r \in Runs, k \in Tasks :
    <<r, k>> \in tasks <=> pc[r] \in Live /\ (k = "request" <=> pc[r] = "opened")

\* Runs that are still driven after close() began are among those it awaits.
ClosingOK ==
  /\ closing # "no" => \A r \in Runs : driver[r] \in Tasks => \E k \in Tasks : <<r, k>> \in awaited
  /\ closing = "returned" => \A x \in awaited : TaskOver(x[1])

IndInv == /\ TypeOK /\ (\A r \in Runs : RunOK(r)) /\ ContextsOK /\ TasksOK /\ ClosingOK
          /\ RegistriesAgree /\ EngineHasItsContext /\ CloseLeavesOnlyAbandoned

=============================================================================
