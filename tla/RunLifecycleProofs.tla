------------------------- MODULE RunLifecycleProofs -------------------------
(***************************************************************************)
(* Theorems about RunLifecycle: its registries tell the truth about the    *)
(* runs, a living engine has the tool context of its own run, and close()  *)
(* leaves no run to a request or a response.                               *)
(***************************************************************************)
EXTENDS RunLifecycle, FiniteSetTheorems, TLAPS

\* TypeOK without the bound of _tasks.
Types ==
  /\ pc \in [Runs -> Live \cup {"idle", "refused", "ended"}]
  /\ way \in [Runs -> Ways]
  /\ driver \in [Runs -> Tasks \cup {"collector", "nobody"}]
  /\ cancel \in [Runs -> Tasks \cup {"none"}]
  /\ engine \in [Runs -> {"none", "running", "finalizing", "over"}]
  /\ reserved \in SUBSET Threads
  /\ active \in [Threads -> Runs \cup {None}]
  /\ contexts \in [Threads -> Runs \cup {None}]
  /\ tasks \in SUBSET (Runs \X Tasks)
  /\ closing \in {"no", "joining", "returned"}
  /\ awaited \in SUBSET (Runs \X Tasks)

\* The inductive invariant without what concerns close().
Core == /\ Types /\ (\A r \in Runs : RunOK(r)) /\ ContextsOK /\ TasksOK
        /\ RegistriesAgree /\ EngineHasItsContext

\* A step of a live run that leaves other runs and threads alone, keeps its own
\* part of the invariant, and keeps or drops its entries in the registries.
LocalStep(r) ==
  /\ \A s \in Runs \ {r} : /\ pc'[s] = pc[s] /\ driver'[s] = driver[s]
                          /\ way'[s] = way[s] /\ engine'[s] = engine[s]
  /\ \A t \in Threads \ {ThreadOf[r]} : active'[t] = active[t] /\ contexts'[t] = contexts[t]
  /\ RunOK(r)'
  /\ active'[ThreadOf[r]] \in IF pc'[r] \in Live THEN {active[ThreadOf[r]], r} ELSE {None}
  /\ contexts'[ThreadOf[r]] = IF pc'[r] \in Bound THEN r ELSE None
  /\ reserved' = IF pc'[r] \in Live THEN reserved ELSE reserved \ {ThreadOf[r]}
  /\ \A s \in Runs \ {r}, k \in Tasks : <<s, k>> \in tasks' <=> <<s, k>> \in tasks
  /\ \A k \in Tasks : <<r, k>> \in tasks' <=>
       pc'[r] \in Live /\ (k = "request" <=> pc'[r] = "opened")

\* What the core says of a live run and of the registered tasks.
LiveFacts(r) ==
  /\ Types /\ RunOK(r) /\ pc[r] \in Live /\ ThreadOf[r] \in Threads
  /\ contexts[ThreadOf[r]] = IF pc[r] \in Bound THEN r ELSE None
  /\ \A s \in Runs, k \in Tasks :
       <<s, k>> \in tasks <=> pc[s] \in Live /\ (k = "request" <=> pc[s] = "opened")

\* The context of a thread is known from its live run.
LEMMA ContextOfLive ==
  ASSUME Core, NEW r \in Runs, pc[r] \in Live
  PROVE  /\ contexts[ThreadOf[r]] = IF pc[r] \in Bound THEN r ELSE None
         /\ \A s \in Runs \ {r} : pc[s] \in Live => ThreadOf[s] # ThreadOf[r]
<1>1. \A s \in Runs \ {r} : pc[s] \in Live => ThreadOf[s] # ThreadOf[r]
  BY DEF Core, RegistriesAgree, LiveRuns
<1>2. Bound \subseteq Live
  BY DEF Bound, Live, AtYield, AtAwait
<1>3. CASE contexts[ThreadOf[r]] = None
  <2>1. r # None
    BY ConstantsAssumption
  <2>2. pc[r] \in Bound => contexts[ThreadOf[r]] = r
    BY DEF Core, RunOK
  <2>3. QED
    BY <1>1, <1>3, <2>1, <2>2
<1>4. CASE contexts[ThreadOf[r]] # None
  <2>1. /\ contexts[ThreadOf[r]] \in Runs /\ pc[contexts[ThreadOf[r]]] \in Bound
        /\ ThreadOf[contexts[ThreadOf[r]]] = ThreadOf[r]
    BY <1>4, ConstantsAssumption DEF Core, Types, ContextsOK
  <2>2. contexts[ThreadOf[r]] = r
    BY <1>1, <1>2, <2>1
  <2>3. QED
    BY <1>1, <2>1, <2>2
<1>5. QED
  BY <1>1, <1>3, <1>4

\* A local step keeps the core.
LEMMA LocalStepCore ==
  ASSUME Core, Types', NEW r \in Runs, pc[r] \in Live, LocalStep(r)
  PROVE  Core'
<1> DEFINE th == ThreadOf[r]
<1>1. Bound \cup {"syncing", "snapshot"} \subseteq Live
  BY DEF Bound, Live, AtYield, AtAwait
<1>2. \A s \in Runs \ {r} : pc[s] \in Live => ThreadOf[s] # th
  BY ContextOfLive
<1>3. ASSUME NEW s \in Runs PROVE RunOK(s)'
  <2>1. CASE s = r
    BY <2>1 DEF LocalStep
  <2>2. CASE s # r
    <3>1. RunOK(s) /\ ThreadOf[s] \in Threads
      BY ConstantsAssumption DEF Core
    <3>2. CASE pc[s] \in Live
      BY <1>2, <2>2, <3>1, <3>2 DEF LocalStep, RunOK
    <3>3. CASE pc[s] \notin Live
      BY <1>1, <2>2, <3>1, <3>3 DEF LocalStep, RunOK
    <3>4. QED
      BY <3>2, <3>3
  <2>3. QED
    BY <2>1, <2>2
<1>4. ContextsOK'
  <2>1. SUFFICES ASSUME NEW t \in Threads, contexts'[t] # None
        PROVE  pc'[contexts'[t]] \in Bound /\ ThreadOf[contexts'[t]] = t
    BY DEF ContextsOK
  <2>2. CASE t = th
    BY <2>1, <2>2 DEF LocalStep
  <2>3. CASE t # th
    <3>1. contexts'[t] = contexts[t] /\ contexts[t] \in Runs
      BY <2>1, <2>3, ConstantsAssumption DEF LocalStep, Core, Types
    <3>2. pc[contexts[t]] \in Bound /\ ThreadOf[contexts[t]] = t
      BY <2>1, <3>1 DEF Core, ContextsOK
    <3>3. contexts[t] # r
      BY <2>3, <3>2
    <3>4. QED
      BY <3>1, <3>2, <3>3 DEF LocalStep
  <2>4. QED
    BY <2>2, <2>3
<1>5. TasksOK'
  <2>1. SUFFICES ASSUME NEW s \in Runs, NEW k \in Tasks
        PROVE  <<s, k>> \in tasks' <=> pc'[s] \in Live /\ (k = "request" <=> pc'[s] = "opened")
    BY DEF TasksOK
  <2>2. CASE s = r
    BY <2>2 DEF LocalStep
  <2>3. CASE s # r
    BY <2>3 DEF LocalStep, Core, TasksOK
  <2>4. QED
    BY <2>2, <2>3
<1>6. RegistriesAgree'
  <2>1. LiveRuns' = IF pc'[r] \in Live THEN LiveRuns ELSE LiveRuns \ {r}
    BY DEF LiveRuns, LocalStep
  <2>2. reserved' = {ThreadOf[s] : s \in LiveRuns'}
    BY <1>2, <2>1 DEF Core, RegistriesAgree, LocalStep, LiveRuns
  <2>3. \A s, u \in LiveRuns' : ThreadOf[s] = ThreadOf[u] => s = u
    BY <2>1 DEF Core, RegistriesAgree
  <2>4. \A t \in Threads : active'[t] # None =>
          active'[t] \in LiveRuns' /\ ThreadOf[active'[t]] = t
    <3>1. \A t \in Threads : active[t] # None =>
            active[t] \in LiveRuns /\ ThreadOf[active[t]] = t
      BY DEF Core, RegistriesAgree
    <3>2. r \in LiveRuns
      BY DEF LiveRuns
    <3>3. active'[th] # None => active'[th] \in LiveRuns' /\ ThreadOf[active'[th]] = th
      BY <2>1, <3>1, <3>2, ConstantsAssumption DEF LocalStep
    <3>4. \A t \in Threads \ {th} : active'[t] = active[t]
      BY DEF LocalStep
    <3>5. QED
      BY <2>1, <3>1, <3>3, <3>4
  <2>5. \A s \in LiveRuns' : Registered(s)' \in tasks'
    BY <1>5 DEF TasksOK, LiveRuns, Registered, Tasks
  <2>6. QED
    BY <2>2, <2>3, <2>4, <2>5 DEF RegistriesAgree
<1>7. EngineHasItsContext'
  <2>1. \A s \in Runs : engine'[s] \in {"running", "finalizing"} =>
          contexts'[ThreadOf[s]] = s /\ active'[ThreadOf[s]] = s
    BY <1>3 DEF RunOK, Bound
  <2>2. \A s \in Runs : pc'[s] \in {"syncing", "snapshot"} => contexts'[ThreadOf[s]] = None
    <3>1. SUFFICES ASSUME NEW s \in Runs, pc'[s] \in {"syncing", "snapshot"}
          PROVE  contexts'[ThreadOf[s]] = None
      OBVIOUS
    <3>2. CASE s = r
      BY <3>1, <3>2 DEF LocalStep, Bound
    <3>3. CASE s # r
      BY <1>1, <1>2, <3>1, <3>3, ConstantsAssumption DEF LocalStep, Core, EngineHasItsContext
    <3>4. QED
      BY <3>2, <3>3
  <2>3. QED
    BY <2>1, <2>2 DEF EngineHasItsContext
<1>8. QED
  BY <1>3, <1>4, <1>5, <1>6, <1>7 DEF Core

\* A run starts only on a free thread, or is refused.
LEMMA BeginCore ==
  ASSUME Core, NEW r \in Runs, Begin(r)
  PROVE  Core'
<1>1. /\ Types /\ RunOK(r) /\ pc[r] = "idle" /\ "idle" \notin Live /\ "refused" \notin Live
      /\ ThreadOf[r] \in Threads
  BY ConstantsAssumption DEF Core, Begin, Live, AtYield, AtAwait
<1>2. Types'
  BY <1>1 DEF Types, Begin, Free, To, Live, AtYield, Tasks
<1>3. CASE pc'[r] = "refused"
  <2>1. /\ pc' = [pc EXCEPT ![r] = "refused"]
        /\ UNCHANGED <<way, driver, engine, reserved, active, contexts, tasks>>
    BY <1>1, <1>3 DEF Begin, To, Types
  <2>2. \A s \in Runs : (pc'[s] \in Live <=> pc[s] \in Live) /\ (s # r => pc'[s] = pc[s])
    BY <1>1, <2>1 DEF Types
  <2>3. \A s \in Runs : RunOK(s)'
    <3>1. RunOK(r)'
      BY <1>1, <2>1 DEF Types, RunOK, Bound, Live, AtYield, AtAwait
    <3>2. \A s \in Runs \ {r} : RunOK(s)'
      BY <2>1, <2>2 DEF Core, RunOK
    <3> QED BY <3>1, <3>2
  <2>4. ContextsOK'
    BY <1>1, <2>1, ConstantsAssumption DEF Core, Types, ContextsOK, Bound
  <2>5. TasksOK'
    BY <1>1, <2>1, <2>2 DEF Core, Types, TasksOK, Live, AtYield
  <2>6. LiveRuns' = LiveRuns /\ (\A s \in LiveRuns : Registered(s)' = Registered(s))
    BY <1>1, <2>1, <2>2 DEF LiveRuns, Registered, Types
  <2>7. RegistriesAgree' /\ EngineHasItsContext'
    BY <1>1, <2>1, <2>2, <2>6 DEF Core, Types, RegistriesAgree, EngineHasItsContext
  <2>8. QED
    BY <1>2, <2>3, <2>4, <2>5, <2>7 DEF Core
<1>4. CASE pc'[r] # "refused"
  <2>1. /\ pc' = [pc EXCEPT ![r] = "opened"] /\ driver' = [driver EXCEPT ![r] = "request"]
        /\ ThreadOf[r] \notin reserved /\ reserved' = reserved \cup {ThreadOf[r]}
        /\ tasks' = tasks \cup {<<r, "request">>}
        /\ UNCHANGED <<way, engine, active, contexts>>
    BY <1>1, <1>4 DEF Begin, Free, To, Types
  <2>2. "opened" \in Live /\ LiveRuns' = LiveRuns \cup {r} /\ r \notin LiveRuns
    BY <1>1, <2>1 DEF LiveRuns, Live, AtYield, Types
  <2>3. \A s \in LiveRuns : ThreadOf[s] # ThreadOf[r]
    BY <2>1 DEF Core, RegistriesAgree
  <2>4. \A s \in Runs : RunOK(s)'
    BY <1>1, <2>1 DEF Core, Types, RunOK, Bound, Live, AtYield, AtAwait
  <2>5. ContextsOK'
    BY <1>1, <2>1, ConstantsAssumption DEF Core, Types, ContextsOK, Bound
  <2>6. TasksOK'
    BY <1>1, <2>1, <2>2 DEF Core, Types, TasksOK, Tasks, Live, AtYield
  <2>7. RegistriesAgree'
    <3>1. reserved' = {ThreadOf[s] : s \in LiveRuns'}
      BY <2>1, <2>2 DEF Core, RegistriesAgree
    <3>2. \A s, u \in LiveRuns' : ThreadOf[s] = ThreadOf[u] => s = u
      BY <2>2, <2>3 DEF Core, RegistriesAgree
    <3>3. \A t \in Threads : active'[t] # None =>
            active'[t] \in LiveRuns' /\ ThreadOf[active'[t]] = t
      BY <2>1, <2>2 DEF Core, RegistriesAgree
    <3>4. \A s \in LiveRuns' : Registered(s)' \in tasks'
      BY <2>6 DEF TasksOK, LiveRuns, Registered, Tasks
    <3>5. QED
      BY <3>1, <3>2, <3>3, <3>4 DEF RegistriesAgree
  <2>8. EngineHasItsContext'
    BY <1>1, <2>1 DEF Core, Types, EngineHasItsContext
  <2>9. QED
    BY <1>2, <2>4, <2>5, <2>6, <2>7, <2>8 DEF Core
<1>5. QED
  BY <1>3, <1>4

\* The stream's task takes over from the request's.
LEMMA StartBodyCore ==
  ASSUME Core, NEW r \in Runs, StartBody(r)
  PROVE  Core'
<1>1. LiveFacts(r)
  BY ContextOfLive, ConstantsAssumption
  DEF LiveFacts, Core, RunOK, TasksOK, Live, AtYield, AtAwait, StartBody
<1>2. Types'
  BY <1>1, ConstantsAssumption
  DEF LiveFacts, Types, RunOK, Live, AtYield, AtAwait, Ways, Tasks, StartBody, Driven,
      registries
<1>3. LocalStep(r)
  BY <1>1, ConstantsAssumption
  DEF LiveFacts, LocalStep, Types, RunOK, Live, AtYield, AtAwait, Tasks, Bound, StartBody,
      Driven, registries
<1>4. QED
  BY <1>1, <1>2, <1>3, LocalStepCore DEF LiveFacts

\* The generator registers the task that drives it now.
LEMMA ResumeCore ==
  ASSUME Core, NEW r \in Runs, Resume(r)
  PROVE  Core'
<1>1. LiveFacts(r)
  BY ContextOfLive, ConstantsAssumption
  DEF LiveFacts, Core, RunOK, TasksOK, Live, AtYield, AtAwait, Resume
<1>2. Types'
  BY <1>1, ConstantsAssumption
  DEF LiveFacts, Types, RunOK, Live, AtYield, AtAwait, Ways, Tasks, Resume, Driven, To,
      Reregister, registries
<1>3. LocalStep(r)
  BY <1>1, ConstantsAssumption
  DEF LiveFacts, LocalStep, Types, RunOK, Live, AtYield, AtAwait, Tasks, Bound, Resume, Driven,
      To, Reregister, registries
<1>4. QED
  BY <1>1, <1>2, <1>3, LocalStepCore DEF LiveFacts

\* The run becomes the active one of its thread.
LEMMA PrepareCore ==
  ASSUME Core, NEW r \in Runs, Prepare(r)
  PROVE  Core'
<1>1. LiveFacts(r)
  BY ContextOfLive, ConstantsAssumption
  DEF LiveFacts, Core, RunOK, TasksOK, Live, AtYield, AtAwait, Prepare
<1>2. Types'
  BY <1>1, ConstantsAssumption
  DEF LiveFacts, Types, RunOK, Live, AtYield, AtAwait, Ways, Tasks, Prepare, Driven, To, Fail,
      Leaving, registries
<1>3. LocalStep(r)
  BY <1>1, ConstantsAssumption
  DEF LiveFacts, LocalStep, Types, RunOK, Live, AtYield, AtAwait, Tasks, Bound, Prepare,
      Driven, To, Fail, Leaving, registries
<1>4. QED
  BY <1>1, <1>2, <1>3, LocalStepCore DEF LiveFacts

\* The context is bound while the session is free.
LEMMA SyncCore ==
  ASSUME Core, NEW r \in Runs, Sync(r)
  PROVE  Core'
<1>1. LiveFacts(r)
  BY ContextOfLive, ConstantsAssumption
  DEF LiveFacts, Core, RunOK, TasksOK, Live, AtYield, AtAwait, Sync
<1>2. Types'
  BY <1>1, ConstantsAssumption
  DEF LiveFacts, Types, RunOK, Live, AtYield, AtAwait, Ways, Tasks, Sync, Driven, To, Fail,
      Leaving, Proceed, Bind, registries
<1>3. LocalStep(r)
  BY <1>1, ConstantsAssumption
  DEF LiveFacts, LocalStep, Types, RunOK, Live, AtYield, AtAwait, Tasks, Bound, Sync, Driven,
      To, Fail, Leaving, Proceed, Bind, registries
<1>4. QED
  BY <1>1, <1>2, <1>3, LocalStepCore DEF LiveFacts

\* The same after the snapshot.
LEMMA SnapshotSentCore ==
  ASSUME Core, NEW r \in Runs, SnapshotSent(r)
  PROVE  Core'
<1>1. LiveFacts(r)
  BY ContextOfLive, ConstantsAssumption
  DEF LiveFacts, Core, RunOK, TasksOK, Live, AtYield, AtAwait, SnapshotSent
<1>2. Types'
  BY <1>1, ConstantsAssumption
  DEF LiveFacts, Types, RunOK, Live, AtYield, AtAwait, Ways, Tasks, SnapshotSent, Driven, To,
      Leaving, Proceed, Bind, registries
<1>3. LocalStep(r)
  BY <1>1, ConstantsAssumption
  DEF LiveFacts, LocalStep, Types, RunOK, Live, AtYield, AtAwait, Tasks, Bound, SnapshotSent,
      Driven, To, Leaving, Proceed, Bind, registries
<1>4. QED
  BY <1>1, <1>2, <1>3, LocalStepCore DEF LiveFacts

\* The engine starts inside the block of its context.
LEMMA SendCore ==
  ASSUME Core, NEW r \in Runs, Send(r)
  PROVE  Core'
<1>1. LiveFacts(r)
  BY ContextOfLive, ConstantsAssumption
  DEF LiveFacts, Core, RunOK, TasksOK, Live, AtYield, AtAwait, Send
<1>2. Types'
  BY <1>1, ConstantsAssumption
  DEF LiveFacts, Types, RunOK, Live, AtYield, AtAwait, Ways, Tasks, Send, Driven, To, Fail,
      Leaving, Unbind, registries
<1>3. LocalStep(r)
  BY <1>1, ConstantsAssumption
  DEF LiveFacts, LocalStep, Types, RunOK, Live, AtYield, AtAwait, Tasks, Bound, Send, Driven,
      To, Fail, Leaving, Unbind, registries
<1>4. QED
  BY <1>1, <1>2, <1>3, LocalStepCore DEF LiveFacts

\* An event is handed to the browser.
LEMMA PollCore ==
  ASSUME Core, NEW r \in Runs, Poll(r)
  PROVE  Core'
<1>1. LiveFacts(r)
  BY ContextOfLive, ConstantsAssumption
  DEF LiveFacts, Core, RunOK, TasksOK, Live, AtYield, AtAwait, Poll
<1>2. Types'
  BY <1>1, ConstantsAssumption
  DEF LiveFacts, Types, RunOK, Live, AtYield, AtAwait, Ways, Tasks, Poll, Driven, To, registries
<1>3. LocalStep(r)
  BY <1>1, ConstantsAssumption
  DEF LiveFacts, LocalStep, Types, RunOK, Live, AtYield, AtAwait, Tasks, Bound, Poll, Driven,
      To, registries
<1>4. QED
  BY <1>1, <1>2, <1>3, LocalStepCore DEF LiveFacts

\* The browser's event was sent.
LEMMA EventSentCore ==
  ASSUME Core, NEW r \in Runs, EventSent(r)
  PROVE  Core'
<1>1. LiveFacts(r)
  BY ContextOfLive, ConstantsAssumption
  DEF LiveFacts, Core, RunOK, TasksOK, Live, AtYield, AtAwait, EventSent
<1>2. Types'
  BY <1>1, ConstantsAssumption
  DEF LiveFacts, Types, RunOK, Live, AtYield, AtAwait, Ways, Tasks, EventSent, Driven, To,
      registries
<1>3. LocalStep(r)
  BY <1>1, ConstantsAssumption
  DEF LiveFacts, LocalStep, Types, RunOK, Live, AtYield, AtAwait, Tasks, Bound, EventSent,
      Driven, To, registries
<1>4. QED
  BY <1>1, <1>2, <1>3, LocalStepCore DEF LiveFacts

\* The engine ends by itself.
LEMMA EngineEndsCore ==
  ASSUME Core, NEW r \in Runs, EngineEnds(r)
  PROVE  Core'
<1>1. LiveFacts(r)
  BY ContextOfLive, ConstantsAssumption
  DEF LiveFacts, Core, RunOK, TasksOK, Live, AtYield, AtAwait, EngineEnds
<1>2. Types'
  BY <1>1, ConstantsAssumption
  DEF LiveFacts, Types, RunOK, Live, AtYield, AtAwait, Ways, Tasks, EngineEnds, registries
<1>3. LocalStep(r)
  BY <1>1, ConstantsAssumption
  DEF LiveFacts, LocalStep, Types, RunOK, Live, AtYield, AtAwait, Tasks, Bound, EngineEnds,
      registries
<1>4. QED
  BY <1>1, <1>2, <1>3, LocalStepCore DEF LiveFacts

\* The engine is cancelled and joined inside the block of its context.
LEMMA StreamOverCore ==
  ASSUME Core, NEW r \in Runs, StreamOver(r)
  PROVE  Core'
<1>1. LiveFacts(r)
  BY ContextOfLive, ConstantsAssumption
  DEF LiveFacts, Core, RunOK, TasksOK, Live, AtYield, AtAwait, StreamOver
<1>2. Types'
  BY <1>1, ConstantsAssumption
  DEF LiveFacts, Types, RunOK, Live, AtYield, AtAwait, Ways, Tasks, StreamOver, Driven, To,
      Leaving, CancelEngine, registries
<1>3. LocalStep(r)
  BY <1>1, ConstantsAssumption
  DEF LiveFacts, LocalStep, Types, RunOK, Live, AtYield, AtAwait, Tasks, Bound, StreamOver,
      Driven, To, Leaving, CancelEngine, registries
<1>4. QED
  BY <1>1, <1>2, <1>3, LocalStepCore DEF LiveFacts

\* The context goes when the engine is over, and no earlier.
LEMMA JoinedCore ==
  ASSUME Core, NEW r \in Runs, Joined(r)
  PROVE  Core'
<1>1. LiveFacts(r)
  BY ContextOfLive, ConstantsAssumption
  DEF LiveFacts, Core, RunOK, TasksOK, Live, AtYield, AtAwait, Joined
<1>2. Types'
  BY <1>1, ConstantsAssumption
  DEF LiveFacts, Types, RunOK, Live, AtYield, AtAwait, Ways, Tasks, Joined, Driven, EngineOver,
      To, Unbind, Finalize, Registered, registries
<1>3. LocalStep(r)
  BY <1>1, ConstantsAssumption
  DEF LiveFacts, LocalStep, Types, RunOK, Live, AtYield, AtAwait, Tasks, Bound, Joined, Driven,
      EngineOver, To, Unbind, Finalize, Registered, registries
<1>4. QED
  BY <1>1, <1>2, <1>3, LocalStepCore DEF LiveFacts

\* The finalizer after the last event.
LEMMA LastSentCore ==
  ASSUME Core, NEW r \in Runs, LastSent(r)
  PROVE  Core'
<1>1. LiveFacts(r)
  BY ContextOfLive, ConstantsAssumption
  DEF LiveFacts, Core, RunOK, TasksOK, Live, AtYield, AtAwait, LastSent
<1>2. Types'
  BY <1>1, ConstantsAssumption
  DEF LiveFacts, Types, RunOK, Live, AtYield, AtAwait, Ways, Tasks, LastSent, Driven, To,
      Finalize, Registered, registries
<1>3. LocalStep(r)
  BY <1>1, ConstantsAssumption
  DEF LiveFacts, LocalStep, Types, RunOK, Live, AtYield, AtAwait, Tasks, Bound, LastSent,
      Driven, To, Finalize, Registered, registries
<1>4. QED
  BY <1>1, <1>2, <1>3, LocalStepCore DEF LiveFacts

\* A cancellation that is only requested changes nothing.
LEMMA DisconnectCore ==
  ASSUME Core, NEW r \in Runs, Disconnect(r)
  PROVE  Core'
<1>1. LiveFacts(r)
  BY ContextOfLive, ConstantsAssumption
  DEF LiveFacts, Core, RunOK, TasksOK, Live, AtYield, AtAwait, Disconnect, Unshielded
<1>2. Types'
  BY <1>1, ConstantsAssumption
  DEF LiveFacts, Types, RunOK, Live, AtYield, AtAwait, Ways, Tasks, Disconnect, Driven,
      Unshielded, registries
<1>3. LocalStep(r)
  BY <1>1, ConstantsAssumption
  DEF LiveFacts, LocalStep, Types, RunOK, Live, AtYield, AtAwait, Tasks, Bound, Disconnect,
      Driven, Unshielded, registries
<1>4. QED
  BY <1>1, <1>2, <1>3, LocalStepCore DEF LiveFacts

\* Nor does one that is handed on.
LEMMA HandOnCore ==
  ASSUME Core, NEW r \in Runs, HandOn(r)
  PROVE  Core'
<1>1. LiveFacts(r)
  BY ContextOfLive, ConstantsAssumption
  DEF LiveFacts, Core, RunOK, TasksOK, Live, AtYield, AtAwait, HandOn, Unshielded
<1>2. Types'
  BY <1>1, ConstantsAssumption
  DEF LiveFacts, Types, RunOK, Live, AtYield, AtAwait, Ways, Tasks, HandOn, Unshielded,
      registries
<1>3. LocalStep(r)
  BY <1>1, ConstantsAssumption
  DEF LiveFacts, LocalStep, Types, RunOK, Live, AtYield, AtAwait, Tasks, Bound, HandOn,
      Unshielded, registries
<1>4. QED
  BY <1>1, <1>2, <1>3, LocalStepCore DEF LiveFacts

\* A cancellation leaves by the finalizer, joins the engine, or abandons the run.
LEMMA CancelledCore ==
  ASSUME Core, NEW r \in Runs, Cancelled(r)
  PROVE  Core'
<1>1. LiveFacts(r)
  BY ContextOfLive, ConstantsAssumption
  DEF LiveFacts, Core, RunOK, TasksOK, Live, AtYield, AtAwait, Cancelled, Abandon, LeaveStream
<1>2. Types'
  BY <1>1, ConstantsAssumption
  DEF LiveFacts, Types, RunOK, Live, AtYield, AtAwait, Ways, Tasks, Cancelled, Abandon, To,
      Leaving, Finalize, Registered, Unbind, LeaveStream, CancelEngine, registries
<1>3. LocalStep(r)
  BY <1>1, ConstantsAssumption
  DEF LiveFacts, LocalStep, Types, RunOK, Live, AtYield, AtAwait, Tasks, Bound, Cancelled,
      Abandon, To, Leaving, Finalize, Registered, Unbind, LeaveStream, CancelEngine, registries
<1>4. QED
  BY <1>1, <1>2, <1>3, LocalStepCore DEF LiveFacts

\* So does the run's timeout, which ends in RUN_ERROR or abandons the run.
LEMMA TimeoutCore ==
  ASSUME Core, NEW r \in Runs, Timeout(r)
  PROVE  Core'
<1>1. LiveFacts(r)
  BY ContextOfLive, ConstantsAssumption
  DEF LiveFacts, Core, RunOK, TasksOK, Live, AtYield, AtAwait, Timeout, Timed
<1>2. Types'
  BY <1>1, ConstantsAssumption
  DEF LiveFacts, Types, RunOK, Live, AtYield, AtAwait, Ways, Tasks, Timeout, Timed, Driven,
      Abandon, To, Fail, Leaving, Unbind, LeaveStream, CancelEngine, registries
<1>3. LocalStep(r)
  BY <1>1, ConstantsAssumption
  DEF LiveFacts, LocalStep, Types, RunOK, Live, AtYield, AtAwait, Tasks, Bound, Timeout, Timed,
      Driven, Abandon, To, Fail, Leaving, Unbind, LeaveStream, CancelEngine, registries
<1>4. QED
  BY <1>1, <1>2, <1>3, LocalStepCore DEF LiveFacts

\* The collector closes an abandoned run.
LEMMA CollectCore ==
  ASSUME Core, NEW r \in Runs, Collect(r)
  PROVE  Core'
<1>1. LiveFacts(r)
  BY ContextOfLive, ConstantsAssumption
  DEF LiveFacts, Core, RunOK, TasksOK, Live, AtYield, AtAwait, Collect
<1>2. Types'
  BY <1>1, ConstantsAssumption
  DEF LiveFacts, Types, RunOK, Live, AtYield, AtAwait, Ways, Tasks, Collect, To, Leaving,
      Finalize, Registered, CancelEngine, registries
<1>3. LocalStep(r)
  BY <1>1, ConstantsAssumption
  DEF LiveFacts, LocalStep, Types, RunOK, Live, AtYield, AtAwait, Tasks, Bound, Collect, To,
      Leaving, Finalize, Registered, CancelEngine, registries
<1>4. QED
  BY <1>1, <1>2, <1>3, LocalStepCore DEF LiveFacts

\* close() touches no run.
LEMMA CloseCore ==
  ASSUME Core, CloseBegin \/ CloseEnd
  PROVE  Core'
<1>1. UNCHANGED <<pc, way, driver, engine, registries, contexts>>
  BY DEF CloseBegin, CloseEnd
<1>2. Types'
  <2>1. CASE CloseBegin
    BY <1>1, <2>1 DEF Core, Types, CloseBegin, Tasks, registries
  <2>2. CASE CloseEnd
    BY <1>1, <2>2 DEF Core, Types, CloseEnd, registries
  <2>3. QED
    BY <2>1, <2>2
<1>3. /\ (\A r \in Runs : RunOK(r)') /\ ContextsOK' /\ TasksOK'
      /\ RegistriesAgree' /\ EngineHasItsContext'
  BY <1>1 DEF Core, RunOK, ContextsOK, TasksOK, RegistriesAgree, EngineHasItsContext, LiveRuns,
     Registered, registries
<1>4. QED
  BY <1>2, <1>3 DEF Core

\* A registered task per live run and a thread per live run: _tasks does not
\* outgrow _reserved.
LEMMA TasksBound ==
  ASSUME Core
  PROVE  Cardinality(tasks) <= Cardinality(reserved)
<1> DEFINE run(t) == CHOOSE r \in LiveRuns : ThreadOf[r] = t
           f == [t \in reserved |-> Registered(run(t))]
<1>1. \A r \in LiveRuns : ThreadOf[r] \in reserved /\ run(ThreadOf[r]) = r
  BY DEF Core, RegistriesAgree
<1>2. \A t \in reserved : run(t) \in LiveRuns
  BY DEF Core, RegistriesAgree
<1>3. f \in [reserved -> tasks]
  BY <1>2 DEF Core, RegistriesAgree
<1>4. \A x \in tasks : \E t \in reserved : f[t] = x
  <2>1. SUFFICES ASSUME NEW x \in tasks PROVE \E t \in reserved : f[t] = x
    OBVIOUS
  <2>2. PICK r \in Runs, k \in Tasks : x = <<r, k>>
    BY DEF Core, Types
  <2>3. r \in LiveRuns /\ x = Registered(r)
    BY <2>2 DEF Core, TasksOK, LiveRuns, Registered, Tasks
  <2>4. QED
    BY <1>1, <2>3
<1>5. f \in Surjection(reserved, tasks)
  BY <1>3, <1>4 DEF Surjection
<1>6. IsFiniteSet(reserved)
  BY FS_Subset, ConstantsAssumption DEF Core, Types
<1>7. QED
  BY <1>5, <1>6, FS_Surjection

\* Once close() has begun no task takes up a run.
LEMMA NoNewDriver ==
  ASSUME Core, NEW r \in Runs, RunStep(r) \/ LoopStep(r) \/ PeerStep(r)
  PROVE  /\ UNCHANGED <<closing, awaited>>
         /\ closing # "no" => \A s \in Runs : driver'[s] \in Tasks => driver[s] \in Tasks
<1>1. CASE RunStep(r)
  BY <1>1 DEF Core, Types, RunStep, Begin, Prepare, Sync, SnapshotSent, Send, Poll, EventSent,
     EngineEnds, StreamOver, Disconnect
<1>2. CASE LoopStep(r)
  BY <1>2 DEF Core, Types, LoopStep, StartBody, HandOn, Cancelled, Timeout, Joined, Collect,
     Abandon, Finalize, LeaveStream, Driven, Tasks
<1>3. CASE PeerStep(r)
  BY <1>3 DEF Core, Types, PeerStep, Resume, LastSent, Finalize, Tasks
<1>4. QED
  BY <1>1, <1>2, <1>3

\* close() awaits a task of every run that is driven when it begins.
LEMMA ClosingKept ==
  ASSUME Core, ClosingOK, Next
  PROVE  ClosingOK'
<1>1. ASSUME NEW r \in Runs, RunStep(r) \/ LoopStep(r) \/ PeerStep(r)
      PROVE  ClosingOK'
  <2>1. /\ UNCHANGED <<closing, awaited>>
        /\ closing # "no" => \A s \in Runs : driver'[s] \in Tasks => driver[s] \in Tasks
    BY <1>1, NoNewDriver
  <2>2. \A x \in awaited : x[1] \in Runs
    BY DEF Core, Types
  <2>3. QED
    BY <2>1, <2>2 DEF ClosingOK, TaskOver
<1>2. CASE CloseBegin
  <2>1. \A r \in Runs : driver[r] \in Tasks => r \in LiveRuns
    BY DEF Core, RunOK, ContextsOK, LiveRuns, Tasks
  <2>2. \A r \in LiveRuns : \E k \in Tasks : <<r, k>> \in tasks
    BY DEF Core, RegistriesAgree, Registered, Tasks
  <2>3. QED
    BY <1>2, <2>1, <2>2 DEF CloseBegin, ClosingOK
<1>3. CASE CloseEnd
  BY <1>3 DEF CloseEnd, ClosingOK, TaskOver
<1>4. CASE Terminated
  BY <1>4 DEF Terminated, vars, ClosingOK, TaskOver
<1>5. QED
  BY <1>1, <1>2, <1>3, <1>4 DEF Next

\* Then what lives after close() is abandoned.
LEMMA AbandonedAfterClose ==
  ASSUME Types, ClosingOK
  PROVE  CloseLeavesOnlyAbandoned
BY DEF Types, ClosingOK, CloseLeavesOnlyAbandoned, TaskOver, LiveRuns, Tasks

\* What IndInv adds to Core follows from it.
LEMMA IndInvFromCore == Core /\ ClosingOK <=> IndInv
<1>1. Core => (Types /\ Cardinality(tasks) <= Cardinality(reserved))
  BY TasksBound DEF Core
<1>2. TypeOK <=> (Types /\ Cardinality(tasks) <= Cardinality(reserved))
  BY DEF TypeOK, Types
<1>3. QED
  BY <1>1, <1>2, AbandonedAfterClose DEF IndInv, Core

\* Initially no run lives.
LEMMA InitCore == Init => Core /\ ClosingOK
BY ConstantsAssumption
DEF Init, Core, Types, RunOK, ContextsOK, TasksOK, RegistriesAgree, EngineHasItsContext,
    ClosingOK, LiveRuns, Live, AtYield, AtAwait, Bound, Ways, Tasks, Registered

\* Every step keeps the core of the inductive invariant.
LEMMA StepCore ==
  ASSUME Core, Next
  PROVE  Core'
<1>1. ASSUME NEW r \in Runs, RunStep(r) PROVE Core'
  BY <1>1, BeginCore, PrepareCore, SyncCore, SnapshotSentCore, SendCore, PollCore,
     EventSentCore, EngineEndsCore, StreamOverCore, DisconnectCore DEF RunStep
<1>2. ASSUME NEW r \in Runs, LoopStep(r) PROVE Core'
  BY <1>2, StartBodyCore, HandOnCore, CancelledCore, TimeoutCore, JoinedCore, CollectCore
  DEF LoopStep
<1>3. ASSUME NEW r \in Runs, PeerStep(r) PROVE Core'
  BY <1>3, ResumeCore, LastSentCore DEF PeerStep
<1>4. CASE Terminated
  BY <1>4
  DEF Terminated, vars, registries, Core, Types, RunOK, ContextsOK, TasksOK, RegistriesAgree,
      EngineHasItsContext, LiveRuns, Registered
<1>5. QED
  BY <1>1, <1>2, <1>3, <1>4, CloseCore DEF Next

\* IndInv, and with it each of the invariants below, holds in every state.
THEOREM InductiveInvariant == Spec => []IndInv
<1>1. Init => IndInv
  BY InitCore, IndInvFromCore
<1>2. IndInv /\ [Next]_vars => IndInv'
  <2>1. SUFFICES ASSUME IndInv, [Next]_vars PROVE (Core /\ ClosingOK)'
    BY IndInvFromCore, PTL
  <2>2. Core /\ ClosingOK
    BY <2>1, IndInvFromCore
  <2>3. CASE Next
    BY <2>2, <2>3, StepCore, ClosingKept
  <2>4. CASE UNCHANGED vars
    <3>1. Core'
      BY <2>2, <2>4
      DEF vars, registries, Core, Types, RunOK, ContextsOK, TasksOK, RegistriesAgree,
          EngineHasItsContext, LiveRuns, Registered
    <3>2. ClosingOK'
      BY <2>2, <2>4 DEF vars, ClosingOK, TaskOver
    <3>3. QED
      BY <3>1, <3>2
  <2>5. QED
    BY <2>1, <2>3, <2>4
<1>3. QED
  BY <1>1, <1>2, PTL DEF Spec

\* All variables keep their types, and _tasks does not outgrow _reserved.
THEOREM TypeCorrect == Spec => []TypeOK
<1>1. IndInv => TypeOK
  BY DEF IndInv
<1>2. QED
  BY <1>1, InductiveInvariant, PTL

\* A thread is reserved exactly while its one run lives, the active run of a
\* thread is that run, and every live run is registered for close().
THEOREM RegistriesTellTheTruth == Spec => []RegistriesAgree
<1>1. IndInv => RegistriesAgree
  BY DEF IndInv
<1>2. QED
  BY <1>1, InductiveInvariant, PTL

\* A living engine finds the context of its own run, and only that.
THEOREM ContextsAreUnambiguous == Spec => []EngineHasItsContext
<1>1. IndInv => EngineHasItsContext
  BY DEF IndInv
<1>2. QED
  BY <1>1, InductiveInvariant, PTL

\* When close() has returned, no task of a request or a response drives a run.
THEOREM CloseStopsDrivers == Spec => []CloseLeavesOnlyAbandoned
<1>1. IndInv => CloseLeavesOnlyAbandoned
  BY DEF IndInv
<1>2. QED
  BY <1>1, InductiveInvariant, PTL

=============================================================================
