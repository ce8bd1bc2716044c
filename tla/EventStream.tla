---------------------------- MODULE EventStream -----------------------------
(***************************************************************************)
(* AguiEventStream.stream_run with ParlantToAguiEventAdapter, between the  *)
(* agent engine, which writes a Parlant session, and the browser: a        *)
(* producer task polls the session and maps its events, a bounded queue    *)
(* carries them, the run's generator yields them, and its finally block    *)
(* cancels and joins what is left.  The end of AguiRunRunner._run is part  *)
(* of it: it decides which terminal event the browser gets.                *)
(*                                                                         *)
(* A session event is identified by its offset.  The text of a message is  *)
(* the number of its chunks and whether they were rewritten.  The queue is *)
(* shared with FrontendToolDispatcher, whose events matter here only in    *)
(* that they fill it.  One action maps or puts one event; the code does    *)
(* several in a row when it need not wait.                                 *)
(***************************************************************************)
EXTENDS Naturals, Sequences, FiniteSets

CONSTANTS MaxEvents,   \* bound: session events of one run
          MaxChunks,   \* bound: chunks of one message
          QueueCap,    \* maxsize of the queue
          Statuses,    \* the status events the engine may write
          MayRewrite,  \* may the SDK rewrite text that was already streamed?
          None         \* end of stream, and no step

ASSUME ConstantsAssumption ==
  /\ MaxEvents \in Nat \ {0} /\ MaxChunks \in Nat \ {0} /\ QueueCap \in Nat \ {0}
  /\ Statuses \subseteq {"processing", "typing", "ready", "error"}
  /\ MayRewrite \in BOOLEAN
  /\ None \notin {"processing", "typing"}

VARIABLES
  store,      \* the session's events, by offset
  engine,     \* the processing task
  producer,   \* "check", "listing", "mapping", "finishing", "closing", or how it ended
  completed,  \* produce(): engine.done() as read before the poll
  batch,      \* records of the poll that are still to be mapped, by offset
  outbox,     \* mapped events that are still to be put
  failing,    \* produce() leaves with an exception
  offset,     \* AguiEventStream.offset
  open,       \* open_offsets: messages to poll again
  text,       \* adapter._text: the text mapped so far, by message
  ended,      \* adapter._ended
  step,       \* adapter._step
  failed,     \* adapter.failed
  queue,      \* AguiEventStream.queue
  consumer,   \* "reading", "joining", "cleanup", "over"
  cause,      \* why the consumer left the loop
  timedOut,   \* the run's timeout has fired
  cancels,    \* how often the engine task was cancelled
  wire,       \* messages as the browser has them: text and whether ended
  shown,      \* the step the browser shows
  terminal    \* terminal events the browser got

engineVars == <<store, engine, cancels>>
pollVars == <<producer, completed, batch, outbox, failing>>
adapterVars == <<offset, open, text, ended, step, failed>>
consumerVars == <<consumer, cause, timedOut>>
wireVars == <<wire, shown, terminal>>
vars == <<engineVars, pollVars, adapterVars, queue, consumerVars, wireVars>>

Offsets == 1..MaxEvents
Message(n, c) == [kind |-> "message", chunks |-> n, closed |-> c, rewritten |-> FALSE]
Status(s) == [kind |-> "status", status |-> s]
Text(n, rw) == [chunks |-> n, rewritten |-> rw]
Texts == [chunks : 0..MaxChunks, rewritten : BOOLEAN]
NoText == Text(0, FALSE)
TextOf(r) == Text(r.chunks, r.rewritten)
IsMessage(m) == m <= Len(store) /\ store[m].kind = "message"

\* What the adapter makes of the records.
Steps == {"processing", "typing"}
Events == [type : {"START", "END"}, id : Offsets]
            \cup [type : {"CONTENT"}, id : Offsets, text : Texts]
            \cup [type : {"STEP_STARTED", "STEP_FINISHED"}, step : Steps]
            \cup [type : {"RUN_ERROR"}]

ASSUME NoneIsNoEvent == None \notin Events

EngineOver == {"done", "raised", "cancelled"}
ProducerOver == {"done", "raised", "cancelled"}

Init ==
  /\ store = <<>> /\ engine = "running" /\ cancels = 0
  /\ producer = "check" /\ completed = FALSE /\ batch = <<>> /\ outbox = <<>>
  /\ failing = FALSE
  /\ offset = 1 /\ open = {} /\ ended = {} /\ step = None /\ failed = FALSE
  /\ text = <<>>
  /\ queue = <<>>
  /\ consumer = "reading" /\ cause = "none" /\ timedOut = FALSE
  /\ wire = <<>> /\ shown = None /\ terminal = <<>>

-----------------------------------------------------------------------------
(* The engine: writes the session while it runs.                           *)

EngineAppend(e) ==
  /\ engine = "running" /\ Len(store) < MaxEvents
  /\ store' = Append(store, e)
  /\ UNCHANGED <<engine, cancels, pollVars, adapterVars, queue, consumerVars, wireVars>>

EngineStream(m) ==
  /\ engine = "running" /\ IsMessage(m) /\ ~store[m].closed
  /\ \/ store[m].chunks < MaxChunks /\ store' = [store EXCEPT ![m].chunks = @ + 1]
     \/ store' = [store EXCEPT ![m].closed = TRUE]
     \/ /\ MayRewrite /\ store[m].chunks > 0 /\ ~store[m].rewritten
        /\ store' = [store EXCEPT ![m].rewritten = TRUE]
  /\ UNCHANGED <<engine, cancels, pollVars, adapterVars, queue, consumerVars, wireVars>>

\* process() returns or raises; a cancelled engine ends after its finalizers.
EngineEnd ==
  /\ engine' \in CASE engine = "running" -> {"done", "raised"}
                   [] engine = "cancelling" -> {"cancelled"}
                   [] OTHER -> {}
  /\ UNCHANGED <<store, cancels, pollVars, adapterVars, queue, consumerVars, wireVars>>

-----------------------------------------------------------------------------
(* The producer.                                                           *)

ReadCompleted ==
  /\ producer = "check"
  /\ completed' = (engine \in EngineOver)
  /\ producer' = "listing"
  /\ UNCHANGED <<engineVars, batch, outbox, failing, adapterVars, queue, consumerVars, wireVars>>

\* The session as the list call found it, from the oldest open message on.
ToMap(m) == m >= offset \/ m \in open

ListReturns ==
  /\ producer = "listing"
  /\ batch' = [m \in {m \in 1..Len(store) : ToMap(m)} |-> store[m]]
  /\ producer' = "mapping"
  /\ UNCHANGED <<engineVars, completed, outbox, failing, adapterVars, queue, consumerVars, wireVars>>

ListRaises ==
  /\ producer = "listing"
  /\ producer' = "closing" /\ failing' = TRUE
  /\ UNCHANGED <<engineVars, completed, batch, outbox, adapterVars, queue, consumerVars, wireVars>>

FinishSteps == IF step = None THEN <<>> ELSE <<[type |-> "STEP_FINISHED", step |-> step]>>

\* map_message_event, for a message that has not ended yet.
TextEvents(m, r) ==
  LET started == m \in DOMAIN text
      had == IF started THEN text[m] ELSE NoText
  IN (IF started THEN <<>> ELSE <<[type |-> "START", id |-> m]>>)
     \o (IF r.chunks > had.chunks
         THEN <<[type |-> "CONTENT", id |-> m, text |-> TextOf(r)]>> ELSE <<>>)
     \o (IF r.closed THEN <<[type |-> "END", id |-> m]>> ELSE <<>>)

\* Slip: only the length is compared.
Shorter(m, r) == m \in DOMAIN text /\ r.chunks < text[m].chunks

\* The text does not start with what was mapped before.
NotAppendOnly(m, r) ==
  /\ m \in DOMAIN text /\ text[m].chunks > 0
  /\ r.chunks < text[m].chunks \/ r.rewritten # text[m].rewritten

MapMessage(m, r) ==
  /\ r.kind = "message"
  /\ open' = IF r.closed THEN open \ {m} ELSE open \cup {m}
  /\ IF m \in ended
     THEN UNCHANGED <<outbox, text, ended, producer, failing>>
     ELSE IF NotAppendOnly(m, r)
     THEN /\ producer' = "closing" /\ failing' = TRUE
          /\ UNCHANGED <<outbox, text, ended>>
     ELSE /\ outbox' = TextEvents(m, r)
          /\ text' = [k \in DOMAIN text \cup {m} |-> IF k = m THEN TextOf(r) ELSE text[k]]
          /\ ended' = IF r.closed THEN ended \cup {m} ELSE ended
          /\ UNCHANGED <<producer, failing>>
  /\ UNCHANGED <<step, failed>>

StatusSequence(s) == FinishSteps \o <<[type |-> "STEP_STARTED", step |-> s]>>

MapStatus(r) ==
  /\ r.kind = "status"
  /\ CASE r.status = "error" ->
            /\ failed' = TRUE /\ step' = None
            /\ outbox' = FinishSteps \o <<[type |-> "RUN_ERROR"]>>
       [] r.status \in Steps \ {step} ->
            /\ step' = r.status
            /\ outbox' = StatusSequence(r.status)
            /\ UNCHANGED failed
       [] r.status = "ready" ->
            step' = None /\ outbox' = FinishSteps /\ UNCHANGED failed
       [] OTHER -> UNCHANGED <<step, outbox, failed>>
  /\ UNCHANGED <<open, text, ended, producer, failing>>

\* The records are mapped by increasing offset.
MapNext ==
  /\ producer = "mapping" /\ outbox = <<>> /\ ~failed
  /\ \E m \in DOMAIN batch :
        /\ \A k \in DOMAIN batch : m <= k
        /\ offset' = IF m + 1 > offset THEN m + 1 ELSE offset
        /\ batch' = [k \in DOMAIN batch \ {m} |-> batch[k]]
        /\ MapMessage(m, batch[m]) \/ MapStatus(batch[m])
  /\ UNCHANGED <<engineVars, completed, queue, consumerVars, wireVars>>

HasRoom == Len(queue) < QueueCap

Put ==
  /\ producer \in {"mapping", "finishing"} /\ outbox # <<>>
  /\ HasRoom
  /\ queue' = Append(queue, Head(outbox))
  /\ outbox' = Tail(outbox)
  /\ UNCHANGED <<engineVars, producer, completed, batch, failing, adapterVars, consumerVars, wireVars>>

IncompleteMessages == DOMAIN text \ ended

\* Slip: whether the engine is done is asked only after the poll.
DoneNow == engine \in EngineOver

DoneBeforePoll == completed

\* The poll is over: stop on a failure the agent reported; after the engine
\* is done take its exception, insist on complete messages and close the
\* step; otherwise sleep and poll again.
PollEnd ==
  /\ producer = "mapping" /\ outbox = <<>> /\ (DOMAIN batch = {} \/ failed)
  /\ batch' = <<>>
  /\ IF failed
     THEN producer' = "closing" /\ UNCHANGED <<failing, outbox, step>>
     ELSE IF ~DoneBeforePoll
     THEN producer' = "check" /\ UNCHANGED <<failing, outbox, step>>
     ELSE IF engine # "done" \/ IncompleteMessages # {}
     THEN producer' = "closing" /\ failing' = TRUE /\ UNCHANGED <<outbox, step>>
     ELSE /\ producer' = "finishing"
          /\ outbox' = FinishSteps /\ step' = None
          /\ UNCHANGED failing
  /\ UNCHANGED <<engineVars, completed, offset, open, text, ended, failed, queue, consumerVars, wireVars>>

FinishingEnd ==
  /\ producer = "finishing" /\ outbox = <<>>
  /\ producer' = "closing"
  /\ UNCHANGED <<engineVars, completed, batch, outbox, failing, adapterVars, queue, consumerVars, wireVars>>

\* The finally block of produce(): the end of the stream is announced.
PutNone ==
  /\ producer = "closing" /\ HasRoom
  /\ queue' = Append(queue, None)
  /\ producer' = IF failing THEN "raised" ELSE "done"
  /\ UNCHANGED <<engineVars, completed, batch, outbox, failing, adapterVars, consumerVars, wireVars>>

-----------------------------------------------------------------------------
(* The generator and the end of the run.                                   *)

Show(e) ==
  CASE e.type = "START" ->
         /\ wire' = [m \in DOMAIN wire \cup {e.id} |->
                       IF m = e.id THEN [text |-> NoText, ended |-> FALSE] ELSE wire[m]]
         /\ UNCHANGED <<shown, terminal>>
    [] e.type = "CONTENT" ->
         wire' = [wire EXCEPT ![e.id].text = e.text] /\ UNCHANGED <<shown, terminal>>
    [] e.type = "END" ->
         wire' = [wire EXCEPT ![e.id].ended = TRUE] /\ UNCHANGED <<shown, terminal>>
    [] e.type = "STEP_STARTED" -> shown' = e.step /\ UNCHANGED <<wire, terminal>>
    [] e.type = "STEP_FINISHED" -> shown' = None /\ UNCHANGED <<wire, terminal>>
    [] e.type = "RUN_ERROR" ->
         terminal' = Append(terminal, "error") /\ UNCHANGED <<wire, shown>>

Read ==
  /\ consumer = "reading" /\ queue # <<>>
  /\ queue' = Tail(queue)
  /\ IF Head(queue) = None
     THEN consumer' = "joining" /\ UNCHANGED wireVars
     ELSE Show(Head(queue)) /\ UNCHANGED consumer
  /\ UNCHANGED <<engineVars, pollVars, adapterVars, cause, timedOut>>

\* Slip: only the producer is cancelled.
CancelProducerOnly ==
  /\ producer' = IF producer \in ProducerOver THEN producer ELSE "cancelled"
  /\ UNCHANGED <<engine, cancels>>

\* The finally block of stream_run cancels both tasks that still run.
CancelTasks ==
  /\ producer' = IF producer \in ProducerOver THEN producer ELSE "cancelled"
  /\ IF engine = "running"
     THEN engine' = "cancelling" /\ cancels' = cancels + 1
     ELSE UNCHANGED <<engine, cancels>>

Leave(c) ==
  /\ consumer' = "cleanup" /\ cause' = c
  /\ CancelTasks
  /\ UNCHANGED <<store, completed, batch, outbox, failing, adapterVars, queue, wireVars>>

Join ==
  /\ consumer = "joining" /\ producer \in ProducerOver
  /\ Leave(IF producer = "done" THEN "ok" ELSE "error")
  /\ UNCHANGED timedOut

\* asyncio.timeout(run_timeout) cancels the task that reads the stream.
RunTimeout ==
  /\ consumer \in {"reading", "joining"} /\ ~timedOut
  /\ timedOut' = TRUE
  /\ Leave("timeout")

\* The client goes away, or the runner is closed.
RunCancelled ==
  /\ consumer \in {"reading", "joining"}
  /\ Leave("cancelled")
  /\ UNCHANGED timedOut

\* The timeout fires while the finally block joins the tasks: the shield
\* holds back the scopes of AnyIO, not the native cancel of asyncio.timeout,
\* and the interrupted gather cancels the engine once more.
TimeoutInCleanup ==
  /\ consumer = "cleanup" /\ ~timedOut
  /\ engine \notin EngineOver
  /\ timedOut' = TRUE
  /\ cause' = IF cause = "cancelled" THEN cause ELSE "timeout"
  /\ cancels' = cancels + 1
  /\ UNCHANGED <<store, engine, pollVars, adapterVars, queue, consumer, wireVars>>

\* Slip: a run the agent reported as failed is finished like any other.
AlwaysFinished == <<"finished">>

FinishedUnlessFailed == IF failed THEN <<>> ELSE <<"finished">>

\* Both tasks are joined; the run ends with the event its cause calls for.
Finish ==
  /\ consumer = "cleanup"
  /\ engine \in EngineOver /\ producer \in ProducerOver
  /\ consumer' = "over"
  /\ terminal' = terminal \o (CASE cause = "ok" -> FinishedUnlessFailed
                                [] cause \in {"error", "timeout"} -> <<"error">>
                                [] cause = "cancelled" -> <<>>)
  /\ UNCHANGED <<engineVars, pollVars, adapterVars, queue, cause, timedOut, wire, shown>>

Terminated == consumer = "over" /\ UNCHANGED vars

ProducerStep == \/ ReadCompleted \/ ListReturns \/ MapNext \/ Put \/ PollEnd
                \/ FinishingEnd \/ PutNone

EngineWrites == \/ \E n \in 0..1 : EngineAppend(Message(n, FALSE))
                \/ EngineAppend(Message(1, TRUE))
                \/ \E s \in Statuses : EngineAppend(Status(s))
                \/ \E m \in Offsets : EngineStream(m)

Next == \/ EngineWrites \/ EngineEnd
        \/ ProducerStep \/ ListRaises
        \/ Read \/ Join \/ RunTimeout \/ RunCancelled \/ TimeoutInCleanup \/ Finish
        \/ Terminated

\* The event loop runs every ready task, time passes, and a cancelled engine
\* gets through its finalizers.  Nothing is assumed of the browser, and a
\* running engine may run for ever.
Fairness == /\ WF_vars(ProducerStep) /\ WF_vars(Join) /\ WF_vars(Finish)
            /\ WF_vars(RunTimeout)
            /\ WF_vars(engine = "cancelling" /\ EngineEnd)

Spec == Init /\ [][Next]_vars
FairSpec == Spec /\ Fairness

-----------------------------------------------------------------------------
(* Properties.                                                             *)

\* Every variable has its type; the queue never exceeds its bound.
TypeOK ==
  /\ Len(store) <= MaxEvents /\ Len(queue) <= QueueCap
  /\ engine \in EngineOver \cup {"running", "cancelling"}
  /\ producer \in ProducerOver \cup {"check", "listing", "mapping", "finishing", "closing"}
  /\ completed \in BOOLEAN /\ failing \in BOOLEAN /\ failed \in BOOLEAN /\ timedOut \in BOOLEAN
  /\ offset \in 1..(MaxEvents + 1) /\ open \subseteq Offsets /\ ended \subseteq Offsets
  /\ text \in UNION {[S -> Texts] : S \in SUBSET Offsets}
  /\ step \in Steps \cup {None} /\ shown \in Steps \cup {None}
  /\ consumer \in {"reading", "joining", "cleanup", "over"}
  /\ cause \in {"none", "ok", "error", "timeout", "cancelled"}
  /\ cancels \in 0..2
  /\ DOMAIN wire \subseteq Offsets

\* RUN_FINISHED tells the truth: the engine had returned, and the browser has
\* the whole text of every message it wrote, each message ended, no step open.
FinishedMeansDelivered ==
  (\E i \in DOMAIN terminal : terminal[i] = "finished") =>
    /\ engine = "done" /\ shown = None
    /\ \A m \in Offsets : IsMessage(m) =>
         m \in DOMAIN wire /\ wire[m].ended /\ wire[m].text = TextOf(store[m])

\* RUN_FINISHED and RUN_ERROR exclude each other, whatever fails when.
NoFinishAfterError ==
  ~ \E i, j \in DOMAIN terminal : terminal[i] = "finished" /\ terminal[j] # "finished"

\* What the browser has of a message is never taken back or replaced, and
\* nothing is added after its end, however often the message is polled while
\* the SDK streams, rewrites and closes it.
TextAppendOnly ==
  [][\A m \in DOMAIN wire :
       /\ m \in DOMAIN wire'
       /\ wire[m].ended => wire'[m] = wire[m]
       /\ wire'[m].text.chunks >= wire[m].text.chunks
       /\ wire[m].text.chunks > 0 => wire'[m].text.rewritten = wire[m].text.rewritten]_wire

\* The browser shows at most one step at a time: a step starts only when the
\* one before has been finished.
StepsBalanced == [][shown # None => shown' = None]_shown

\* Every run ends, though the browser may stop reading, the queue be full,
\* the session store hang or the engine never return.
EveryRunEnds == <>(consumer = "over")

\* The comment in stream_run: "Shield the join so repeated cancellation cannot
\* interrupt SDK/tool finalizers."
FinalizersUninterrupted == cancels <= 1

=============================================================================
