-------------------------- MODULE EventStreamProofs --------------------------
(***************************************************************************)
(* Theorems about EventStream: what RUN_FINISHED promises, that it and     *)
(* RUN_ERROR exclude each other, and that text and steps reach the browser *)
(* in a form it can show.                                                  *)
(***************************************************************************)
EXTENDS EventStream, SequenceTheorems, TLAPS

-----------------------------------------------------------------------------
(* The inductive invariant.                                                *)

\* The SDK rewrites only text that is there.
Written(t) == t.chunks = 0 => ~t.rewritten

Messages == {r \in [kind : {"message"}, chunks : 0..MaxChunks, closed : BOOLEAN,
                    rewritten : BOOLEAN] : Written(r)}
Records == Messages \cup [kind : {"status"}, status : Statuses]

Types ==
  /\ store \in Seq(Records) /\ Len(store) <= MaxEvents
  /\ engine \in EngineOver \cup {"running", "cancelling"}
  /\ producer \in ProducerOver \cup {"check", "listing", "mapping", "finishing", "closing"}
  /\ completed \in BOOLEAN /\ failing \in BOOLEAN /\ failed \in BOOLEAN /\ timedOut \in BOOLEAN
  /\ batch \in [DOMAIN batch -> Records] /\ DOMAIN batch \subseteq Offsets
  /\ outbox \in Seq(Events)
  /\ offset \in 1..(MaxEvents + 1) /\ open \subseteq Offsets /\ ended \subseteq Offsets
  /\ text \in [DOMAIN text -> Texts] /\ DOMAIN text \subseteq Offsets
  /\ \A m \in DOMAIN text : Written(text[m])
  /\ step \in Steps \cup {None} /\ shown \in Steps \cup {None}
  /\ queue \in Seq(Events \cup {None}) /\ Len(queue) <= QueueCap
  /\ consumer \in {"reading", "joining", "cleanup", "over"}
  /\ cause \in {"none", "ok", "error", "timeout", "cancelled"}
  /\ cancels \in 0..2
  /\ wire \in [DOMAIN wire -> [text : Texts, ended : BOOLEAN]] /\ DOMAIN wire \subseteq Offsets
  /\ terminal \in Seq({"error", "finished"})

\* Which tasks live at each point of the consumer, and where the queue ends.
Control ==
  /\ outbox # <<>> => producer \in {"mapping", "finishing", "cancelled"}
  /\ failing => producer \in {"closing", "raised", "cancelled"}
  /\ failed => producer \notin {"check", "listing", "finishing"}
  /\ \A i \in 1..Len(queue) : queue[i] = None => i = Len(queue) /\ producer \in {"done", "raised"}
  /\ consumer \in {"reading", "joining"} =>
       /\ producer # "cancelled" /\ engine \in {"running", "done", "raised"}
       /\ cause = "none" /\ cancels = 0 /\ ~timedOut
  /\ consumer = "joining" => queue = <<>> /\ outbox = <<>> /\ producer \in {"done", "raised"}
  /\ consumer \in {"cleanup", "over"} =>
       producer \in ProducerOver /\ engine # "running" /\ cause # "none"
  /\ cause = "ok" => queue = <<>> /\ outbox = <<>> /\ producer = "done"
  /\ ~timedOut => cancels <= 1

\* What is mapped is what the session held, and what is not polled again has
\* been mapped to its end.
Session ==
  /\ \A m \in DOMAIN batch :
       /\ m <= Len(store) /\ batch[m].kind = store[m].kind
       /\ batch[m].kind = "message" /\ batch[m].closed => batch[m] = store[m]
  /\ \A m \in ended : /\ IsMessage(m) /\ store[m].closed
                      /\ m \in DOMAIN text /\ text[m] = TextOf(store[m])
  /\ offset <= Len(store) + 1
  /\ ~failing => \A m \in Offsets : IsMessage(m) /\ m < offset => m \in open \cup ended
  /\ producer = "mapping" => \A m \in DOMAIN batch : \A k \in offset..m : k \in DOMAIN batch

\* The poll that began after the engine was done sees all of the session.
LastPoll ==
  /\ completed /\ producer \in {"listing", "mapping"} => engine \in EngineOver
  /\ completed /\ producer = "mapping" =>
       \A m \in Offsets :
         /\ m \in DOMAIN batch => batch[m] = store[m]
         /\ IsMessage(m) =>
              m \in DOMAIN batch \/ (m \in DOMAIN text /\ text[m] = TextOf(store[m]))
  /\ producer = "finishing" \/ (producer \in {"closing", "done"} /\ ~failing /\ ~failed) =>
       /\ engine = "done" /\ step = None
       /\ \A m \in Offsets : IsMessage(m) => m \in ended

\* What the browser is still to be sent: the queue, then what waits for room.
Stream == queue \o outbox

\* The stream is being read, or was read to its end.
Following == consumer \in {"reading", "joining"} \/ cause = "ok"

Is(e, t) == e # None /\ e.type = t

\* b is a with text added to its end.
Extends(a, b) == a.chunks <= b.chunks /\ (a.chunks > 0 => a.rewritten = b.rewritten)

\* What is shown: the messages and the step.
View(w, s) == [wire |-> w, shown |-> s]

\* An event the browser can show when it shows v, and what it shows then.
Takes(v, e, w) ==
  \/ e = None /\ w = v
  \/ Is(e, "RUN_ERROR") /\ w = v
  \/ /\ Is(e, "START") /\ e.id \notin DOMAIN v.wire
     /\ w = View([m \in DOMAIN v.wire \cup {e.id} |->
                    IF m = e.id THEN [text |-> NoText, ended |-> FALSE] ELSE v.wire[m]], v.shown)
  \/ /\ Is(e, "CONTENT") /\ e.id \in DOMAIN v.wire /\ ~v.wire[e.id].ended
     /\ Extends(v.wire[e.id].text, e.text)
     /\ w = View([v.wire EXCEPT ![e.id].text = e.text], v.shown)
  \/ /\ Is(e, "END") /\ e.id \in DOMAIN v.wire /\ ~v.wire[e.id].ended
     /\ w = View([v.wire EXCEPT ![e.id].ended = TRUE], v.shown)
  \/ Is(e, "STEP_STARTED") /\ v.shown = None /\ w = View(v.wire, e.step)
  \/ Is(e, "STEP_FINISHED") /\ w = View(v.wire, None)

\* The events of s, shown one after the other, lead from v to w.
Leads(v, s, w) ==
  \E views : /\ views[0] = v /\ views[Len(s)] = w
            /\ \A i \in 1..Len(s) : Takes(views[i - 1], s[i], views[i])

\* What the adapter has mapped, as the browser will have it.
Mapped == [m \in DOMAIN text |-> [text |-> text[m], ended |-> m \in ended]]

\* The events under way lead the browser to what the adapter has mapped.
Delivery == Following => Leads(View(wire, shown), Stream, View(Mapped, step))

\* An error that was or will be sent is known to the adapter, and the run
\* has one end.
Terminals ==
  /\ \A i \in 1..Len(queue) : Is(queue[i], "RUN_ERROR") => failed
  /\ \A i \in 1..Len(outbox) : Is(outbox[i], "RUN_ERROR") => failed
  /\ consumer # "over" =>
       /\ \A i \in 1..Len(terminal) : terminal[i] = "error"
       /\ ~failed => terminal = <<>>
  /\ consumer = "over" =>
       /\ NoFinishAfterError
       /\ \A i \in 1..Len(terminal) : terminal[i] = "finished" => cause = "ok" /\ ~failed

IndInv == Types /\ Control /\ Session /\ LastPoll /\ Delivery /\ Terminals

-----------------------------------------------------------------------------
(* Types.                                                                  *)

\* What the adapter makes of a record is a sequence of events.
LEMMA MappedEvents ==
  ASSUME Types, NEW m \in Offsets, NEW r \in Records
  PROVE  /\ FinishSteps \in Seq(Events)
         /\ r.kind = "message" =>
              TextEvents(m, r) \in Seq(Events) /\ TextOf(r) \in Texts /\ Written(TextOf(r))
         /\ \A s \in Steps : StatusSequence(s) \in Seq(Events)
         /\ FinishSteps \o <<[type |-> "RUN_ERROR"]>> \in Seq(Events)
<1>1. FinishSteps \in Seq(Events)
  <2>1. step # None => [type |-> "STEP_FINISHED", step |-> step] \in Events
    BY DEF Types, Events, Steps
  <2> QED  BY <2>1 DEF FinishSteps
<1>2. ASSUME r.kind = "message"
      PROVE  TextEvents(m, r) \in Seq(Events) /\ TextOf(r) \in Texts /\ Written(TextOf(r))
  <2>1. TextOf(r) \in Texts /\ Written(TextOf(r))
    BY <1>2 DEF Records, Messages, TextOf, Text, Texts, Written
  <2>2. /\ [type |-> "START", id |-> m] \in Events
        /\ [type |-> "CONTENT", id |-> m, text |-> TextOf(r)] \in Events
        /\ [type |-> "END", id |-> m] \in Events
    BY <2>1 DEF Events
  <2> HIDE DEF Events, Texts, TextOf
  <2> QED  BY <2>1, <2>2 DEF TextEvents
<1>3. ASSUME NEW s \in Steps PROVE StatusSequence(s) \in Seq(Events)
  <2>1. [type |-> "STEP_STARTED", step |-> s] \in Events
    BY DEF Events
  <2> HIDE DEF Events, FinishSteps
  <2> QED  BY <1>1, <2>1 DEF StatusSequence
<1>4. FinishSteps \o <<[type |-> "RUN_ERROR"]>> \in Seq(Events)
  <2>1. [type |-> "RUN_ERROR"] \in Events
    BY DEF Events
  <2> HIDE DEF Events, FinishSteps
  <2> QED  BY <1>1, <2>1
<1> QED  BY <1>1, <1>2, <1>3, <1>4

\* Every action keeps the types.
LEMMA TypesKept ==
  ASSUME IndInv, [Next]_vars
  PROVE  Types'
<1> USE DEF IndInv
<1>1. CASE EngineWrites
  <2>1. ASSUME NEW e \in Records, EngineAppend(e) PROVE Types'
    <3>1. store' \in Seq(Records) /\ Len(store') <= MaxEvents
      BY <2>1, ConstantsAssumption DEF EngineAppend, Types
    <3> QED  BY <2>1, <3>1 DEF EngineAppend, Types, pollVars, adapterVars, consumerVars, wireVars
  <2>2. ASSUME NEW n \in 0..1, NEW c \in BOOLEAN PROVE Message(n, c) \in Records
    BY ConstantsAssumption DEF Message, Records, Messages, Written
  <2>3. ASSUME NEW s \in Statuses PROVE Status(s) \in Records
    BY DEF Status, Records
  <2>4. ASSUME NEW m \in Offsets, EngineStream(m) PROVE Types'
    <3>1. store[m] \in Messages /\ m \in 1..Len(store)
      <4>1. m \in 1..Len(store) /\ store[m].kind = "message"
        BY <2>4 DEF EngineStream, IsMessage, Offsets, Types
      <4> QED  BY <4>1 DEF Types, Records
    <3>2. ASSUME NEW r \in Records
          PROVE  /\ [store EXCEPT ![m] = r] \in Seq(Records)
                 /\ Len([store EXCEPT ![m] = r]) = Len(store)
      BY <3>1, ExceptSeq DEF Types
    <3>3. \E r \in Records : store' = [store EXCEPT ![m] = r]
      <4>1. CASE store[m].chunks < MaxChunks /\ store' = [store EXCEPT ![m].chunks = @ + 1]
        <5>1. [store[m] EXCEPT !.chunks = @ + 1] \in Records
          BY <3>1, <4>1, ConstantsAssumption DEF Records, Messages, Written
        <5> QED  BY <4>1, <5>1
      <4>2. CASE store' = [store EXCEPT ![m].closed = TRUE]
        <5>1. [store[m] EXCEPT !.closed = TRUE] \in Records
          BY <3>1 DEF Records, Messages, Written
        <5> QED  BY <4>2, <5>1
      <4>3. CASE store[m].chunks > 0 /\ store' = [store EXCEPT ![m].rewritten = TRUE]
        <5>1. store[m].chunks # 0
          BY <3>1, <4>3, ConstantsAssumption DEF Messages
        <5>2. [store[m] EXCEPT !.rewritten = TRUE] \in Records
          BY <3>1, <5>1 DEF Records, Messages, Written
        <5> QED  BY <4>3, <5>2
      <4> QED  BY <2>4, <4>1, <4>2, <4>3 DEF EngineStream
    <3>4. store' \in Seq(Records) /\ Len(store') <= MaxEvents
      BY <3>2, <3>3 DEF Types
    <3> QED  BY <2>4, <3>4 DEF EngineStream, Types, pollVars, adapterVars, consumerVars, wireVars
  <2>5. CASE \E n \in 0..1 : EngineAppend(Message(n, FALSE))
    BY <2>1, <2>2, <2>5
  <2>6. CASE EngineAppend(Message(1, TRUE))
    <3>1. Message(1, TRUE) \in Records
      BY ConstantsAssumption DEF Message, Records, Messages, Written
    <3> QED  BY <2>1, <2>6, <3>1
  <2>7. CASE \E s \in Statuses : EngineAppend(Status(s))
    BY <2>1, <2>3, <2>7
  <2> QED  BY <1>1, <2>4, <2>5, <2>6, <2>7 DEF EngineWrites
<1>2. CASE EngineEnd
  BY <1>2 DEF EngineEnd, EngineOver, Types, pollVars, adapterVars, consumerVars, wireVars
<1>3. CASE ReadCompleted
  <2>1. completed' = TRUE \/ completed' = FALSE
    BY <1>3 DEF ReadCompleted
  <2> QED  BY <1>3, <2>1 DEF ReadCompleted, Types, engineVars, adapterVars, consumerVars, wireVars
<1>14. CASE ListRaises \/ FinishingEnd
  <2>1. producer' = "closing" /\ failing' \in BOOLEAN
    BY <1>14 DEF ListRaises, FinishingEnd, Types
  <2>2. UNCHANGED <<engineVars, completed, batch, outbox, adapterVars, queue, consumerVars, wireVars>>
    BY <1>14 DEF ListRaises, FinishingEnd
  <2> QED  BY <2>1, <2>2 DEF Types, engineVars, adapterVars, consumerVars, wireVars
<1>4. CASE ListReturns
  <2>1. batch' \in [DOMAIN batch' -> Records] /\ DOMAIN batch' \subseteq Offsets
    BY <1>4, ConstantsAssumption DEF ListReturns, Types, Offsets
  <2> QED  BY <1>4, <2>1 DEF ListReturns, Types, engineVars, adapterVars, consumerVars, wireVars
<1>5. CASE MapNext
  <2>1. PICK m \in DOMAIN batch :
          /\ offset' = IF m + 1 > offset THEN m + 1 ELSE offset
          /\ batch' = [k \in DOMAIN batch \ {m} |-> batch[k]]
          /\ MapMessage(m, batch[m]) \/ MapStatus(batch[m])
    BY <1>5 DEF MapNext
  <2>2. m \in Offsets /\ batch[m] \in Records
    BY DEF Types
  <2>3. /\ offset' \in 1..(MaxEvents + 1)
        /\ batch' \in [DOMAIN batch' -> Records] /\ DOMAIN batch' \subseteq Offsets
    BY <2>1, <2>2, ConstantsAssumption DEF Types, Offsets
  <2>4. CASE MapMessage(m, batch[m])
    <3>1. /\ TextEvents(m, batch[m]) \in Seq(Events)
          /\ TextOf(batch[m]) \in Texts /\ Written(TextOf(batch[m]))
      BY <2>2, <2>4, MappedEvents DEF MapMessage
    <3>2. open' \subseteq Offsets /\ step' = step /\ failed' = failed
      BY <2>2, <2>4 DEF MapMessage, Types
    <3>3. /\ outbox' \in Seq(Events) /\ ended' \subseteq Offsets
          /\ producer' \in {producer, "closing"} /\ failing' \in BOOLEAN
      BY <2>2, <2>4, <3>1 DEF MapMessage, Types
    <3>4. /\ text' \in [DOMAIN text' -> Texts] /\ DOMAIN text' \subseteq Offsets
          /\ \A k \in DOMAIN text' : Written(text'[k])
      <4>1. CASE text' = text
        BY <4>1 DEF Types
      <4>2. CASE text' = [k \in DOMAIN text \cup {m} |-> IF k = m THEN TextOf(batch[m]) ELSE text[k]]
        <5> HIDE DEF Texts, TextOf, Written
        <5> QED  BY <2>2, <3>1, <4>2 DEF Types
      <4> QED  BY <2>4, <4>1, <4>2 DEF MapMessage
    <3> QED
      BY <1>5, <2>3, <3>2, <3>3, <3>4 DEF MapNext, Types, engineVars, consumerVars, wireVars, ProducerOver
  <2>5. CASE MapStatus(batch[m])
    <3>1. /\ FinishSteps \in Seq(Events)
          /\ \A s \in Steps : StatusSequence(s) \in Seq(Events)
          /\ FinishSteps \o <<[type |-> "RUN_ERROR"]>> \in Seq(Events)
      BY <2>2, MappedEvents
    <3>2. /\ outbox' \in Seq(Events) /\ step' \in Steps \cup {None} /\ failed' \in BOOLEAN
          /\ UNCHANGED <<open, text, ended, producer, failing>>
      <4> HIDE DEF FinishSteps, StatusSequence, Events
      <4> QED  BY <2>5, <3>1 DEF MapStatus, Types
    <3> QED
      BY <1>5, <2>3, <3>2 DEF MapNext, Types, engineVars, consumerVars, wireVars
  <2> QED  BY <2>1, <2>4, <2>5
<1>6. CASE Put
  <2>1. Head(outbox) \in Events /\ Tail(outbox) \in Seq(Events)
    BY <1>6 DEF Put, Types
  <2>2. queue' \in Seq(Events \cup {None}) /\ Len(queue') <= QueueCap
    BY <1>6, <2>1, ConstantsAssumption DEF Put, HasRoom, Types
  <2> QED  BY <1>6, <2>1, <2>2 DEF Put, Types, engineVars, adapterVars, consumerVars, wireVars
<1>7. CASE PollEnd
  <2>1. outbox' \in Seq(Events)
    <3>1. step # None => [type |-> "STEP_FINISHED", step |-> step] \in Events
      BY DEF Types, Events, Steps
    <3>2. FinishSteps \in Seq(Events)
      BY <3>1 DEF FinishSteps
    <3>3. outbox' = outbox \/ outbox' = FinishSteps
      BY <1>7 DEF PollEnd
    <3> QED  BY <3>2, <3>3 DEF Types
  <2>2. batch' \in [DOMAIN batch' -> Records] /\ DOMAIN batch' \subseteq Offsets
    BY <1>7 DEF PollEnd
  <2>3. step' \in Steps \cup {None} /\ failing' \in BOOLEAN
        /\ producer' \in {"closing", "check", "finishing"}
    BY <1>7 DEF PollEnd, Types
  <2> QED  BY <1>7, <2>1, <2>2, <2>3 DEF PollEnd, Types, engineVars, consumerVars, wireVars
<1>8. CASE PutNone
  <2>1. queue' \in Seq(Events \cup {None}) /\ Len(queue') <= QueueCap
    BY <1>8, ConstantsAssumption DEF PutNone, HasRoom, Types
  <2> QED  BY <1>8, <2>1 DEF PutNone, Types, engineVars, adapterVars, consumerVars, wireVars, ProducerOver
<1>9. CASE Read
  <2>1. queue' \in Seq(Events \cup {None}) /\ Len(queue') <= QueueCap
    BY <1>9, ConstantsAssumption DEF Read, Types
  <2>2. CASE Head(queue) = None
    BY <1>9, <2>1, <2>2 DEF Read, Types, engineVars, pollVars, adapterVars, wireVars
  <2>3. CASE Head(queue) # None
    <3>1. Head(queue) \in Events /\ Show(Head(queue)) /\ consumer' = consumer
      BY <1>9, <2>3 DEF Read, Types
    <3>2. /\ wire' \in [DOMAIN wire' -> [text : Texts, ended : BOOLEAN]] /\ DOMAIN wire' \subseteq Offsets
          /\ shown' \in Steps \cup {None} /\ terminal' \in Seq({"error", "finished"})
      <4>1. CASE Head(queue).type = "START"
        <5>1. Head(queue).id \in Offsets /\ NoText \in Texts
          BY <3>1, <4>1, ConstantsAssumption DEF Events, NoText, Text, Texts
        <5>2. /\ wire' = [m \in DOMAIN wire \cup {Head(queue).id} |->
                           IF m = Head(queue).id THEN [text |-> NoText, ended |-> FALSE] ELSE wire[m]]
              /\ UNCHANGED <<shown, terminal>>
          BY <3>1, <4>1 DEF Show
        <5> HIDE DEF Texts, NoText
        <5> QED  BY <5>1, <5>2 DEF Types
      <4>2. CASE Head(queue).type = "CONTENT"
        <5>1. Head(queue).text \in Texts
          BY <3>1, <4>2 DEF Events
        <5>2. wire' = [wire EXCEPT ![Head(queue).id].text = Head(queue).text] /\ UNCHANGED <<shown, terminal>>
          BY <3>1, <4>2 DEF Show
        <5> HIDE DEF Texts
        <5> QED  BY <5>1, <5>2 DEF Types
      <4>3. CASE Head(queue).type = "END"
        <5>1. wire' = [wire EXCEPT ![Head(queue).id].ended = TRUE] /\ UNCHANGED <<shown, terminal>>
          BY <3>1, <4>3 DEF Show
        <5> HIDE DEF Texts
        <5> QED  BY <5>1 DEF Types
      <4>4. CASE Head(queue).type = "STEP_STARTED"
        BY <3>1, <4>4 DEF Show, Types, Events
      <4>5. CASE Head(queue).type = "STEP_FINISHED"
        BY <3>1, <4>5 DEF Show, Types
      <4>6. CASE Head(queue).type = "RUN_ERROR"
        <5>1. terminal' = Append(terminal, "error") /\ UNCHANGED <<wire, shown>>
          BY <3>1, <4>6 DEF Show
        <5> QED  BY <5>1 DEF Types
      <4> QED  BY <3>1, <4>1, <4>2, <4>3, <4>4, <4>5, <4>6 DEF Events
    <3> QED  BY <1>9, <2>1, <3>1, <3>2 DEF Read, Types, engineVars, pollVars, adapterVars
  <2> QED  BY <2>2, <2>3
<1>10. CASE Join \/ RunTimeout \/ RunCancelled
  <2>1. PICK c \in {"ok", "error", "timeout", "cancelled"} : Leave(c)
    BY <1>10 DEF Join, RunTimeout, RunCancelled
  <2>2. cancels' \in 0..2 /\ timedOut' \in BOOLEAN
    <3>1. cancels = 0 /\ (timedOut' = timedOut \/ timedOut' = TRUE)
      BY <1>10 DEF Join, RunTimeout, RunCancelled, Control
    <3>2. cancels' = cancels + 1 \/ cancels' = cancels
      BY <2>1 DEF Leave, CancelTasks
    <3>3. cancels' \in 0..2
      BY <3>1, <3>2
    <3> QED  BY <3>1, <3>3 DEF Types
  <2> QED
    BY <2>1, <2>2 DEF Leave, CancelTasks, Types, adapterVars, wireVars, ProducerOver, EngineOver
<1>11. CASE TimeoutInCleanup
  BY <1>11 DEF TimeoutInCleanup, Types, Control, pollVars, adapterVars, wireVars
<1>12. CASE Finish
  <2>1. terminal' \in Seq({"error", "finished"})
    <3>1. cause \in {"ok", "error", "timeout", "cancelled"}
      BY <1>12 DEF Finish, Types, Control
    <3>2. \/ terminal' = terminal \o <<>>
          \/ terminal' = terminal \o <<"finished">>
          \/ terminal' = terminal \o <<"error">>
      BY <1>12, <3>1 DEF Finish, FinishedUnlessFailed
    <3>3. /\ <<>> \in Seq({"error", "finished"}) /\ <<"finished">> \in Seq({"error", "finished"})
          /\ <<"error">> \in Seq({"error", "finished"})
      OBVIOUS
    <3>4. terminal \in Seq({"error", "finished"})
      BY DEF Types
    <3> QED  BY <3>2, <3>3, <3>4, ConcatProperties
  <2> QED  BY <1>12, <2>1 DEF Finish, Types, engineVars, pollVars, adapterVars
<1>13. CASE UNCHANGED vars
  BY <1>13 DEF vars, Types, engineVars, pollVars, adapterVars, consumerVars, wireVars
<1> QED
  BY <1>1, <1>2, <1>3, <1>4, <1>5, <1>6, <1>7, <1>8, <1>9, <1>10, <1>11, <1>12, <1>13, <1>14
  DEF Next, ProducerStep, Terminated

-----------------------------------------------------------------------------
(* Control and terminal events.                                            *)

\* An action that ends the reading of the stream.
LEMMA LeaveKeepsControl ==
  ASSUME Types, Control, consumer \in {"reading", "joining"}, NEW c, Leave(c),
         c \in {"ok", "error", "timeout", "cancelled"},
         c = "ok" => consumer = "joining" /\ producer = "done",
         c = "timeout" \/ timedOut' = timedOut
  PROVE  Control'
<1>1. /\ consumer' = "cleanup" /\ cause' = c /\ UNCHANGED <<outbox, failing, failed, queue>>
      /\ producer' = IF producer \in ProducerOver THEN producer ELSE "cancelled"
      /\ engine' # "running" /\ (cancels' = cancels \/ cancels' = cancels + 1)
  BY DEF Leave, CancelTasks, adapterVars
<1>2. producer' \in ProducerOver
  BY <1>1 DEF ProducerOver
<1>3. /\ outbox' # <<>> => producer' \in {"mapping", "finishing", "cancelled"}
      /\ failing' => producer' \in {"closing", "raised", "cancelled"}
      /\ failed' => producer' \notin {"check", "listing", "finishing"}
      /\ \A i \in 1..Len(queue') : queue'[i] = None => i = Len(queue') /\ producer' \in {"done", "raised"}
  BY <1>1, <1>2 DEF Control, ProducerOver
<1>4. cause' = "ok" => queue' = <<>> /\ outbox' = <<>> /\ producer' = "done"
  BY <1>1 DEF Control, ProducerOver
<1>5. ~timedOut' => cancels' <= 1
  BY <1>1 DEF Control, Types
<1> QED  BY <1>1, <1>2, <1>3, <1>4, <1>5 DEF Control

LEMMA ControlKept ==
  ASSUME IndInv, [Next]_vars
  PROVE  Control'
<1> USE DEF IndInv
<1>1. CASE EngineWrites
  <2>1. UNCHANGED <<engine, cancels, pollVars, adapterVars, queue, consumerVars, wireVars>>
    BY <1>1 DEF EngineWrites, EngineAppend, EngineStream
  <2> QED  BY <2>1 DEF Control, pollVars, adapterVars, consumerVars, wireVars
<1>2. CASE EngineEnd
  BY <1>2 DEF EngineEnd, Control, pollVars, adapterVars, consumerVars, wireVars
<1>3. CASE ReadCompleted
  BY <1>3 DEF ReadCompleted, Control, ProducerOver, engineVars, adapterVars, consumerVars, wireVars
<1>4. CASE ListReturns
  BY <1>4 DEF ListReturns, Control, ProducerOver, engineVars, adapterVars, consumerVars, wireVars
<1>5. CASE ListRaises
  BY <1>5 DEF ListRaises, Control, ProducerOver, engineVars, adapterVars, consumerVars, wireVars
<1>6. CASE MapNext
  <2>1. PICK m \in DOMAIN batch : MapMessage(m, batch[m]) \/ MapStatus(batch[m])
    BY <1>6 DEF MapNext
  <2>2. /\ producer = "mapping" /\ producer' \in {"mapping", "closing"} /\ outbox = <<>> /\ ~failed
        /\ producer' = "closing" => outbox' = outbox /\ failed' = failed
        /\ failing' => producer' = "closing"
        /\ UNCHANGED <<queue, consumer, cause, timedOut, engine, cancels>>
    BY <1>6, <2>1 DEF MapNext, MapMessage, MapStatus, engineVars, consumerVars, Control
  <2> QED  BY <2>2 DEF Control, ProducerOver
<1>7. CASE Put
  <2>1. Head(outbox) # None /\ outbox # <<>> /\ outbox \in Seq(Events) /\ queue \in Seq(Events \cup {None})
    BY <1>7, NoneIsNoEvent DEF Put, Types
  <2>2. queue' = Append(queue, Head(outbox)) /\ outbox' = Tail(outbox) /\ producer \in {"mapping", "finishing"}
        /\ UNCHANGED <<producer, failing, failed, engine, cancels, consumer, cause, timedOut>>
    BY <1>7 DEF Put, engineVars, adapterVars, consumerVars
  <2>3. \A i \in 1..Len(queue') : queue'[i] # None
    BY <2>1, <2>2 DEF Control
  <2>4. consumer # "joining" /\ cause # "ok"
    BY <2>2 DEF Control
  <2> QED  BY <2>2, <2>3, <2>4 DEF Control
<1>8. CASE PollEnd
  <2>1. /\ producer = "mapping" /\ outbox = <<>>
        /\ producer' \in {"closing", "check", "finishing"}
        /\ outbox' # <<>> => producer' = "finishing"
        /\ failing' => producer' = "closing"
        /\ failed => producer' = "closing"
        /\ UNCHANGED <<failed, queue, consumer, cause, timedOut, engine, cancels>>
    BY <1>8 DEF PollEnd, engineVars, consumerVars, Control
  <2> QED  BY <2>1 DEF Control, ProducerOver
<1>9. CASE FinishingEnd
  BY <1>9 DEF FinishingEnd, Control, ProducerOver, engineVars, adapterVars, consumerVars, wireVars
<1>10. CASE PutNone
  <2>1. /\ queue' = Append(queue, None) /\ queue \in Seq(Events \cup {None})
        /\ producer = "closing" /\ producer' \in {"raised", "done"}
        /\ failing => producer' = "raised"
        /\ outbox' = outbox
        /\ UNCHANGED <<failing, failed, consumer, cause, timedOut, engine, cancels>>
    BY <1>10 DEF PutNone, engineVars, adapterVars, consumerVars, Types
  <2>2. \A i \in 1..Len(queue') : queue'[i] = None => i = Len(queue')
    BY <2>1 DEF Control
  <2> QED  BY <2>1, <2>2 DEF Control, ProducerOver
<1>11. CASE Read
  <2>1. /\ queue # <<>> /\ queue' = Tail(queue) /\ queue \in Seq(Events \cup {None})
        /\ consumer = "reading"
        /\ consumer' = IF Head(queue) = None THEN "joining" ELSE consumer
        /\ UNCHANGED <<producer, outbox, failing, failed, cause, timedOut, engine, cancels>>
    BY <1>11 DEF Read, engineVars, pollVars, adapterVars, Types
  <2>2. \A i \in 1..Len(queue') : queue'[i] = None => i = Len(queue') /\ producer \in {"done", "raised"}
    BY <2>1 DEF Control
  <2>3. Head(queue) = None => queue' = <<>> /\ outbox = <<>> /\ producer \in {"done", "raised"}
    <3>1. Head(queue) = queue[1] /\ 1 \in 1..Len(queue)
      BY <2>1
    <3>2. Head(queue) = None => Len(queue) = 1 /\ producer \in {"done", "raised"}
      BY <3>1 DEF Control
    <3> QED  BY <2>1, <3>2 DEF Control
  <2> QED  BY <2>1, <2>2, <2>3 DEF Control
<1>12. CASE Join
  BY <1>12, LeaveKeepsControl DEF Join
<1>13. CASE RunTimeout
  BY <1>13, LeaveKeepsControl DEF RunTimeout
<1>14. CASE RunCancelled
  BY <1>14, LeaveKeepsControl DEF RunCancelled
<1>15. CASE TimeoutInCleanup
  BY <1>15 DEF TimeoutInCleanup, Control, Types, pollVars, adapterVars, wireVars
<1>16. CASE Finish
  BY <1>16 DEF Finish, Control, engineVars, pollVars, adapterVars
<1>17. CASE UNCHANGED vars
  BY <1>17 DEF vars, Control, engineVars, pollVars, adapterVars, consumerVars, wireVars
<1> QED
  BY <1>1, <1>2, <1>3, <1>4, <1>5, <1>6, <1>7, <1>8, <1>9, <1>10, <1>11, <1>12, <1>13,
     <1>14, <1>15, <1>16, <1>17
  DEF Next, ProducerStep, Terminated

\* What is mapped contains a RUN_ERROR only if the adapter has noted it.
LEMMA MappedErrors ==
  ASSUME Types, NEW m \in DOMAIN batch,
         outbox = <<>>, MapMessage(m, batch[m]) \/ MapStatus(batch[m])
  PROVE  \A i \in 1..Len(outbox') : Is(outbox'[i], "RUN_ERROR") => failed'
<1>1. CASE MapMessage(m, batch[m])
  <2>1. outbox' = outbox \/ outbox' = TextEvents(m, batch[m])
    BY <1>1 DEF MapMessage
  <2>2. ASSUME NEW i \in 1..Len(TextEvents(m, batch[m]))
        PROVE  ~Is(TextEvents(m, batch[m])[i], "RUN_ERROR")
    BY <2>2 DEF TextEvents, Is
  <2> QED  BY <2>1, <2>2
<1>2. CASE MapStatus(batch[m])
  <2>1. failed' \/ outbox' = outbox \/ outbox' = FinishSteps
          \/ \E s \in Steps : outbox' = StatusSequence(s)
    BY <1>2 DEF MapStatus
  <2>2. ASSUME NEW i \in 1..Len(FinishSteps)
        PROVE  ~Is(FinishSteps[i], "RUN_ERROR")
    BY <2>2 DEF FinishSteps, Is
  <2>3. ASSUME NEW s, NEW i \in 1..Len(StatusSequence(s))
        PROVE  ~Is(StatusSequence(s)[i], "RUN_ERROR")
    BY <2>3 DEF FinishSteps, StatusSequence, Is
  <2> QED  BY <2>1, <2>2, <2>3
<1> QED  BY <1>1, <1>2

LEMMA TerminalsKept ==
  ASSUME IndInv, [Next]_vars
  PROVE  Terminals'
<1> USE DEF IndInv
<1>1. CASE EngineWrites \/ EngineEnd
  <2>1. UNCHANGED <<pollVars, adapterVars, queue, consumerVars, wireVars>>
    BY <1>1 DEF EngineWrites, EngineAppend, EngineStream, EngineEnd
  <2> QED  BY <2>1 DEF Terminals, NoFinishAfterError, pollVars, adapterVars, consumerVars, wireVars
<1>2. CASE ReadCompleted \/ ListReturns \/ ListRaises \/ FinishingEnd
  BY <1>2 DEF ReadCompleted, ListReturns, ListRaises, FinishingEnd, Terminals, NoFinishAfterError,
              engineVars, adapterVars, consumerVars, wireVars
<1>3. CASE MapNext
  <2>1. PICK m \in DOMAIN batch : MapMessage(m, batch[m]) \/ MapStatus(batch[m])
    BY <1>3 DEF MapNext
  <2>2. \A i \in 1..Len(outbox') : Is(outbox'[i], "RUN_ERROR") => failed'
    BY <1>3, <2>1, MappedErrors DEF MapNext
  <2>3. /\ producer = "mapping" /\ ~failed
        /\ UNCHANGED <<queue, consumer, cause, terminal>>
    BY <1>3 DEF MapNext, consumerVars, wireVars
  <2>4. consumer # "over"
    BY <2>3 DEF Control, ProducerOver
  <2> QED  BY <2>2, <2>3, <2>4 DEF Terminals
<1>4. CASE Put
  <2>1. queue' = Append(queue, Head(outbox)) /\ outbox' = Tail(outbox)
        /\ queue \in Seq(Events \cup {None}) /\ outbox \in Seq(Events) /\ outbox # <<>>
        /\ UNCHANGED <<failed, consumer, cause, terminal>>
    BY <1>4 DEF Put, adapterVars, consumerVars, wireVars, Types
  <2>2. \A i \in 1..Len(queue') : queue'[i] = Head(outbox) \/ (i \in 1..Len(queue) /\ queue'[i] = queue[i])
    BY <2>1
  <2>3. \A i \in 1..Len(outbox') : i + 1 \in 1..Len(outbox) /\ outbox'[i] = outbox[i + 1]
    BY <2>1
  <2>4. Head(outbox) = outbox[1] /\ 1 \in 1..Len(outbox)
    BY <2>1
  <2> QED  BY <2>1, <2>2, <2>3, <2>4 DEF Terminals, NoFinishAfterError
<1>5. CASE PollEnd
  <2>1. outbox' = outbox \/ outbox' = FinishSteps
    BY <1>5 DEF PollEnd
  <2>2. ASSUME NEW i \in 1..Len(FinishSteps)
        PROVE  ~Is(FinishSteps[i], "RUN_ERROR")
    BY <2>2 DEF FinishSteps, Is
  <2>3. UNCHANGED <<queue, failed, consumer, cause, terminal>>
    BY <1>5 DEF PollEnd, consumerVars, wireVars
  <2> QED  BY <2>1, <2>2, <2>3 DEF Terminals, NoFinishAfterError
<1>6. CASE PutNone
  <2>1. queue' = Append(queue, None) /\ queue \in Seq(Events \cup {None})
        /\ UNCHANGED <<outbox, failed, consumer, cause, terminal>>
    BY <1>6 DEF PutNone, adapterVars, consumerVars, wireVars, Types
  <2>2. \A i \in 1..Len(queue') : queue'[i] = None \/ (i \in 1..Len(queue) /\ queue'[i] = queue[i])
    BY <2>1
  <2> QED  BY <2>1, <2>2 DEF Terminals, NoFinishAfterError, Is
<1>7. CASE Read
  <2>1. /\ queue' = Tail(queue) /\ queue \in Seq(Events \cup {None}) /\ queue # <<>>
        /\ consumer = "reading" /\ consumer' \in {"reading", "joining"}
        /\ UNCHANGED <<outbox, failed, cause>>
    BY <1>7 DEF Read, pollVars, adapterVars, Types
  <2>2. \A i \in 1..Len(queue') : i + 1 \in 1..Len(queue) /\ queue'[i] = queue[i + 1]
    BY <2>1
  <2>3. terminal' = terminal \/ (terminal' = Append(terminal, "error") /\ Is(Head(queue), "RUN_ERROR"))
    <3>1. CASE Head(queue) = None
      BY <1>7, <3>1 DEF Read, wireVars
    <3>2. CASE Head(queue) # None
      <4>1. Head(queue) \in Events /\ Show(Head(queue))
        BY <1>7, <2>1, <3>2 DEF Read
      <4>2. Head(queue).type \in {"START", "CONTENT", "END", "STEP_STARTED", "STEP_FINISHED", "RUN_ERROR"}
        BY <4>1 DEF Events
      <4> QED  BY <3>2, <4>1, <4>2 DEF Show, Is
    <3> QED  BY <3>1, <3>2
  <2>4. Is(Head(queue), "RUN_ERROR") => failed
    BY <2>1 DEF Terminals
  <2>5. /\ \A i \in 1..Len(terminal') : terminal'[i] = "error"
        /\ ~failed => terminal' = <<>>
    BY <2>1, <2>3, <2>4 DEF Terminals, Types
  <2> QED  BY <2>1, <2>2, <2>5 DEF Terminals
<1>8. CASE Join \/ RunTimeout \/ RunCancelled
  BY <1>8 DEF Join, RunTimeout, RunCancelled, Leave, Terminals, adapterVars, wireVars
<1>9. CASE TimeoutInCleanup
  BY <1>9 DEF TimeoutInCleanup, Terminals, pollVars, adapterVars, wireVars
<1>10. CASE Finish
  <2>1. /\ consumer = "cleanup" /\ consumer' = "over"
        /\ UNCHANGED <<queue, outbox, failed, cause>>
        /\ cause \in {"ok", "error", "timeout", "cancelled"}
    BY <1>10 DEF Finish, Types, Control, pollVars, adapterVars
  <2>2. terminal \in Seq({"error", "finished"}) /\ \A i \in 1..Len(terminal) : terminal[i] = "error"
    BY <2>1 DEF Terminals, Types
  <2>3. \/ cause = "ok" /\ ~failed /\ terminal' = <<"finished">>
        \/ terminal' = terminal
        \/ terminal' = Append(terminal, "error")
    <3>1. /\ terminal \o <<>> = terminal
          /\ terminal \o <<"error">> = Append(terminal, "error")
      BY <2>2, ConcatEmptySeq, AppendIsConcat
    <3>2. ~failed => terminal = <<>>
      BY <2>1 DEF Terminals
    <3>3. ~failed => terminal \o <<"finished">> = <<"finished">>
      BY <3>2
    <3> QED  BY <1>10, <2>1, <3>1, <3>3 DEF Finish, FinishedUnlessFailed
  <2>4. CASE cause = "ok" /\ ~failed /\ terminal' = <<"finished">>
    BY <2>1, <2>4 DEF Terminals, NoFinishAfterError
  <2>5. CASE terminal' = terminal \/ terminal' = Append(terminal, "error")
    <3>1. \A i \in DOMAIN terminal' : terminal'[i] = "error"
      BY <2>2, <2>5
    <3>2. DOMAIN terminal' = 1..Len(terminal')
      BY <2>2, <2>5
    <3> QED  BY <2>1, <3>1, <3>2 DEF Terminals, NoFinishAfterError
  <2> QED  BY <2>3, <2>4, <2>5
<1>11. CASE UNCHANGED vars
  BY <1>11 DEF vars, Terminals, NoFinishAfterError, engineVars, pollVars, adapterVars, consumerVars, wireVars
<1> QED
  BY <1>1, <1>2, <1>3, <1>4, <1>5, <1>6, <1>7, <1>8, <1>9, <1>10, <1>11
  DEF Next, ProducerStep, Terminated

-----------------------------------------------------------------------------
(* The session and the last poll.                                          *)

\* The engine adds to the session; what it has closed stays as it is.
LEMMA SessionGrows ==
  ASSUME Types, EngineWrites
  PROVE  /\ engine = "running" /\ Len(store) <= Len(store')
         /\ \A k \in 1..Len(store) :
              /\ store'[k].kind = store[k].kind
              /\ IsMessage(k) /\ store[k].closed => store'[k] = store[k]
         /\ UNCHANGED <<engine, pollVars, adapterVars, queue, consumerVars, wireVars>>
<1>1. ASSUME NEW e, EngineAppend(e)
      PROVE  /\ engine = "running" /\ Len(store) <= Len(store')
             /\ \A k \in 1..Len(store) : store'[k] = store[k]
             /\ UNCHANGED <<engine, pollVars, adapterVars, queue, consumerVars, wireVars>>
  BY <1>1 DEF EngineAppend, Types
<1>2. ASSUME NEW m \in Offsets, EngineStream(m)
      PROVE  /\ engine = "running" /\ Len(store) = Len(store')
             /\ \A k \in 1..Len(store) :
                  /\ store'[k].kind = store[k].kind
                  /\ store[k].kind = "message" /\ store[k].closed => store'[k] = store[k]
             /\ UNCHANGED <<engine, pollVars, adapterVars, queue, consumerVars, wireVars>>
  <2>1. store[m] \in Messages /\ m \in 1..Len(store) /\ ~store[m].closed
    <3>1. m \in 1..Len(store) /\ store[m].kind = "message" /\ ~store[m].closed
      BY <1>2 DEF EngineStream, IsMessage, Offsets, Types
    <3> QED  BY <3>1 DEF Types, Records
  <2>2. \E r : store' = [store EXCEPT ![m] = r] /\ r.kind = store[m].kind
    <3>1. CASE store' = [store EXCEPT ![m].chunks = @ + 1]
      <4>1. [store[m] EXCEPT !.chunks = @ + 1].kind = store[m].kind
        BY <2>1 DEF Messages
      <4> QED  BY <3>1, <4>1
    <3>2. CASE store' = [store EXCEPT ![m].closed = TRUE]
      <4>1. [store[m] EXCEPT !.closed = TRUE].kind = store[m].kind
        BY <2>1 DEF Messages
      <4> QED  BY <3>2, <4>1
    <3>3. CASE store' = [store EXCEPT ![m].rewritten = TRUE]
      <4>1. [store[m] EXCEPT !.rewritten = TRUE].kind = store[m].kind
        BY <2>1 DEF Messages
      <4> QED  BY <3>3, <4>1
    <3> QED  BY <1>2, <3>1, <3>2, <3>3 DEF EngineStream
  <2>3. /\ Len(store) = Len(store')
        /\ \A k \in 1..Len(store) : IF k = m THEN store'[k].kind = store[m].kind ELSE store'[k] = store[k]
    BY <2>1, <2>2 DEF Types
  <2> QED  BY <1>2, <2>1, <2>3 DEF EngineStream
<1>3. CASE \E e : EngineAppend(e)
  BY <1>1, <1>3
<1>4. CASE \E m \in Offsets : EngineStream(m)
  BY <1>2, <1>4, ConstantsAssumption DEF IsMessage, Types
<1> QED  BY <1>3, <1>4 DEF EngineWrites

\* A message is mapped from what the session holds of it.
LEMMA MapMessageFacts ==
  ASSUME IndInv, MapNext, NEW m \in DOMAIN batch, MapMessage(m, batch[m])
  PROVE  /\ IsMessage(m) /\ m \in Offsets /\ batch[m] \in Messages
         /\ batch[m].closed => batch[m] = store[m]
         /\ batch[m].closed => m \notin open'
         /\ ~batch[m].closed => m \in open'
         /\ \A k : k # m => (k \in open' <=> k \in open)
         /\ \/ m \in ended /\ UNCHANGED <<outbox, text, ended, producer, failing>>
            \/ m \notin ended /\ producer' = "closing" /\ failing' /\ UNCHANGED <<outbox, text, ended>>
            \/ /\ m \notin ended /\ ~NotAppendOnly(m, batch[m])
               /\ outbox' = TextEvents(m, batch[m])
               /\ text' = [k \in DOMAIN text \cup {m} |-> IF k = m THEN TextOf(batch[m]) ELSE text[k]]
               /\ ended' = IF batch[m].closed THEN ended \cup {m} ELSE ended
               /\ UNCHANGED <<producer, failing>>
<1> USE DEF IndInv
<1>1. batch[m].kind = "message" /\ m \in Offsets /\ batch[m] \in Records
  BY DEF MapMessage, Types
<1>2. batch[m] \in Messages
  BY <1>1 DEF Records
<1>3. IsMessage(m) /\ (batch[m].closed => batch[m] = store[m])
  BY <1>1 DEF Session, IsMessage
<1> QED  BY <1>1, <1>2, <1>3 DEF MapMessage

LEMMA SessionKept ==
  ASSUME IndInv, [Next]_vars
  PROVE  Session'
<1> USE DEF IndInv
<1>1. CASE EngineWrites
  <2>1. /\ Len(store) <= Len(store') /\ Len(store) \in Nat /\ Len(store') \in Nat
        /\ \A k \in 1..Len(store) :
             /\ store'[k].kind = store[k].kind
             /\ IsMessage(k) /\ store[k].closed => store'[k] = store[k]
        /\ UNCHANGED <<pollVars, adapterVars>>
    BY <1>1, SessionGrows, TypesKept DEF Types
  <2>2. \A m \in Offsets : IsMessage(m)' /\ m < offset => IsMessage(m)
    BY <2>1 DEF IsMessage, Session, Types, Offsets
  <2>3. \A k \in DOMAIN batch : k \in 1..Len(store)
    BY DEF Session, Types, Offsets
  <2>4. \A m \in DOMAIN batch :
          /\ m <= Len(store') /\ batch[m].kind = store'[m].kind
          /\ batch[m].kind = "message" /\ batch[m].closed => batch[m] = store'[m]
    BY <2>1, <2>3 DEF Session, IsMessage
  <2>5. \A m \in ended : m \in 1..Len(store)
    BY DEF Session, IsMessage, Types, Offsets
  <2>6. \A m \in ended : IsMessage(m)' /\ store'[m] = store[m]
    BY <2>1, <2>5 DEF Session, IsMessage
  <2>7. offset <= Len(store') + 1
    BY <2>1 DEF Session, Types
  <2> QED  BY <2>1, <2>2, <2>4, <2>6, <2>7 DEF Session, pollVars, adapterVars
<1>2. CASE EngineEnd \/ ReadCompleted \/ ListRaises \/ FinishingEnd \/ Put \/ PutNone
  BY <1>2 DEF EngineEnd, ReadCompleted, ListRaises, FinishingEnd, Put, PutNone, Session, IsMessage,
              engineVars, pollVars, adapterVars
<1>3. CASE ListReturns
  BY <1>3 DEF ListReturns, ToMap, Session, IsMessage, Types, Offsets, engineVars, adapterVars
<1>4. CASE MapNext
  <2>1. PICK m \in DOMAIN batch :
          /\ \A k \in DOMAIN batch : m <= k
          /\ offset' = IF m + 1 > offset THEN m + 1 ELSE offset
          /\ batch' = [k \in DOMAIN batch \ {m} |-> batch[k]]
          /\ MapMessage(m, batch[m]) \/ MapStatus(batch[m])
    BY <1>4 DEF MapNext
  <2>2. /\ producer = "mapping" /\ store' = store /\ ~failing
        /\ m \in Nat /\ offset \in Nat /\ DOMAIN batch \subseteq Nat
        /\ m <= Len(store) /\ Len(store) \in Nat
    BY <1>4 DEF MapNext, engineVars, Control, Types, Offsets, Session
  <2>3. m >= offset => m = offset
    BY <2>1, <2>2 DEF Session
  <2>4. offset' <= Len(store') + 1
    BY <2>1, <2>2 DEF Session
  <2>5. \A n \in DOMAIN batch' : \A k \in offset'..n : k \in DOMAIN batch'
    BY <2>1, <2>2, <2>3 DEF Session
  <2>6. \A n \in DOMAIN batch' :
          /\ n <= Len(store') /\ batch'[n].kind = store'[n].kind
          /\ batch'[n].kind = "message" /\ batch'[n].closed => batch'[n] = store'[n]
    BY <2>1, <2>2 DEF Session
  <2>7. \A n \in Offsets : IsMessage(n)' <=> IsMessage(n)
    BY <2>2 DEF IsMessage
  <2>8. \A n \in Offsets : n < offset' => n < offset \/ n = m
    BY <2>1, <2>2, <2>3 DEF Offsets
  <2>9. CASE MapMessage(m, batch[m])
    <3>1. /\ IsMessage(m) /\ m \in Offsets
          /\ batch[m].closed => batch[m] = store[m]
          /\ ~batch[m].closed => m \in open'
          /\ \A k : k # m => (k \in open' <=> k \in open)
          /\ \/ m \in ended /\ UNCHANGED <<text, ended, failing>>
             \/ failing' /\ UNCHANGED <<text, ended>>
             \/ /\ m \notin ended /\ ~failing'
                /\ text' = [k \in DOMAIN text \cup {m} |-> IF k = m THEN TextOf(batch[m]) ELSE text[k]]
                /\ ended' = IF batch[m].closed THEN ended \cup {m} ELSE ended
      BY <1>4, <2>2, <2>9, MapMessageFacts
    <3>2. \A n \in ended' : /\ IsMessage(n)' /\ store'[n].closed
                            /\ n \in DOMAIN text' /\ text'[n] = TextOf(store'[n])
      <4>1. CASE UNCHANGED <<text, ended>>
        BY <2>2, <4>1 DEF Session, IsMessage
      <4>2. CASE /\ m \notin ended
                 /\ text' = [k \in DOMAIN text \cup {m} |-> IF k = m THEN TextOf(batch[m]) ELSE text[k]]
                 /\ ended' = IF batch[m].closed THEN ended \cup {m} ELSE ended
        BY <2>2, <3>1, <4>2 DEF Session, IsMessage
      <4> QED  BY <3>1, <4>1, <4>2
    <3>3. ~failing' => \A n \in Offsets : IsMessage(n)' /\ n < offset' => n \in open' \cup ended'
      BY <2>2, <2>7, <2>8, <3>1 DEF Session
    <3> QED  BY <2>4, <2>5, <2>6, <3>2, <3>3 DEF Session
  <2>10. CASE MapStatus(batch[m])
    <3>1. UNCHANGED <<text, ended, open>> /\ ~IsMessage(m)
      BY <2>2, <2>10 DEF MapStatus, Session, IsMessage
    <3>2. \A n \in Offsets : IsMessage(n)' /\ n < offset' => n \in open' \cup ended'
      BY <2>2, <2>7, <2>8, <3>1 DEF Session
    <3>3. \A n \in ended' : /\ IsMessage(n)' /\ store'[n].closed
                            /\ n \in DOMAIN text' /\ text'[n] = TextOf(store'[n])
      BY <2>2, <3>1 DEF Session, IsMessage
    <3> QED  BY <2>4, <2>5, <2>6, <3>2, <3>3 DEF Session
  <2> QED  BY <2>1, <2>9, <2>10
<1>5. CASE PollEnd
  <2>1. /\ DOMAIN batch' = {} /\ producer' # "mapping" /\ producer = "mapping"
        /\ UNCHANGED <<store, offset, open, text, ended>>
    BY <1>5 DEF PollEnd, engineVars
  <2>2. ~failing
    BY <2>1 DEF Control
  <2> QED  BY <2>1, <2>2 DEF Session, IsMessage
<1>6. CASE Read
  BY <1>6 DEF Read, Session, IsMessage, engineVars, pollVars, adapterVars
<1>7. CASE Join \/ RunTimeout \/ RunCancelled
  <2>1. /\ UNCHANGED <<store, batch, failing, adapterVars>>
        /\ producer' = producer \/ producer' = "cancelled"
    BY <1>7 DEF Join, RunTimeout, RunCancelled, Leave, CancelTasks
  <2> QED  BY <2>1 DEF Session, IsMessage, adapterVars
<1>8. CASE TimeoutInCleanup \/ Finish \/ UNCHANGED vars
  BY <1>8 DEF TimeoutInCleanup, Finish, vars, Session, IsMessage, engineVars, pollVars, adapterVars
<1> QED
  BY <1>1, <1>2, <1>3, <1>4, <1>5, <1>6, <1>7, <1>8
  DEF Next, ProducerStep, Terminated

LEMMA LastPollKept ==
  ASSUME IndInv, [Next]_vars
  PROVE  LastPoll'
<1> USE DEF IndInv
<1>1. CASE EngineWrites
  <2>1. engine = "running" /\ engine' = engine /\ UNCHANGED <<producer, completed, failing, failed>>
    BY <1>1, SessionGrows DEF pollVars, adapterVars
  <2> QED  BY <2>1 DEF LastPoll, EngineOver
<1>2. CASE EngineEnd
  <2>1. engine \notin EngineOver /\ UNCHANGED <<producer, completed, failing, failed>>
    BY <1>2 DEF EngineEnd, EngineOver, pollVars, adapterVars
  <2> QED  BY <2>1 DEF LastPoll, EngineOver
<1>3. CASE ReadCompleted
  BY <1>3 DEF ReadCompleted, LastPoll, engineVars
<1>4. CASE ListReturns
  <2>1. /\ producer = "listing" /\ producer' = "mapping" /\ ~failing
        /\ batch' = [m \in {m \in 1..Len(store) : ToMap(m)} |-> store[m]]
        /\ UNCHANGED <<store, engine, completed, failed, text, ended>>
    BY <1>4 DEF ListReturns, Control, engineVars, adapterVars
  <2>2. ASSUME NEW m \in Offsets, IsMessage(m), m \notin DOMAIN batch'
        PROVE  m \in DOMAIN text /\ text[m] = TextOf(store[m])
    <3>1. m \in 1..Len(store) /\ ~ToMap(m)
      BY <2>1, <2>2 DEF IsMessage, Offsets, Types
    <3>2. m \in ended
      BY <2>1, <2>2, <3>1 DEF ToMap, Session, Types, Offsets
    <3> QED  BY <3>2 DEF Session
  <2>3. \A m \in DOMAIN batch' : batch'[m] = store[m]
    BY <2>1
  <2> QED  BY <2>1, <2>2, <2>3 DEF LastPoll, IsMessage
<1>5. CASE ListRaises
  BY <1>5 DEF ListRaises, LastPoll, engineVars
<1>6. CASE MapNext
  <2>1. PICK m \in DOMAIN batch :
          /\ batch' = [k \in DOMAIN batch \ {m} |-> batch[k]]
          /\ MapMessage(m, batch[m]) \/ MapStatus(batch[m])
    BY <1>6 DEF MapNext
  <2>2. /\ producer = "mapping" /\ ~failing /\ UNCHANGED <<store, engine, completed>>
    BY <1>6 DEF MapNext, Control, engineVars
  <2>3. CASE MapMessage(m, batch[m])
    <3>1. /\ IsMessage(m) /\ m \in Offsets
          /\ \/ m \in ended /\ UNCHANGED <<text, producer>>
             \/ failing' /\ producer' = "closing"
             \/ /\ producer' = producer
                /\ text' = [k \in DOMAIN text \cup {m} |-> IF k = m THEN TextOf(batch[m]) ELSE text[k]]
      BY <1>6, <2>3, MapMessageFacts
    <3>2. CASE failing' /\ producer' = "closing"
      BY <3>2 DEF LastPoll
    <3>3. CASE m \in ended /\ UNCHANGED <<text, producer>>
      <4>1. m \in DOMAIN text /\ text[m] = TextOf(store[m])
        BY <3>3 DEF Session
      <4> QED  BY <2>1, <2>2, <3>3, <4>1 DEF LastPoll, IsMessage
    <3>4. CASE /\ producer' = producer
               /\ text' = [k \in DOMAIN text \cup {m} |-> IF k = m THEN TextOf(batch[m]) ELSE text[k]]
      BY <2>1, <2>2, <3>1, <3>4 DEF LastPoll, IsMessage
    <3> QED  BY <3>1, <3>2, <3>3, <3>4
  <2>4. CASE MapStatus(batch[m])
    <3>1. /\ UNCHANGED <<text, producer>> /\ ~IsMessage(m)
      BY <2>1, <2>4 DEF MapStatus, Session, IsMessage
    <3> QED  BY <2>1, <2>2, <3>1 DEF LastPoll, IsMessage
  <2> QED  BY <2>1, <2>3, <2>4
<1>7. CASE Put
  <2>1. /\ producer \in {"mapping", "finishing"}
        /\ UNCHANGED <<store, engine, producer, completed, failing, failed, batch, text, ended, step>>
    BY <1>7 DEF Put, engineVars, adapterVars
  <2> QED  BY <2>1 DEF LastPoll, IsMessage
<1>8. CASE PollEnd
  <2>1. /\ producer = "mapping" /\ (DOMAIN batch = {} \/ failed)
        /\ UNCHANGED <<store, engine, completed, failed, text, ended>>
        /\ \/ failed /\ producer' = "closing"
           \/ producer' = "check"
           \/ failing' /\ producer' = "closing"
           \/ /\ ~failed /\ completed /\ engine = "done" /\ IncompleteMessages = {}
              /\ producer' = "finishing" /\ step' = None
    BY <1>8 DEF PollEnd, DoneBeforePoll, engineVars
  <2>2. CASE /\ ~failed /\ completed /\ engine = "done" /\ IncompleteMessages = {}
             /\ producer' = "finishing" /\ step' = None
    <3>1. \A m \in Offsets : IsMessage(m) => m \in ended
      BY <2>1, <2>2 DEF LastPoll, IncompleteMessages
    <3> QED  BY <2>1, <2>2, <3>1 DEF LastPoll, IsMessage
  <2> QED  BY <2>1, <2>2 DEF LastPoll
<1>9. CASE FinishingEnd
  BY <1>9 DEF FinishingEnd, LastPoll, IsMessage, engineVars, adapterVars
<1>10. CASE PutNone
  BY <1>10 DEF PutNone, LastPoll, IsMessage, engineVars, adapterVars
<1>11. CASE Read
  BY <1>11 DEF Read, LastPoll, IsMessage, engineVars, pollVars, adapterVars
<1>12. CASE Join \/ RunTimeout \/ RunCancelled
  <2>1. /\ UNCHANGED <<store, completed, failing, adapterVars>>
        /\ producer' = "cancelled" \/ (producer' = producer /\ producer \in ProducerOver)
        /\ engine' = engine \/ engine = "running"
    BY <1>12 DEF Join, RunTimeout, RunCancelled, Leave, CancelTasks
  <2> QED  BY <2>1 DEF LastPoll, IsMessage, ProducerOver, adapterVars
<1>13. CASE TimeoutInCleanup \/ Finish \/ UNCHANGED vars
  BY <1>13 DEF TimeoutInCleanup, Finish, vars, LastPoll, IsMessage, engineVars, pollVars, adapterVars
<1> QED
  BY <1>1, <1>2, <1>3, <1>4, <1>5, <1>6, <1>7, <1>8, <1>9, <1>10, <1>11, <1>12, <1>13
  DEF Next, ProducerStep, Terminated

-----------------------------------------------------------------------------
(* Delivery.                                                               *)

LEMMA LeadsNowhere ==
  ASSUME NEW v, NEW w
  PROVE  Leads(v, <<>>, w) <=> v = w
<1>1. ASSUME Leads(v, <<>>, w) PROVE v = w
  BY <1>1 DEF Leads
<1>2. ASSUME v = w PROVE Leads(v, <<>>, w)
  <2> DEFINE views == [i \in {0} |-> v]
  <2>1. views[0] = v /\ views[Len(<<>>)] = w /\ 1..Len(<<>>) = {}
    BY <1>2
  <2> QED  BY <2>1 DEF Leads
<1> QED  BY <1>1, <1>2

LEMMA LeadsOne ==
  ASSUME NEW v, NEW e, NEW w, Takes(v, e, w)
  PROVE  Leads(v, <<e>>, w)
<1> DEFINE views == [i \in 0..1 |-> IF i = 0 THEN v ELSE w]
<1>1. /\ views[0] = v /\ views[Len(<<e>>)] = w
      /\ \A i \in 1..Len(<<e>>) : Takes(views[i - 1], <<e>>[i], views[i])
  <2>1. Len(<<e>>) = 1 /\ <<e>>[1] = e /\ views[0] = v /\ views[1] = w
    OBVIOUS
  <2> HIDE DEF views
  <2> QED  BY <2>1
<1> HIDE DEF views
<1> QED  BY <1>1 DEF Leads

LEMMA LeadsOn ==
  ASSUME NEW S, NEW s \in Seq(S), NEW t \in Seq(S), NEW u, NEW v, NEW w,
         Leads(u, s, v), Leads(v, t, w)
  PROVE  Leads(u, s \o t, w)
<1>1. PICK a : /\ a[0] = u /\ a[Len(s)] = v
               /\ \A i \in 1..Len(s) : Takes(a[i - 1], s[i], a[i])
  BY DEF Leads
<1>2. PICK b : /\ b[0] = v /\ b[Len(t)] = w
               /\ \A i \in 1..Len(t) : Takes(b[i - 1], t[i], b[i])
  BY DEF Leads
<1> DEFINE n == Len(s)
           views == [i \in 0..(n + Len(t)) |-> IF i <= n THEN a[i] ELSE b[i - n]]
<1>3. /\ Len(s \o t) = n + Len(t) /\ n \in Nat /\ Len(t) \in Nat
      /\ \A i \in 1..(n + Len(t)) : (s \o t)[i] = IF i <= n THEN s[i] ELSE t[i - n]
  BY ConcatProperties, LenProperties
<1>4. views[0] = u /\ views[n + Len(t)] = w
  <2>1. views[0] = a[0]
    BY <1>3
  <2>2. CASE Len(t) = 0
    BY <1>1, <1>2, <1>3, <2>1, <2>2
  <2>3. CASE Len(t) # 0
    <3>1. /\ n + Len(t) \in 0..(n + Len(t)) /\ ~(n + Len(t) <= n)
          /\ (n + Len(t)) - n = Len(t)
      BY <1>3, <2>3
    <3>2. views[n + Len(t)] = b[Len(t)]
      BY <3>1
    <3> HIDE DEF views
    <3> QED  BY <1>1, <1>2, <2>1, <3>2
  <2> QED  BY <2>2, <2>3
<1>5. ASSUME NEW i \in 1..(n + Len(t)) PROVE Takes(views[i - 1], (s \o t)[i], views[i])
  <2>1. CASE i <= n
    <3>1. /\ i \in 1..Len(s) /\ views[i - 1] = a[i - 1] /\ views[i] = a[i]
          /\ (s \o t)[i] = s[i]
      BY <1>3, <2>1
    <3> QED  BY <1>1, <3>1
  <2>2. CASE i > n
    <3>1. views[i - 1] = b[i - n - 1]
      <4>1. i - 1 \in 0..(n + Len(t)) /\ (i - 1) - n = i - n - 1
        BY <1>3, <2>2
      <4>2. CASE i - 1 <= n
        <5>1. i - 1 = n /\ i - n - 1 = 0
          BY <1>3, <2>2, <4>2
        <5>2. views[n] = a[n]
          BY <1>3
        <5> HIDE DEF views
        <5> QED  BY <1>1, <1>2, <5>1, <5>2
      <4>3. CASE ~(i - 1 <= n)
        BY <4>1, <4>3
      <4> QED  BY <4>2, <4>3
    <3>2. /\ i - n \in 1..Len(t) /\ views[i] = b[i - n]
          /\ (s \o t)[i] = t[i - n]
      BY <1>3, <2>2
    <3>3. Takes(b[i - n - 1], t[i - n], b[i - n])
      BY <1>2, <3>2
    <3> QED  BY <3>1, <3>2, <3>3
  <2> QED  BY <1>3, <2>1, <2>2
<1> HIDE DEF views
<1> QED  BY <1>3, <1>4, <1>5 DEF Leads

LEMMA LeadsFirst ==
  ASSUME NEW S, NEW s \in Seq(S), s # <<>>, NEW u, NEW w, Leads(u, s, w)
  PROVE  \E v : Takes(u, Head(s), v) /\ Leads(v, Tail(s), w)
<1>1. PICK a : /\ a[0] = u /\ a[Len(s)] = w
               /\ \A i \in 1..Len(s) : Takes(a[i - 1], s[i], a[i])
  BY DEF Leads
<1>2. /\ Len(s) \in Nat /\ Len(s) > 0 /\ Len(Tail(s)) = Len(s) - 1 /\ Head(s) = s[1]
      /\ \A i \in 1..Len(Tail(s)) : Tail(s)[i] = s[i + 1]
  BY HeadTailProperties, EmptySeq, LenProperties
<1>3. Takes(u, Head(s), a[1])
  BY <1>1, <1>2
<1> DEFINE views == [i \in 0..(Len(s) - 1) |-> a[i + 1]]
<1>4. views[0] = a[1] /\ views[Len(Tail(s))] = w
  BY <1>1, <1>2
<1>5. ASSUME NEW i \in 1..Len(Tail(s)) PROVE Takes(views[i - 1], Tail(s)[i], views[i])
  <2>1. i + 1 \in 1..Len(s) /\ views[i - 1] = a[i] /\ views[i] = a[i + 1] /\ (i + 1) - 1 = i
    BY <1>2
  <2>2. Takes(a[i], s[i + 1], a[i + 1])
    BY <1>1, <2>1
  <2> QED  BY <1>2, <2>1, <2>2
<1> HIDE DEF views
<1>6. Leads(a[1], Tail(s), w)
  BY <1>4, <1>5 DEF Leads
<1> QED  BY <1>3, <1>6

\* Closing the open step.
LEMMA StepFinishes ==
  ASSUME Types, NEW w
  PROVE  Leads(View(w, step), FinishSteps, View(w, None))
<1>1. CASE step = None
  BY <1>1, LeadsNowhere DEF FinishSteps
<1>2. CASE step # None
  <2> DEFINE e == [type |-> "STEP_FINISHED", step |-> step]
  <2>1. e \in Events
    BY <1>2 DEF Types, Events
  <2>2. e # None /\ e.type = "STEP_FINISHED"
    BY <2>1, NoneIsNoEvent
  <2>3. Takes(View(w, step), e, View(w, None))
    <3> HIDE DEF e
    <3> QED  BY <2>2 DEF Takes, Is, View
  <2>4. FinishSteps = <<e>>
    BY <1>2 DEF FinishSteps
  <2> HIDE DEF e
  <2> QED  BY <2>3, <2>4, LeadsOne
<1> QED  BY <1>1, <1>2

\* A status ends the open step before it starts another.
LEMMA StatusShown ==
  ASSUME Types, NEW w
  PROVE  /\ \A s \in Steps : Leads(View(w, step), StatusSequence(s), View(w, s))
         /\ Leads(View(w, step), FinishSteps \o <<[type |-> "RUN_ERROR"]>>, View(w, None))
<1>1. FinishSteps \in Seq(Events)
  <2>1. step # None => [type |-> "STEP_FINISHED", step |-> step] \in Events
    BY DEF Types, Events, Steps
  <2> QED  BY <2>1 DEF FinishSteps
<1>2. ASSUME NEW e \in Events, NEW v, Takes(View(w, None), e, v)
      PROVE  Leads(View(w, step), FinishSteps \o <<e>>, v)
  <2>1. <<e>> \in Seq(Events) /\ Leads(View(w, None), <<e>>, v)
    BY <1>2, LeadsOne
  <2> QED  BY <1>1, <2>1, StepFinishes, LeadsOn
<1>3. ASSUME NEW s \in Steps PROVE Leads(View(w, step), StatusSequence(s), View(w, s))
  <2> DEFINE e == [type |-> "STEP_STARTED", step |-> s]
  <2>1. e \in Events /\ e # None
    BY NoneIsNoEvent DEF Events
  <2>2. Takes(View(w, None), e, View(w, s))
    BY <2>1 DEF Takes, Is, View
  <2>3. StatusSequence(s) = FinishSteps \o <<e>>
    BY DEF StatusSequence
  <2> HIDE DEF e
  <2> QED  BY <1>2, <2>1, <2>2, <2>3
<1>4. Leads(View(w, step), FinishSteps \o <<[type |-> "RUN_ERROR"]>>, View(w, None))
  <2> DEFINE e == [type |-> "RUN_ERROR"]
  <2>1. e \in Events /\ e # None
    BY NoneIsNoEvent DEF Events
  <2>2. Takes(View(w, None), e, View(w, None))
    BY <2>1 DEF Takes, Is
  <2>3. e = [type |-> "RUN_ERROR"]
    OBVIOUS
  <2> HIDE DEF e
  <2> QED  BY <1>2, <2>1, <2>2, <2>3
<1> QED  BY <1>3, <1>4

\* A message that was polled again gets what is new of it.
LEMMA TextShown ==
  ASSUME Types, NEW m \in Offsets, m \notin ended, NEW r \in Messages, ~NotAppendOnly(m, r),
         NEW s,
         text' = [k \in DOMAIN text \cup {m} |-> IF k = m THEN TextOf(r) ELSE text[k]],
         ended' = IF r.closed THEN ended \cup {m} ELSE ended
  PROVE  Leads(View(Mapped, s), TextEvents(m, r), View(Mapped', s))
<1> DEFINE D == DOMAIN text \cup {m}
           With(x) == [k \in D |-> IF k = m THEN x ELSE Mapped[k]]
           had == IF m \in DOMAIN text THEN text[m] ELSE NoText
           e1 == [type |-> "START", id |-> m]
           e2 == [type |-> "CONTENT", id |-> m, text |-> TextOf(r)]
           e3 == [type |-> "END", id |-> m]
           s1 == IF m \in DOMAIN text THEN <<>> ELSE <<e1>>
           s2 == IF r.chunks > had.chunks THEN <<e2>> ELSE <<>>
           s3 == IF r.closed THEN <<e3>> ELSE <<>>
           w1 == With([text |-> had, ended |-> FALSE])
           w2 == With([text |-> TextOf(r), ended |-> FALSE])
<1>1. /\ DOMAIN Mapped = DOMAIN text
      /\ \A k \in DOMAIN text : Mapped[k] = [text |-> text[k], ended |-> k \in ended]
  BY DEF Mapped
<1>2. TextOf(r) \in Texts /\ Written(TextOf(r)) /\ TextOf(r).chunks = r.chunks
      /\ had \in Texts /\ Written(had)
  <2>1. TextOf(r) \in Texts /\ Written(TextOf(r)) /\ TextOf(r).chunks = r.chunks
    BY DEF Messages, TextOf, Text, Texts, Written
  <2>2. NoText \in Texts /\ Written(NoText)
    BY ConstantsAssumption DEF NoText, Text, Texts, Written
  <2>3. \A k \in DOMAIN text : text[k] \in Texts /\ Written(text[k])
    BY DEF Types
  <2> HIDE DEF Texts, Written, NoText
  <2> QED  BY <2>1, <2>2, <2>3
<1>3. Extends(had, TextOf(r))
  BY <1>2 DEF NotAppendOnly, Extends, Texts, TextOf, Text, NoText, Messages
<1>4. ~(r.chunks > had.chunks) => TextOf(r) = had
  BY <1>2, <1>3 DEF Extends, Texts, Written, Messages
<1>5. e1 \in Events /\ e2 \in Events /\ e3 \in Events
  BY <1>2 DEF Events
<1>6. /\ e1 # None /\ e1.type = "START" /\ e1.id = m
      /\ e2 # None /\ e2.type = "CONTENT" /\ e2.id = m /\ e2.text = TextOf(r)
      /\ e3 # None /\ e3.type = "END" /\ e3.id = m
  BY <1>5, NoneIsNoEvent
<1>7. Leads(View(Mapped, s), s1, View(w1, s))
  <2>1. CASE m \in DOMAIN text
    <3>1. w1 = Mapped
      <4>1. D = DOMAIN text
        BY <2>1
      <4>3. Mapped[m] = [text |-> had, ended |-> FALSE]
        <5>1. Mapped[m] = [text |-> text[m], ended |-> m \in ended] /\ had = text[m]
          BY <1>1, <2>1
        <5>2. (m \in ended) = FALSE
          OBVIOUS
        <5> HIDE DEF had, Mapped
        <5> QED  BY <5>1, <5>2
      <4>2. Mapped = [k \in D |-> Mapped[k]]
        BY <4>1 DEF Mapped
      <4> HIDE DEF had, D, Mapped
      <4> QED  BY <4>3, <4>2
    <3> HIDE DEF w1
    <3> QED  BY <2>1, <3>1, LeadsNowhere
  <2>2. CASE m \notin DOMAIN text
    <3>1. w1 = [k \in DOMAIN Mapped \cup {e1.id} |->
                  IF k = e1.id THEN [text |-> NoText, ended |-> FALSE] ELSE Mapped[k]]
      BY <1>1, <1>6, <2>2
    <3>2. Takes(View(Mapped, s), e1, View(w1, s))
      <4> HIDE DEF w1, e1, Mapped
      <4> QED  BY <1>1, <1>6, <2>2, <3>1 DEF Takes, Is, View
    <3> HIDE DEF w1, e1
    <3> QED  BY <2>2, <3>2, LeadsOne
  <2> QED  BY <2>1, <2>2
<1>8. Leads(View(w1, s), s2, View(w2, s))
  <2>1. CASE ~(r.chunks > had.chunks)
    <3>1. w1 = w2
      BY <1>4, <2>1
    <3> HIDE DEF w1, w2, had
    <3> QED  BY <2>1, <3>1, LeadsNowhere
  <2>2. CASE r.chunks > had.chunks
    <3>1. DOMAIN w1 = D /\ m \in D /\ w1[m] = [text |-> had, ended |-> FALSE]
      OBVIOUS
    <3>2. w2 = [w1 EXCEPT ![e2.id].text = e2.text]
      BY <1>6
    <3>3. Takes(View(w1, s), e2, View(w2, s))
      <4> HIDE DEF w1, w2, e2, had, D
      <4> QED  BY <1>3, <1>6, <3>1, <3>2 DEF Takes, Is, View
    <3> HIDE DEF w1, w2, e2, had
    <3> QED  BY <2>2, <3>3, LeadsOne
  <2> QED  BY <2>1, <2>2
<1>9. Leads(View(w2, s), s3, View(Mapped', s))
  <2>1. Mapped' = With([text |-> TextOf(r), ended |-> r.closed])
    BY <1>1 DEF Mapped, Messages
  <2>2. CASE ~r.closed
    <3>1. w2 = Mapped'
      BY <2>1, <2>2 DEF Messages
    <3> HIDE DEF w2
    <3> QED  BY <2>2, <3>1, LeadsNowhere
  <2>3. CASE r.closed
    <3>1. DOMAIN w2 = D /\ m \in D /\ w2[m] = [text |-> TextOf(r), ended |-> FALSE]
      OBVIOUS
    <3>2. Mapped' = [w2 EXCEPT ![e3.id].ended = TRUE]
      BY <1>6, <2>1, <2>3 DEF Messages
    <3>3. Takes(View(w2, s), e3, View(Mapped', s))
      <4> HIDE DEF w2, e3, D, Mapped
      <4> QED  BY <1>6, <3>1, <3>2 DEF Takes, Is, View
    <3> HIDE DEF w2, e3, Mapped
    <3> QED  BY <2>3, <3>3, LeadsOne
  <2> QED  BY <2>2, <2>3
<1>10. s1 \in Seq(Events) /\ s2 \in Seq(Events) /\ s3 \in Seq(Events)
  <2> HIDE DEF e1, e2, e3, had, Events
  <2> QED  BY <1>5
<1>11. TextEvents(m, r) = s1 \o s2 \o s3
  BY DEF TextEvents
<1> HIDE DEF s1, s2, s3, w1, w2
<1>12. s1 \o s2 \in Seq(Events) /\ Leads(View(Mapped, s), s1 \o s2, View(w2, s))
  BY <1>7, <1>8, <1>10, LeadsOn, ConcatProperties
<1> QED  BY <1>9, <1>10, <1>11, <1>12, LeadsOn

\* What the browser does with the next event is what the view says.
LEMMA ReadShows ==
  ASSUME Types, Read, Head(queue) # None, NEW v, Takes(View(wire, shown), Head(queue), v)
  PROVE  v = View(wire', shown')
<1>1. Show(Head(queue))
  BY DEF Read
<1>2. PICK e : e = Head(queue)
  OBVIOUS
<1>3. Show(e) /\ e # None /\ Takes(View(wire, shown), e, v)
  BY <1>1, <1>2
<1> QED  BY <1>3 DEF Show, Takes, Is, View

\* Taking the first event off the queue takes it off what is under way.
LEMMA StreamRead ==
  ASSUME Types, Read
  PROVE  /\ Stream # <<>> /\ Stream \in Seq(Events \cup {None})
         /\ Head(Stream) = Head(queue) /\ Tail(Stream) = Stream'
<1> DEFINE E == Events \cup {None}
<1>1. /\ queue \in Seq(E) /\ queue # <<>> /\ outbox \in Seq(E)
      /\ queue' = Tail(queue) /\ outbox' = outbox
  BY DEF Types, Read, pollVars
<1> HIDE DEF E
<1>2. /\ Len(queue) \in Nat /\ Len(queue) > 0 /\ Len(outbox) \in Nat
      /\ Head(queue) = queue[1] /\ queue' \in Seq(E) /\ Len(queue') = Len(queue) - 1
      /\ \A i \in 1..Len(queue') : queue'[i] = queue[i + 1]
  BY <1>1, HeadTailProperties, EmptySeq, LenProperties
<1>3. /\ Stream \in Seq(E) /\ Len(Stream) = Len(queue) + Len(outbox)
      /\ \A i \in 1..Len(Stream) :
           Stream[i] = IF i <= Len(queue) THEN queue[i] ELSE outbox[i - Len(queue)]
  BY <1>1, ConcatProperties DEF Stream
<1>4. /\ Stream' \in Seq(E) /\ Len(Stream') = Len(queue') + Len(outbox)
      /\ \A i \in 1..Len(Stream') :
           Stream'[i] = IF i <= Len(queue') THEN queue'[i] ELSE outbox[i - Len(queue')]
  BY <1>1, <1>2, ConcatProperties DEF Stream
<1>5. Stream # <<>> /\ Head(Stream) = Stream[1] /\ Tail(Stream) \in Seq(E)
      /\ Len(Tail(Stream)) = Len(Stream) - 1
      /\ \A i \in 1..Len(Tail(Stream)) : Tail(Stream)[i] = Stream[i + 1]
  <2>1. Stream # <<>>
    BY <1>2, <1>3
  <2>2. Head(Stream) = Stream[1]
    BY <1>3, <2>1
  <2> QED  BY <1>3, <2>1, <2>2, HeadTailProperties
<1>6. Head(Stream) = Head(queue)
  BY <1>2, <1>3, <1>5
<1>7. Len(Tail(Stream)) = Len(Stream')
  BY <1>2, <1>3, <1>4, <1>5
<1>8. ASSUME NEW i \in 1..Len(Stream') PROVE Tail(Stream)[i] = Stream'[i]
  <2>1. Tail(Stream)[i] = Stream[i + 1] /\ i + 1 \in 1..Len(Stream)
    BY <1>3, <1>5, <1>7
  <2>2. CASE i <= Len(queue')
    <3>1. Stream[i + 1] = queue[i + 1] /\ queue'[i] = queue[i + 1]
      BY <1>2, <1>3, <2>1, <2>2
    <3> QED  BY <1>4, <2>1, <2>2, <3>1
  <2>3. CASE ~(i <= Len(queue'))
    <3>1. ~(i + 1 <= Len(queue)) /\ (i + 1) - Len(queue) = i - Len(queue')
      BY <1>2, <2>3
    <3>2. Stream[i + 1] = outbox[(i + 1) - Len(queue)]
      BY <1>3, <2>1, <3>1
    <3>3. Stream'[i] = outbox[i - Len(queue')]
      BY <1>4, <2>3
    <3> QED  BY <2>1, <3>1, <3>2, <3>3
  <2> QED  BY <2>2, <2>3
<1>9. Tail(Stream) = Stream'
  <2> HIDE DEF E
  <2>1. Stream' \in Seq(E) /\ Tail(Stream) \in Seq(E)
    BY <1>4, <1>5
  <2>2. \A i \in 1..Len(Tail(Stream)) : Tail(Stream)[i] = Stream'[i]
    BY <1>7, <1>8
  <2> QED  BY <1>7, <2>1, <2>2, SeqEqual
<1> QED  BY <1>3, <1>5, <1>6, <1>9 DEF E

\* Putting an event leaves what is under way as it is.
LEMMA StreamPut ==
  ASSUME Types, Put
  PROVE  Stream' = Stream
<1> DEFINE E == Events \cup {None}
<1>1. /\ queue \in Seq(E) /\ outbox \in Seq(E) /\ outbox # <<>>
      /\ queue' = Append(queue, Head(outbox)) /\ outbox' = Tail(outbox)
  BY DEF Types, Put
<1> HIDE DEF E
<1>2. /\ Head(outbox) \in E /\ Tail(outbox) \in Seq(E) /\ <<Head(outbox)>> \in Seq(E)
      /\ outbox = <<Head(outbox)>> \o Tail(outbox)
  <2>1. Len(outbox) \in Nat /\ Len(outbox) > 0 /\ Head(outbox) = outbox[1]
    BY <1>1, EmptySeq, LenProperties
  <2>2. SubSeq(outbox, 1, Len(outbox)) = <<outbox[1]>> \o SubSeq(outbox, 1 + 1, Len(outbox))
    BY <1>1, <2>1, SubSeqRecursiveFirst
  <2>3. SubSeq(outbox, 1, Len(outbox)) = outbox /\ Tail(outbox) = SubSeq(outbox, 1 + 1, Len(outbox))
    BY <1>1, <2>1, SubSeqFull, TailIsSubSeq
  <2>4. Head(outbox) \in E /\ Tail(outbox) \in Seq(E)
    BY <1>1, HeadTailProperties
  <2> QED  BY <2>1, <2>2, <2>3, <2>4
<1>3. queue' = queue \o <<Head(outbox)>>
  BY <1>1, <1>2, AppendIsConcat
<1> QED  BY <1>1, <1>2, <1>3, ConcatAssociative DEF Stream

\* What was mapped is now under way as well.
LEMMA MappedFollows ==
  ASSUME Types, Delivery, Following, outbox = <<>>, outbox' \in Seq(Events),
         UNCHANGED <<queue, wire, shown>>,
         Leads(View(Mapped, step), outbox', View(Mapped', step'))
  PROVE  Delivery'
<1>1. Stream = queue /\ queue \in Seq(Events \cup {None}) /\ outbox' \in Seq(Events \cup {None})
  BY ConcatEmptySeq DEF Types, Stream
<1>2. Leads(View(wire, shown), queue, View(Mapped, step))
  BY <1>1 DEF Delivery
<1>3. Stream' = queue \o outbox'
  BY DEF Stream
<1>4. Leads(View(wire, shown), Stream', View(Mapped', step'))
  <2> HIDE DEF Stream, Mapped
  <2> QED  BY <1>1, <1>2, <1>3, LeadsOn
<1> QED  BY <1>4 DEF Delivery

\* The end of the stream is under way.
LEMMA EndAnnounced ==
  ASSUME Types, Delivery, Following, PutNone, outbox = <<>>
  PROVE  Delivery'
<1> DEFINE E == Events \cup {None}
<1>1. queue \in Seq(E) /\ queue' = queue \o <<None>> /\ Stream = queue /\ outbox' = <<>>
  BY AppendIsConcat, ConcatEmptySeq DEF PutNone, Types, Stream
<1>2. <<None>> \in Seq(E) /\ queue' \in Seq(E)
  BY <1>1, ConcatProperties
<1>3. Stream' = queue \o <<None>>
  BY <1>1, <1>2, ConcatEmptySeq DEF Stream
<1>4. Leads(View(Mapped, step), <<None>>, View(Mapped, step))
  <2>1. Takes(View(Mapped, step), None, View(Mapped, step))
    BY DEF Takes
  <2> QED  BY <2>1, LeadsOne
<1>5. Leads(View(wire, shown), queue, View(Mapped, step))
  BY <1>1 DEF Delivery
<1>6. Leads(View(wire, shown), Stream', View(Mapped, step))
  <2> HIDE DEF Stream, Mapped, E
  <2> QED  BY <1>1, <1>2, <1>3, <1>4, <1>5, LeadsOn
<1>7. UNCHANGED <<wire, shown, text, ended, step>>
  BY DEF PutNone, wireVars, adapterVars
<1> QED  BY <1>6, <1>7 DEF Delivery, Mapped

\* A step of the stream's reader shows the browser the next event.
LEMMA ReadFollows ==
  ASSUME Types, Delivery, Following, Read
  PROVE  Leads(View(wire', shown'), Stream', View(Mapped, step))
         /\ Takes(View(wire, shown), Head(queue), View(wire', shown'))
<1>1. /\ Stream # <<>> /\ Stream \in Seq(Events \cup {None})
      /\ Head(Stream) = Head(queue) /\ Tail(Stream) = Stream'
  BY StreamRead
<1>2. PICK v : Takes(View(wire, shown), Head(queue), v) /\ Leads(v, Stream', View(Mapped, step))
  <2>1. Leads(View(wire, shown), Stream, View(Mapped, step))
    BY DEF Delivery
  <2> HIDE DEF Stream, Mapped
  <2> QED  BY <1>1, <2>1, LeadsFirst
<1>3. v = View(wire', shown')
  <2>1. CASE Head(queue) = None
    <3>1. v = View(wire, shown)
      BY <1>2, <2>1 DEF Takes, Is
    <3> QED  BY <2>1, <3>1 DEF Read, wireVars
  <2>2. CASE Head(queue) # None
    BY <1>2, <2>2, ReadShows
  <2> QED  BY <2>1, <2>2
<1> QED  BY <1>2, <1>3

LEMMA DeliveryKept ==
  ASSUME IndInv, [Next]_vars
  PROVE  Delivery'
<1> USE DEF IndInv
<1> DEFINE Same == UNCHANGED <<wire, shown, text, ended, step>>
<1>1. ASSUME Same, Stream' = Stream, Following' => Following
      PROVE  Delivery'
  BY <1>1 DEF Delivery, Mapped
<1>2. outbox' \in Seq(Events)
  BY TypesKept DEF Types
<1>3. CASE EngineWrites
  BY <1>1, <1>3, SessionGrows DEF Stream, Following, pollVars, adapterVars, consumerVars, wireVars
<1>4. CASE EngineEnd \/ ReadCompleted \/ ListReturns \/ ListRaises \/ FinishingEnd
  BY <1>1, <1>4 DEF EngineEnd, ReadCompleted, ListReturns, ListRaises, FinishingEnd, Stream, Following,
                    pollVars, adapterVars, consumerVars, wireVars
<1>5. CASE MapNext
  <2>1. PICK m \in DOMAIN batch : MapMessage(m, batch[m]) \/ MapStatus(batch[m])
    BY <1>5 DEF MapNext
  <2>2. /\ outbox = <<>> /\ producer = "mapping" /\ UNCHANGED <<queue, wire, shown>>
        /\ Following' = Following
    BY <1>5 DEF MapNext, consumerVars, wireVars, Following
  <2>3. SUFFICES ASSUME Following
                 PROVE  Leads(View(Mapped, step), outbox', View(Mapped', step'))
    <3>1. CASE ~Following
      BY <2>2, <3>1 DEF Delivery
    <3> QED  BY <1>2, <2>2, <2>3, <3>1, MappedFollows
  <2>4. ASSUME UNCHANGED <<text, ended>> PROVE Mapped' = Mapped
    BY <2>4 DEF Mapped
  <2>5. Leads(View(Mapped, step), <<>>, View(Mapped, step))
    BY LeadsNowhere
  <2>6. CASE MapMessage(m, batch[m])
    <3>1. /\ m \in Offsets /\ batch[m] \in Messages /\ step' = step
          /\ \/ UNCHANGED <<outbox, text, ended>>
             \/ /\ m \notin ended /\ ~NotAppendOnly(m, batch[m])
                /\ outbox' = TextEvents(m, batch[m])
                /\ text' = [k \in DOMAIN text \cup {m} |-> IF k = m THEN TextOf(batch[m]) ELSE text[k]]
                /\ ended' = IF batch[m].closed THEN ended \cup {m} ELSE ended
      BY <1>5, <2>6, MapMessageFacts DEF MapMessage
    <3>2. CASE UNCHANGED <<outbox, text, ended>>
      BY <2>2, <2>4, <2>5, <3>1, <3>2
    <3>3. CASE ~UNCHANGED <<outbox, text, ended>>
      BY <3>1, <3>3, TextShown
    <3> QED  BY <3>2, <3>3
  <2>7. CASE MapStatus(batch[m])
    <3>1. Mapped' = Mapped
      BY <2>4, <2>7 DEF MapStatus
    <3> HIDE DEF Mapped, Leads, FinishSteps, StatusSequence
    <3>2. /\ Leads(View(Mapped, step), FinishSteps, View(Mapped, None))
          /\ \A s \in Steps : Leads(View(Mapped, step), StatusSequence(s), View(Mapped, s))
          /\ Leads(View(Mapped, step), FinishSteps \o <<[type |-> "RUN_ERROR"]>>, View(Mapped, None))
      BY StepFinishes, StatusShown
    <3> QED  BY <2>2, <2>5, <2>7, <3>1, <3>2 DEF MapStatus
  <2> QED  BY <2>1, <2>6, <2>7
<1>6. CASE Put
  <2>1. Stream' = Stream
    BY <1>6, StreamPut
  <2> QED  BY <1>1, <1>6, <2>1 DEF Put, Following, adapterVars, consumerVars, wireVars
<1>7. CASE PollEnd
  <2>1. /\ outbox = <<>> /\ UNCHANGED <<queue, wire, shown, text, ended>> /\ Following' = Following
        /\ \/ UNCHANGED <<outbox, step>>
           \/ outbox' = FinishSteps /\ step' = None
    BY <1>7 DEF PollEnd, consumerVars, wireVars, Following
  <2>2. Mapped' = Mapped
    BY <2>1 DEF Mapped
  <2>3. Leads(View(Mapped, step), outbox', View(Mapped', step'))
    <3> HIDE DEF Mapped
    <3> QED  BY <2>1, <2>2, LeadsNowhere, StepFinishes
  <2>4. CASE Following
    BY <1>2, <2>1, <2>3, <2>4, MappedFollows
  <2>5. CASE ~Following
    BY <2>1, <2>5 DEF Delivery
  <2> QED  BY <2>4, <2>5
<1>8. CASE PutNone
  <2>1. outbox = <<>> /\ Following' = Following
    BY <1>8 DEF PutNone, Control, Following, consumerVars
  <2>2. CASE Following
    BY <1>8, <2>1, <2>2, EndAnnounced
  <2>3. CASE ~Following
    BY <2>1, <2>3 DEF Delivery
  <2> QED  BY <2>2, <2>3
<1>9. CASE Read
  <2>1. Following /\ UNCHANGED <<text, ended, step>>
    BY <1>9 DEF Read, Following, adapterVars
  <2>2. Mapped' = Mapped
    BY <2>1 DEF Mapped
  <2>3. Leads(View(wire', shown'), Stream', View(Mapped, step))
    BY <1>9, <2>1, ReadFollows
  <2> QED  BY <2>1, <2>2, <2>3 DEF Delivery
<1>10. CASE Join \/ RunTimeout \/ RunCancelled
  <2>1. /\ UNCHANGED <<outbox, queue, adapterVars, wireVars>> /\ Following
    BY <1>10 DEF Join, RunTimeout, RunCancelled, Leave, Following
  <2> QED  BY <1>1, <2>1 DEF Stream, adapterVars, wireVars
<1>11. CASE TimeoutInCleanup \/ Finish \/ UNCHANGED vars
  <2>1. UNCHANGED <<outbox, queue, adapterVars, wire, shown>> /\ (Following' => Following)
    BY <1>11 DEF TimeoutInCleanup, Finish, vars, Following, pollVars, consumerVars, wireVars
  <2> QED  BY <1>1, <2>1 DEF Stream, adapterVars
<1> QED
  BY <1>3, <1>4, <1>5, <1>6, <1>7, <1>8, <1>9, <1>10, <1>11
  DEF Next, ProducerStep, Terminated

-----------------------------------------------------------------------------
(* The theorems.                                                           *)

LEMMA InitIsInductive ==
  ASSUME Init
  PROVE  IndInv
<1>1. Types
  <2>1. /\ <<>> \in Seq(Records) /\ <<>> \in Seq(Events) /\ <<>> \in Seq(Events \cup {None})
        /\ <<>> \in Seq({"error", "finished"}) /\ Len(<<>>) = 0 /\ DOMAIN <<>> = {}
    BY EmptySeq
  <2>2. \A S : <<>> \in [{} -> S]
    BY <2>1
  <2>3. /\ store \in Seq(Records) /\ outbox \in Seq(Events) /\ queue \in Seq(Events \cup {None})
        /\ terminal \in Seq({"error", "finished"}) /\ Len(store) = 0 /\ Len(queue) = 0
    BY <2>1 DEF Init
  <2>4. /\ batch \in [DOMAIN batch -> Records] /\ DOMAIN batch = {}
        /\ text \in [DOMAIN text -> Texts] /\ DOMAIN text = {}
        /\ wire \in [DOMAIN wire -> [text : Texts, ended : BOOLEAN]] /\ DOMAIN wire = {}
    BY <2>1, <2>2 DEF Init
  <2>5. /\ engine = "running" /\ producer = "check" /\ consumer = "reading" /\ cause = "none"
        /\ completed = FALSE /\ failing = FALSE /\ failed = FALSE /\ timedOut = FALSE
        /\ offset = 1 /\ open = {} /\ ended = {} /\ step = None /\ shown = None /\ cancels = 0
    BY DEF Init
  <2>6. 0 <= MaxEvents /\ 0 <= QueueCap /\ 1 \in 1..(MaxEvents + 1)
    BY ConstantsAssumption
  <2> HIDE DEF Records, Events, Texts
  <2>7. /\ engine \in EngineOver \cup {"running", "cancelling"}
        /\ producer \in ProducerOver \cup {"check", "listing", "mapping", "finishing", "closing"}
        /\ consumer \in {"reading", "joining", "cleanup", "over"}
        /\ cause \in {"none", "ok", "error", "timeout", "cancelled"}
        /\ step \in Steps \cup {None} /\ shown \in Steps \cup {None} /\ cancels \in 0..2
    BY <2>5
  <2>8. /\ completed \in BOOLEAN /\ failing \in BOOLEAN /\ failed \in BOOLEAN /\ timedOut \in BOOLEAN
        /\ offset \in 1..(MaxEvents + 1) /\ open \subseteq Offsets /\ ended \subseteq Offsets
    BY <2>5, <2>6
  <2>9. /\ Len(store) <= MaxEvents /\ Len(queue) <= QueueCap
        /\ DOMAIN batch \subseteq Offsets /\ DOMAIN text \subseteq Offsets /\ DOMAIN wire \subseteq Offsets
        /\ \A m \in DOMAIN text : Written(text[m])
    BY <2>3, <2>4, <2>6
  <2> QED  BY ONLY <2>3, <2>4, <2>7, <2>8, <2>9 DEF Types
<1>2. Control /\ LastPoll
  BY DEF Init, Control, LastPoll
<1>4. Session
  BY DEF Init, Session, IsMessage, Offsets
<1>5. Terminals
  BY DEF Init, Terminals
<1>3. Delivery
  <2>1. Stream = <<>> /\ Mapped = <<>> /\ wire = <<>> /\ shown = step
    BY DEF Init, Stream, Mapped
  <2> HIDE DEF Stream, Mapped
  <2> QED  BY <2>1, LeadsNowhere DEF Delivery
<1> QED  BY <1>1, <1>2, <1>3, <1>4, <1>5 DEF IndInv

\* IndInv holds throughout: the tasks, the session, the last poll, the events
\* under way and the ends of the run stay in step, whatever fails when.
THEOREM InductiveInvariant == Spec => []IndInv
<1>1. IndInv /\ [Next]_vars => IndInv'
  BY TypesKept, ControlKept, SessionKept, LastPollKept, DeliveryKept, TerminalsKept DEF IndInv
<1> QED  BY <1>1, InitIsInductive, PTL DEF Spec

\* Every variable has its type, and the queue never exceeds its bound.
THEOREM TypeCorrect == Spec => []TypeOK
<1>1. IndInv => TypeOK
  BY DEF IndInv, Types, TypeOK
<1> QED  BY <1>1, InductiveInvariant, PTL

\* RUN_FINISHED and RUN_ERROR exclude each other, for every number of events,
\* every queue bound and every interleaving of engine, producer and consumer.
THEOREM OneTerminal == Spec => []NoFinishAfterError
<1>1. IndInv => NoFinishAfterError
  <2> SUFFICES ASSUME IndInv PROVE NoFinishAfterError
    OBVIOUS
  <2>1. DOMAIN terminal = 1..Len(terminal)
    BY DEF IndInv, Types
  <2> QED  BY <2>1 DEF IndInv, Terminals, NoFinishAfterError
<1> QED  BY <1>1, InductiveInvariant, PTL

\* When RUN_FINISHED is sent, the browser has the whole text of every message
\* the engine wrote, each one ended, and no step open.
THEOREM FinishTellsTheTruth == Spec => []FinishedMeansDelivered
<1>1. IndInv => FinishedMeansDelivered
  <2> SUFFICES ASSUME IndInv, NEW i \in DOMAIN terminal, terminal[i] = "finished"
               PROVE  /\ engine = "done" /\ shown = None
                      /\ \A m \in Offsets : IsMessage(m) =>
                           m \in DOMAIN wire /\ wire[m].ended /\ wire[m].text = TextOf(store[m])
    BY DEF FinishedMeansDelivered
  <2> USE DEF IndInv
  <2>1. cause = "ok" /\ ~failed
    <3>1. DOMAIN terminal = 1..Len(terminal)
      BY DEF Types
    <3> QED  BY <3>1 DEF Terminals
  <2>2. queue = <<>> /\ outbox = <<>> /\ producer = "done" /\ ~failing
    BY <2>1 DEF Control
  <2>3. engine = "done" /\ step = None /\ \A m \in Offsets : IsMessage(m) => m \in ended
    BY <2>1, <2>2 DEF LastPoll
  <2>4. wire = Mapped /\ shown = step
    <3>1. Stream = <<>>
      BY <2>2 DEF Stream
    <3>2. View(wire, shown) = View(Mapped, step)
      BY <2>1, <3>1, LeadsNowhere DEF Delivery, Following
    <3> HIDE DEF Mapped
    <3> QED  BY <3>2 DEF View
  <2>5. ASSUME NEW m \in ended
        PROVE  m \in DOMAIN wire /\ wire[m].ended /\ wire[m].text = TextOf(store[m])
    BY <2>4, <2>5 DEF Mapped, Session
  <2> QED  BY <2>3, <2>4, <2>5
<1> QED  BY <1>1, InductiveInvariant, PTL

\* What the browser shows changes only when it is read from the queue.
LEMMA OnlyReadShows ==
  ASSUME IndInv, [Next]_vars, wire' # wire \/ shown' # shown
  PROVE  Read
<1>1. EngineWrites => UNCHANGED wireVars
  BY SessionGrows DEF IndInv
<1> QED
  BY <1>1 DEF Next, ProducerStep, EngineEnd, ReadCompleted, ListReturns, MapNext, Put, PollEnd, FinishingEnd,
     PutNone, ListRaises, Join, RunTimeout, RunCancelled, Leave, TimeoutInCleanup, Finish, Terminated, vars,
     wireVars

\* What the browser has of a message is never taken back, replaced or added
\* to after its end, however the SDK streams, rewrites and closes it.
THEOREM TextOnlyAppended == Spec => TextAppendOnly
<1>1. ASSUME IndInv, [Next]_vars, wire' # wire, NEW m \in DOMAIN wire
      PROVE  /\ m \in DOMAIN wire'
             /\ wire[m].ended => wire'[m] = wire[m]
             /\ wire'[m].text.chunks >= wire[m].text.chunks
             /\ wire[m].text.chunks > 0 => wire'[m].text.rewritten = wire[m].text.rewritten
  <2> USE DEF IndInv
  <2>1. Read
    BY <1>1, OnlyReadShows
  <2>2. PICK e : Takes(View(wire, shown), e, View(wire', shown'))
    <3>1. Types /\ Delivery /\ Following
      BY <1>1, <2>1 DEF Read, Following
    <3> QED  BY <2>1, <3>1, ReadFollows
  <2>3. wire[m] \in [text : Texts, ended : BOOLEAN]
    BY <1>1 DEF Types
  <2>4. /\ wire[m].text.chunks \in Nat /\ wire[m].text \in Texts
        /\ wire = [k \in DOMAIN wire |-> wire[k]]
    <3>1. wire[m].text \in Texts
      BY <2>3
    <3>2. wire[m].text.chunks \in Nat
      BY <3>1, ConstantsAssumption DEF Texts
    <3>3. wire = [k \in DOMAIN wire |-> wire[k]]
      BY <1>1 DEF Types
    <3> QED  BY <3>1, <3>2, <3>3
  <2>5. CASE Is(e, "START") /\ e.id \notin DOMAIN wire /\ wire' = [k \in DOMAIN wire \cup {e.id} |->
                    IF k = e.id THEN [text |-> NoText, ended |-> FALSE] ELSE wire[k]]
    BY <1>1, <2>4, <2>5
  <2>6. CASE /\ e.id \in DOMAIN wire /\ ~wire[e.id].ended /\ Extends(wire[e.id].text, e.text)
             /\ wire' = [wire EXCEPT ![e.id].text = e.text]
    <3>1. CASE m = e.id
      <4>1. wire'[m].text = e.text /\ m \in DOMAIN wire'
        BY <2>3, <2>4, <2>6, <3>1
      <4> QED  BY <2>4, <2>6, <3>1, <4>1 DEF Extends
    <3>2. CASE m # e.id
      BY <1>1, <2>4, <2>6, <3>2
    <3> QED  BY <3>1, <3>2
  <2>7. CASE /\ e.id \in DOMAIN wire /\ ~wire[e.id].ended
             /\ wire' = [wire EXCEPT ![e.id].ended = TRUE]
    <3>1. CASE m = e.id
      <4>1. wire'[m].text = wire[m].text /\ m \in DOMAIN wire'
        BY <2>3, <2>4, <2>7, <3>1
      <4> QED  BY <2>4, <2>7, <3>1, <4>1
    <3>2. CASE m # e.id
      BY <1>1, <2>4, <2>7, <3>2
    <3> QED  BY <3>1, <3>2
  <2> QED  BY <1>1, <2>2, <2>5, <2>6, <2>7 DEF Takes, View
<1>2. IndInv /\ [Next]_vars => [\A m \in DOMAIN wire :
        /\ m \in DOMAIN wire'
        /\ wire[m].ended => wire'[m] = wire[m]
        /\ wire'[m].text.chunks >= wire[m].text.chunks
        /\ wire[m].text.chunks > 0 => wire'[m].text.rewritten = wire[m].text.rewritten]_wire
  BY <1>1
<1> QED  BY <1>2, InductiveInvariant, PTL DEF Spec, TextAppendOnly

\* The browser never shows a step before the one it shows was finished.
THEOREM OneStepAtATime == Spec => StepsBalanced
<1>1. IndInv /\ [Next]_vars => [shown # None => shown' = None]_shown
  <2> SUFFICES ASSUME IndInv, [Next]_vars, shown' # shown, shown # None
               PROVE  shown' = None
    OBVIOUS
  <2>1. Read
    BY OnlyReadShows
  <2>2. PICK e : Takes(View(wire, shown), e, View(wire', shown'))
    BY <2>1, ReadFollows DEF Read, Following, IndInv
  <2> QED  BY <2>2 DEF Takes, View
<1> QED  BY <1>1, InductiveInvariant, PTL DEF Spec, StepsBalanced

=============================================================================
