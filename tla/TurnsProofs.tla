----------------------------- MODULE TurnsProofs -----------------------------
(***************************************************************************)
(* Theorems about Turns: the events tell the stored state, a revision      *)
(* names one state, and a message is posted once.                          *)
(***************************************************************************)
EXTENDS Turns, TLAPS

OneRun == \A t, o \in Tabs : pc[t] # "idle" /\ pc[o] # "idle" => t = o

\* A run updates while it is at its events, a receipt while the agent works,
\* one at a time; the state that is being told is the stored one.
Jobs ==
  /\ \A t \in Tabs : job[t] # NoJob <=> pc[t] = "events"
  /\ \A c \in Calls : job[c] # NoJob =>
       /\ \E t \in Tabs : pc[t] = "processing"
       /\ \A d \in Calls : job[d] # NoJob => d = c
  /\ \A u \in Updaters : job[u] # NoJob => job[u].state = stored

\* A state that a run has found to be the stored one, and may acknowledge.
Repeated(t) ==
  /\ sent[t] # None => pc[t] \in {"reading", "sync", "ready", "processing"}
  /\ sent[t] # None /\ pc[t] \in {"ready", "processing"} =>
       /\ sent[t].kind = "snapshot" /\ sent[t].version <= stored.version
       /\ sent[t].version = stored.version => sent[t].content = stored.content
       /\ \A a \in acked : a.version = sent[t].version => a.content = sent[t].content

\* What a run knows of its message stays true until it posts it.
Known(t) ==
  /\ pc[t] \in {"sync", "events", "ready"} =>
       IF fresh[t] THEN msg[t] # None /\ posted[msg[t]] = 0
       ELSE msg[t] # None => posted[msg[t]] = 1
  /\ pc[t] = "processing" => msg[t] # None /\ posted[msg[t]] = 1

\* EventsTellState, over the updates in progress.
Told ==
  \A f \in Facts :
    f \in lost \/ (\E u \in Updaters : job[u] # NoJob /\ f \in job[u].due) \/ Agrees(f)

IndInv ==
  /\ TypeOK /\ OneRun /\ Jobs
  /\ Told /\ RevisionNamesOneState /\ MessageOnce
  /\ \A t \in Tabs : Repeated(t) /\ Known(t)

-----------------------------------------------------------------------------
(* Operators.                                                              *)

\* The facts whose event is outstanding.
LEMMA InDues ==
  ASSUME NEW w
  PROVE  \A f : f \in Dues(w) <=> \E u \in w : job[u] # NoJob /\ f \in job[u].due
  BY DEF Dues

\* What a commit does: the revision advances by one, and the updater owes the
\* events of what differs.
LEMMA CommitFacts ==
  ASSUME TypeOK, NEW u \in Updaters, NEW s \in Updates, Commit(u, s)
  PROVE  /\ stored' \in States /\ stored'.version = stored.version + 1
         /\ stored.version \in Nat /\ stored'.version \in Nat
         /\ job' = [job EXCEPT ![u] = [due |-> Diff(stored.content, stored'.content),
                                       state |-> stored']]
         /\ Diff(stored.content, stored'.content) \in SUBSET Facts
<1>1. stored' = Result(s) /\ stored \in States /\ stored.content \in Content
  BY DEF Commit, TypeOK, States
<1>2. stored.version \in Nat /\ stored.version \in 0 .. MaxVersion
  BY <1>1, ConstantsAssumption DEF States
<1>3. stored.version + 1 \in 0 .. MaxVersion
  BY <1>2, ConstantsAssumption DEF Commit, Admissible
<1>4. Result(s).content \in Content
  <2>1. CASE s.kind = "snapshot"
    <3>1. s \in Snapshots
      BY <2>1 DEF Updates, Deltas
    <3>2. QED
      BY <2>1, <3>1 DEF Result, Snapshots
  <2>2. CASE s.kind # "snapshot"
    <3>1. s \in Deltas
      BY <2>2 DEF Updates, Snapshots
    <3>2. s.changes \in Patches
      BY <3>1 DEF Deltas
    <3>3. Merged(stored.content, s.changes) \in Content
      BY <1>1, <3>2, ConstantsAssumption DEF Merged, Content
    <3>4. QED
      BY <2>2, <3>3 DEF Result
  <2>3. QED
    BY <2>1, <2>2
<1>5. Result(s) \in States /\ Result(s).version = stored.version + 1
  BY <1>3, <1>4 DEF Result, States
<1>6. QED
  BY <1>1, <1>2, <1>3, <1>5 DEF Commit, Diff

\* What is left of the updates when some are cut.
LEMMA CutFacts ==
  ASSUME TypeOK, NEW w \in SUBSET Updaters, Cut(w)
  PROVE  /\ job' \in [Updaters -> [due : SUBSET Facts, state : States] \cup {NoJob}]
         /\ \A u \in Updaters : job'[u] = IF u \in w THEN NoJob ELSE job[u]
         /\ lost' \in SUBSET Facts /\ lost \subseteq lost'
         /\ \A u \in w : job[u] # NoJob => job[u].due \subseteq lost'
<1>1. \A u \in Updaters : job'[u] = IF u \in w THEN NoJob ELSE job[u]
  BY DEF Cut
<1>2. \A f : f \in lost' <=> f \in lost \/ \E u \in w : job[u] # NoJob /\ f \in job[u].due
  BY InDues DEF Cut
<1>3. QED
  BY <1>1, <1>2 DEF Cut, TypeOK

-----------------------------------------------------------------------------
(* Types.                                                                  *)

\* Every step keeps the types.
LEMMA TypesKept ==
  ASSUME TypeOK, [Next]_vars, \A t \in Tabs : Repeated(t), \A t \in Tabs : Known(t), Jobs
  PROVE  TypeOK'
<1> DEFINE Places == {"idle", "reading", "sync", "events", "ready", "processing"}
<1>1. \A t \in Tabs : t \in Updaters
  BY DEF Updaters
<1>2. ASSUME NEW t \in Tabs, NEW m \in Messages \cup {None}, NEW s \in Updates \cup {None},
             Start(t, m, s)
      PROVE  TypeOK'
  BY <1>2 DEF Start, Go, agent, history, TypeOK
<1>3. ASSUME NEW t \in Tabs, ReadHistory(t) PROVE TypeOK'
  BY <1>3 DEF ReadHistory, Go, agent, history, TypeOK
<1>4. ASSUME NEW t \in Tabs, Sync(t) PROVE TypeOK'
  <2>1. CASE /\ Go(t, "ready") /\ UNCHANGED <<stored, job, sent>>
             /\ UNCHANGED <<agent, history, acked, msg, fresh>>
    BY <2>1 DEF Go, agent, history, TypeOK
  <2>2. CASE /\ sent[t] # None /\ Commit(t, sent[t])
             /\ Go(t, "events") /\ sent' = [sent EXCEPT ![t] = None]
             /\ UNCHANGED <<agent, history, acked, msg, fresh>>
    <3>1. sent[t] \in Updates
      BY <2>2 DEF TypeOK
    <3>2. /\ stored' \in States
          /\ job' \in [Updaters -> [due : SUBSET Facts, state : States] \cup {NoJob}]
      BY <1>1, <2>2, <3>1, CommitFacts DEF TypeOK
    <3>3. QED
      BY <2>2, <3>2 DEF Go, agent, history, TypeOK
  <2>3. QED
    BY <1>4, <2>1, <2>2 DEF Sync
<1>5. ASSUME NEW t \in Tabs, Post(t) PROVE TypeOK'
  <2>1. msg[t] \in Messages
    BY <1>5 DEF Post, TypeOK, Known
  <2>2. QED
    BY <1>5, <2>1 DEF Post, Go, agent, request, TypeOK
<1>6. ASSUME NEW t \in Tabs, Finish(t) PROVE TypeOK'
  <2>1. ASSUME sent[t] # None
        PROVE  [version |-> sent[t].version, content |-> sent[t].content] \in States
    <3>1. sent[t] \in Snapshots /\ sent[t].version <= stored.version
      BY <1>6, <2>1 DEF Finish, Repeated, TypeOK, Updates, Deltas
    <3>2. stored.version \in 0 .. MaxVersion /\ sent[t].version \in 0 .. MaxVersion + 1
      BY <3>1 DEF TypeOK, States, Snapshots
    <3>3. sent[t].version \in 0 .. MaxVersion
      BY <3>1, <3>2, ConstantsAssumption
    <3>4. QED
      BY <3>1, <3>3 DEF States, Snapshots
  <2>2. acked' \subseteq States /\ answered' \subseteq Messages
    BY <1>6, <2>1 DEF Finish, TypeOK
  <2>3. QED
    BY <1>6, <2>2 DEF Finish, Leave, Go, agent, TypeOK
<1>7. ASSUME NEW t \in Tabs, Abort(t) PROVE TypeOK'
  <2>1. {t} \cup Calls \in SUBSET Updaters
    BY DEF Updaters
  <2>2. QED
    BY <1>7, <2>1, CutFacts DEF Abort, CutRun, Leave, Go, history, TypeOK
<1>8. ASSUME NEW u \in Updaters, CreateEvent(u) PROVE TypeOK'
  <2>1. PICK f \in Facts :
          /\ job[u] # NoJob
          /\ told' = IF f = "page" THEN [told EXCEPT !.page = job[u].state.content.page]
                     ELSE [told EXCEPT !.id = job[u].state.content.id,
                                       !.variant = job[u].state.content.variant]
          /\ lost' = lost \ {f} /\ job' = [job EXCEPT ![u].due = @ \ {f}]
          /\ UNCHANGED <<stored, history, acked, pc, request>>
    BY <1>8 DEF CreateEvent
  <2>2. job[u] \in [due : SUBSET Facts, state : States] /\ job[u].state.content \in Content
    BY <2>1 DEF TypeOK, States
  <2>3. told' \in Content
    BY <2>1, <2>2 DEF TypeOK, Content
  <2>4. QED
    BY <2>1, <2>2, <2>3 DEF TypeOK, history, request
<1>9. ASSUME NEW u \in Updaters, Deliver(u) PROVE TypeOK'
  <2>1. job[u] \in [due : SUBSET Facts, state : States]
    BY <1>9 DEF Deliver, TypeOK
  <2>2. QED
    BY <1>9, <2>1 DEF Deliver, agent, history, request, TypeOK
<1>10. ASSUME NEW c \in Calls, NEW s \in Updates, Receive(c, s) PROVE TypeOK'
  <2>1. /\ stored' \in States
        /\ job' \in [Updaters -> [due : SUBSET Facts, state : States] \cup {NoJob}]
    BY <1>10, CommitFacts DEF Receive, TypeOK, Updaters
  <2>2. QED
    BY <1>10, <2>1 DEF Receive, agent, history, request, TypeOK
<1>11. ASSUME NEW c \in Calls, CutReceipt(c) PROVE TypeOK'
  <2>1. {c} \in SUBSET Updaters
    BY DEF Updaters
  <2>2. QED
    BY <1>11, <2>1, CutFacts DEF CutReceipt, history, request, TypeOK
<1>12. CASE Restart
  <2>1. Dues(Updaters) \subseteq Facts
    BY InDues DEF TypeOK
  <2>2. stored' \in States
    BY <1>12, ConstantsAssumption DEF Restart, States, Content, Default
  <2>3. QED
    BY <1>12, <2>1, <2>2 DEF Restart, history, TypeOK, Facts
<1>13. CASE UNCHANGED vars
  BY <1>13 DEF vars, agent, history, request, TypeOK
<1>14. QED
  BY <1>2, <1>3, <1>4, <1>5, <1>6, <1>7, <1>8, <1>9, <1>10, <1>11, <1>12, <1>13 DEF Next

-----------------------------------------------------------------------------
(* Runs and updates.                                                       *)

\* Every step keeps one run and one update at a time.
LEMMA ControlKept ==
  ASSUME IndInv, TypeOK', [Next]_vars
  PROVE  OneRun' /\ Jobs'
<1> USE DEF IndInv
<1>1. /\ \A t \in Tabs : t \in Updaters /\ t \notin Calls
      /\ \A c \in Calls : c \in Updaters /\ c \notin Tabs
      /\ \A u \in Updaters : u \in Tabs \/ u \in Calls
  BY ConstantsAssumption DEF Updaters
<1>2. \A u, v \in Updaters : job[u] # NoJob /\ job[v] # NoJob => u = v
  BY <1>1 DEF OneRun, Jobs
<1>3. ASSUME NEW t \in Tabs, NEW m \in Messages \cup {None}, NEW s \in Updates \cup {None},
             Start(t, m, s)
      PROVE  OneRun' /\ Jobs'
  BY <1>3 DEF Start, Reservable, Go, OneRun, Jobs, TypeOK
<1>4. ASSUME NEW t \in Tabs, ReadHistory(t) \/ Post(t) PROVE OneRun' /\ Jobs'
  BY <1>1, <1>4 DEF ReadHistory, Post, Go, request, OneRun, Jobs, TypeOK
<1>5. ASSUME NEW t \in Tabs, Sync(t) PROVE OneRun' /\ Jobs'
  <2>1. \A u \in Updaters : job[u] = NoJob
    BY <1>1, <1>5 DEF Sync, OneRun, Jobs
  <2>2. CASE Go(t, "ready") /\ UNCHANGED <<stored, job, sent>>
    BY <1>5, <2>1, <2>2 DEF Sync, Go, OneRun, Jobs, TypeOK
  <2>3. CASE sent[t] # None /\ Commit(t, sent[t]) /\ Go(t, "events")
    <3>1. sent[t] \in Updates
      BY <2>3 DEF TypeOK
    <3>2. \A u \in Updaters : job'[u] = IF u = t THEN job'[t] ELSE NoJob
      BY <1>1, <2>1, <2>3, <3>1, CommitFacts DEF TypeOK
    <3>3. job'[t] # NoJob /\ job'[t].state = stored'
      BY <1>1, <2>3, <3>1, CommitFacts, ConstantsAssumption DEF TypeOK, NoJob
    <3>4. OneRun'
      BY <1>5, <2>3 DEF Sync, Go, OneRun, TypeOK
    <3>5. Jobs'
      BY <1>1, <1>5, <2>3, <3>2, <3>3 DEF Sync, Go, OneRun, Jobs, TypeOK
    <3>6. QED
      BY <3>4, <3>5
  <2>4. QED
    BY <1>5, <2>2, <2>3 DEF Sync
<1>6. ASSUME NEW t \in Tabs, Finish(t) PROVE OneRun' /\ Jobs'
  <2>1. \A c \in Calls : job[c] = NoJob
    BY <1>6 DEF Finish, OneRun, Jobs
  <2>2. QED
    BY <1>6, <2>1 DEF Finish, Leave, Go, OneRun, Jobs, TypeOK
<1>7. ASSUME NEW t \in Tabs, Abort(t) PROVE OneRun' /\ Jobs'
  <2>1. {t} \cup Calls \in SUBSET Updaters
    BY <1>1
  <2>2. \A u \in Updaters : job'[u] = IF u \in {t} \cup Calls THEN NoJob ELSE job[u]
    BY <1>7, <2>1, CutFacts DEF Abort, CutRun
  <2>3. QED
    BY <1>1, <1>7, <2>2 DEF Abort, Leave, Go, OneRun, Jobs, TypeOK
<1>8. ASSUME NEW u \in Updaters, CreateEvent(u) PROVE OneRun' /\ Jobs'
  <2>1. PICK f \in Facts : /\ job[u] # NoJob /\ job' = [job EXCEPT ![u].due = @ \ {f}]
                           /\ UNCHANGED <<stored, pc>>
    BY <1>8 DEF CreateEvent
  <2>2. /\ job[u] \in [due : SUBSET Facts, state : States]
        /\ job'[u] = [due |-> job[u].due \ {f}, state |-> job[u].state]
        /\ \A v \in Updaters \ {u} : job'[v] = job[v]
    BY <2>1 DEF TypeOK
  <2>3. job'[u] # NoJob /\ job'[u].state = job[u].state
    BY <2>2, ConstantsAssumption DEF NoJob
  <2>4. QED
    BY <1>1, <2>1, <2>2, <2>3 DEF OneRun, Jobs
<1>9. ASSUME NEW u \in Updaters, Deliver(u) PROVE OneRun' /\ Jobs'
  <2>1. /\ job[u] # NoJob /\ job' = [job EXCEPT ![u] = NoJob] /\ UNCHANGED stored
        /\ pc' = IF u \in Tabs THEN [pc EXCEPT ![u] = "ready"] ELSE pc
    BY <1>9 DEF Deliver
  <2>2. \A v \in Updaters : job'[v] = NoJob
    BY <1>2, <2>1 DEF TypeOK
  <2>3. u \in Tabs => pc[u] = "events"
    BY <2>1 DEF Jobs
  <2>4. QED
    BY <1>1, <2>1, <2>2, <2>3 DEF OneRun, Jobs, TypeOK
<1>10. ASSUME NEW c \in Calls, NEW s \in Updates, Receive(c, s) PROVE OneRun' /\ Jobs'
  <2>1. /\ \E t \in Tabs : pc[t] = "processing"
        /\ \A u \in Updaters : job[u] = NoJob
    BY <1>1, <1>10 DEF Receive, ReceiptMayEnter, OneRun, Jobs
  <2>2. /\ \A u \in Updaters : job'[u] = IF u = c THEN job'[c] ELSE NoJob
        /\ job'[c] # NoJob /\ job'[c].state = stored' /\ UNCHANGED pc
    BY <1>1, <1>10, <2>1, CommitFacts, ConstantsAssumption DEF Receive, TypeOK, NoJob
  <2>3. QED
    BY <1>1, <2>1, <2>2 DEF OneRun, Jobs
<1>11. ASSUME NEW c \in Calls, CutReceipt(c) PROVE OneRun' /\ Jobs'
  <2>1. \A u \in Updaters : job'[u] = IF u \in {c} THEN NoJob ELSE job[u]
    BY <1>1, <1>11, CutFacts DEF CutReceipt
  <2>2. QED
    BY <1>1, <1>11, <2>1 DEF CutReceipt, OneRun, Jobs
<1>12. CASE Restart
  BY <1>1, <1>12 DEF Restart, OneRun, Jobs
<1>13. CASE UNCHANGED vars
  BY <1>13 DEF vars, OneRun, Jobs
<1>14. QED
  BY <1>3, <1>4, <1>5, <1>6, <1>7, <1>8, <1>9, <1>10, <1>11, <1>12, <1>13 DEF Next

-----------------------------------------------------------------------------
(* What the events tell.                                                   *)

\* What a step can do to the stored state and its events.
LEMMA StateStep ==
  ASSUME IndInv, [Next]_vars
  PROVE  \/ UNCHANGED <<stored, agent, job>>
         \/ \E u \in Updaters, s \in Updates :
              Commit(u, s) /\ UNCHANGED agent /\ \A v \in Updaters : job[v] = NoJob
         \/ \E w \in SUBSET Updaters : Cut(w) /\ UNCHANGED <<stored, told>>
         \/ \E u \in Updaters : CreateEvent(u) \/ Deliver(u)
         \/ Restart
<1>1. /\ \A t \in Tabs : t \in Updaters /\ t \notin Calls /\ {t} \cup Calls \in SUBSET Updaters
      /\ \A c \in Calls : c \in Updaters /\ {c} \in SUBSET Updaters
      /\ \A u \in Updaters : u \in Tabs \/ u \in Calls
  BY ConstantsAssumption DEF Updaters
<1> DEFINE Goal == \/ UNCHANGED <<stored, agent, job>>
                   \/ \E u \in Updaters, s \in Updates :
                        Commit(u, s) /\ UNCHANGED agent /\ \A v \in Updaters : job[v] = NoJob
                   \/ \E w \in SUBSET Updaters : Cut(w) /\ UNCHANGED <<stored, told>>
                   \/ \E u \in Updaters : CreateEvent(u) \/ Deliver(u)
                   \/ Restart
<1>2. ASSUME NEW t \in Tabs, Sync(t) PROVE Goal
  <2>1. \A u \in Updaters : job[u] = NoJob
    BY <1>1, <1>2 DEF Sync, IndInv, OneRun, Jobs
  <2>2. sent[t] # None => sent[t] \in Updates
    BY DEF IndInv, TypeOK
  <2>3. QED
    BY <1>1, <1>2, <2>1, <2>2 DEF Sync
<1>3. ASSUME NEW t \in Tabs, Abort(t) PROVE Goal
  BY <1>1, <1>3 DEF Abort, CutRun
<1>4. ASSUME NEW c \in Calls, NEW s \in Updates, Receive(c, s) PROVE Goal
  <2>1. \A u \in Updaters : job[u] = NoJob
    BY <1>1, <1>4 DEF Receive, ReceiptMayEnter, IndInv, OneRun, Jobs
  <2>2. QED
    BY <1>1, <1>4, <2>1 DEF Receive
<1>5. ASSUME NEW c \in Calls, CutReceipt(c) PROVE Goal
  BY <1>1, <1>5 DEF CutReceipt
<1>6. ASSUME NEW t \in Tabs,
             ReadHistory(t) \/ Post(t) \/ Finish(t)
             \/ \E m \in Messages \cup {None}, s \in Updates \cup {None} : Start(t, m, s)
      PROVE  Goal
  BY <1>6 DEF ReadHistory, Post, Finish, Start
<1>7. QED
  BY <1>2, <1>3, <1>4, <1>5, <1>6 DEF Next, vars

\* Every step keeps the events and the state together.
LEMMA ToldKept ==
  ASSUME IndInv, TypeOK', [Next]_vars
  PROVE  Told'
<1> USE DEF IndInv
<1>1. CASE UNCHANGED <<stored, agent, job>>
  BY <1>1 DEF Told, Agrees, agent
<1>2. ASSUME NEW u \in Updaters, NEW s \in Updates, Commit(u, s), UNCHANGED agent,
             \A v \in Updaters : job[v] = NoJob
      PROVE  Told'
  <2>1. /\ job'[u].due = Diff(stored.content, stored'.content) /\ job'[u] # NoJob
        /\ told' = told /\ lost' = lost
    BY <1>2, CommitFacts, ConstantsAssumption DEF TypeOK, agent, NoJob
  <2>2. ASSUME NEW f \in Facts, f \notin lost, f \notin Diff(stored.content, stored'.content)
        PROVE  Agrees(f)'
    <3>1. Agrees(f)
      BY <1>2, <2>2 DEF Told
    <3>2. QED
      BY <2>1, <2>2, <3>1 DEF Agrees, Diff, Facts
  <2>3. QED
    BY <2>1, <2>2 DEF Told
<1>3. ASSUME NEW w \in SUBSET Updaters, Cut(w), UNCHANGED <<stored, told>> PROVE Told'
  BY <1>3, CutFacts DEF Told, Agrees
<1>4. ASSUME NEW u \in Updaters, CreateEvent(u) PROVE Told'
  <2>1. PICK f \in Facts :
          /\ job[u] # NoJob
          /\ told' = IF f = "page" THEN [told EXCEPT !.page = job[u].state.content.page]
                     ELSE [told EXCEPT !.id = job[u].state.content.id,
                                       !.variant = job[u].state.content.variant]
          /\ lost' = lost \ {f} /\ job' = [job EXCEPT ![u].due = @ \ {f}]
          /\ stored' = stored
    BY <1>4 DEF CreateEvent
  <2>2. job[u].state = stored /\ told \in Content
    BY <2>1 DEF Jobs, TypeOK
  <2>3. Agrees(f)'
    BY <2>1, <2>2 DEF Agrees, Content
  <2>4. ASSUME NEW g \in Facts, g # f
        PROVE  Agrees(g)' <=> Agrees(g)
    BY <2>1, <2>2, <2>4 DEF Agrees, Content, Facts
  <2>5. ASSUME NEW g \in Facts, g # f, NEW v \in Updaters, job[v] # NoJob, g \in job[v].due
        PROVE  job'[v] # NoJob /\ g \in job'[v].due
    <3>1. job[u] \in [due : SUBSET Facts, state : States]
      BY <2>1 DEF TypeOK
    <3>2. /\ job'[u] = [due |-> job[u].due \ {f}, state |-> job[u].state]
          /\ v # u => job'[v] = job[v]
      BY <2>1, <3>1 DEF TypeOK
    <3>3. job'[u] # NoJob
      BY <3>1, <3>2, ConstantsAssumption DEF NoJob
    <3>4. QED
      BY <2>5, <3>2, <3>3
  <2>6. QED
    BY <2>1, <2>3, <2>4, <2>5 DEF Told
<1>5. ASSUME NEW u \in Updaters, Deliver(u) PROVE Told'
  <2>1. /\ job[u].due = {} /\ \A v \in Updaters \ {u} : job'[v] = job[v]
        /\ UNCHANGED <<stored, told, lost>>
    BY <1>5 DEF Deliver, agent, TypeOK
  <2>2. QED
    BY <2>1 DEF Told, Agrees
<1>6. CASE Restart
  <2>1. /\ stored'.content = Default /\ told' = told
        /\ told.page # Home => "page" \in lost'
    BY <1>6 DEF Restart, history
  <2>2. QED
    BY <2>1 DEF Told, Agrees, Default, Facts
<1>7. QED
  BY <1>1, <1>2, <1>3, <1>4, <1>5, <1>6, StateStep

-----------------------------------------------------------------------------
(* Revisions.                                                              *)

\* A step that leaves the stored state and what was acknowledged alone, and in
\* which a run that may acknowledge a state could do so before.
LEMMA NothingAcknowledged ==
  ASSUME IndInv, UNCHANGED <<stored, acked>>,
         \A t \in Tabs : sent'[t] # None =>
           sent'[t] = sent[t] /\ pc'[t] = pc[t]
  PROVE  RevisionNamesOneState' /\ \A t \in Tabs : Repeated(t)'
  BY DEF IndInv, RevisionNamesOneState, Repeated

\* A commit leaves what was acknowledged to older revisions.
LEMMA CommitAcknowledges ==
  ASSUME IndInv, NEW u \in Updaters, NEW s \in Updates, Commit(u, s), acked' = acked,
         \A t \in Tabs : sent'[t] # None =>
           sent'[t] = sent[t] /\ pc'[t] = pc[t]
  PROVE  RevisionNamesOneState' /\ \A t \in Tabs : Repeated(t)'
<1>1. /\ stored.version \in Nat /\ stored'.version = stored.version + 1
      /\ \A a \in acked : a.version \in Nat
  BY CommitFacts, ConstantsAssumption DEF IndInv, TypeOK, States
<1>2. RevisionNamesOneState'
  BY <1>1 DEF IndInv, RevisionNamesOneState
<1>3. ASSUME NEW t \in Tabs PROVE Repeated(t)'
  <2>1. sent[t] # None /\ sent[t].kind = "snapshot" => sent[t].version \in Nat
    BY ConstantsAssumption DEF IndInv, TypeOK, Updates, Snapshots, Deltas
  <2>2. QED
    BY <1>1, <2>1 DEF IndInv, Repeated
<1>4. QED
  BY <1>2, <1>3

\* Every step keeps one state to a revision.
LEMMA RevisionsKept ==
  ASSUME IndInv, TypeOK', [Next]_vars
  PROVE  RevisionNamesOneState' /\ \A t \in Tabs : Repeated(t)'
<1> USE DEF IndInv
<1> DEFINE Goal == RevisionNamesOneState' /\ \A t \in Tabs : Repeated(t)'
<1>1. /\ \A t \in Tabs : t \in Updaters
      /\ \A a \in acked : a \in States /\ a.version \in Nat
      /\ stored \in States /\ stored.version \in Nat
  BY ConstantsAssumption DEF Updaters, TypeOK, States
<1>2. ASSUME NEW t \in Tabs, NEW m \in Messages \cup {None}, NEW s \in Updates \cup {None},
             Start(t, m, s)
      PROVE  Goal
  <2>1. /\ sent' = [sent EXCEPT ![t] = s] /\ pc' = [pc EXCEPT ![t] = "reading"]
        /\ stored' = stored /\ acked' = acked
    BY <1>2 DEF Start, Go
  <2>2. \A o \in Tabs : Repeated(o)'
    BY <2>1 DEF Repeated, TypeOK
  <2>3. QED
    BY <2>1, <2>2 DEF RevisionNamesOneState
<1>3. ASSUME NEW t \in Tabs, ReadHistory(t) \/ Post(t) PROVE Goal
  <2>1. /\ stored' = stored /\ acked' = acked /\ sent' = sent
        /\ \/ pc[t] = "reading" /\ pc' = [pc EXCEPT ![t] = "sync"]
           \/ pc[t] = "ready" /\ pc' = [pc EXCEPT ![t] = "processing"]
    BY <1>3 DEF ReadHistory, Post, Go, request
  <2>2. \A o \in Tabs : Repeated(o)'
    BY <2>1 DEF Repeated, TypeOK
  <2>3. QED
    BY <2>1, <2>2 DEF RevisionNamesOneState
<1>4. ASSUME NEW t \in Tabs, Sync(t) PROVE Goal
  <2>1. CASE /\ sent[t] = None \/ Repeats(sent[t])
             /\ Go(t, "ready") /\ UNCHANGED <<stored, job, sent>>
             /\ UNCHANGED <<agent, history, acked, msg, fresh>>
    <3>1. ASSUME NEW o \in Tabs PROVE Repeated(o)'
      <4>1. CASE o = t
        <5>1. sent[t] # None => \A a \in acked :
                a.version = sent[t].version => a.content = sent[t].content
          BY <2>1 DEF Repeats, RevisionNamesOneState
        <5>2. QED
          BY <1>1, <2>1, <4>1, <5>1 DEF Repeats, Repeated, Go, TypeOK
      <4>2. CASE o # t
        BY <2>1, <4>2 DEF Repeated, Go, TypeOK
      <4>3. QED
        BY <4>1, <4>2
    <3>2. QED
      BY <2>1, <3>1 DEF RevisionNamesOneState
  <2>2. CASE /\ sent[t] # None /\ Commit(t, sent[t])
             /\ Go(t, "events") /\ sent' = [sent EXCEPT ![t] = None]
             /\ UNCHANGED <<agent, history, acked, msg, fresh>>
    <3>1. sent[t] \in Updates /\ acked' = acked
      BY <2>2 DEF TypeOK
    <3>2. \A o \in Tabs : sent'[o] # None => sent'[o] = sent[o] /\ pc'[o] = pc[o]
      BY <2>2 DEF Go, TypeOK
    <3>3. QED
      BY <1>1, <2>2, <3>1, <3>2, CommitAcknowledges
  <2>3. QED
    BY <1>4, <2>1, <2>2 DEF Sync
<1>5. ASSUME NEW t \in Tabs, Finish(t) PROVE Goal
  <2> DEFINE new == [version |-> sent[t].version, content |-> sent[t].content]
  <2>1. /\ stored' = stored /\ acked' = acked \cup (IF sent[t] = None THEN {} ELSE {new})
        /\ sent' = [sent EXCEPT ![t] = None] /\ pc' = [pc EXCEPT ![t] = "idle"]
        /\ pc[t] \in {"ready", "processing"}
    BY <1>5 DEF Finish, Leave, Go
  <2>2. ASSUME sent[t] # None
        PROVE  /\ new.version \in Nat /\ new.version <= stored.version
               /\ new.version = stored.version => new = stored
               /\ \A a \in acked : a.version = new.version => a = new
    <3>1. /\ sent[t].version <= stored.version
          /\ sent[t].version = stored.version => sent[t].content = stored.content
          /\ \A a \in acked : a.version = sent[t].version => a.content = sent[t].content
          /\ sent[t] \in Snapshots
      BY <2>1, <2>2 DEF Repeated, TypeOK, Updates, Deltas
    <3>2. sent[t].version \in Nat
      BY <3>1, ConstantsAssumption DEF Snapshots
    <3>3. QED
      BY <1>1, <3>1, <3>2 DEF States
  <2>3. RevisionNamesOneState'
    BY <2>1, <2>2 DEF RevisionNamesOneState
  <2>4. ASSUME NEW o \in Tabs PROVE Repeated(o)'
    <3>1. o # t => pc[o] = "idle"
      BY <2>1 DEF OneRun
    <3>2. QED
      BY <2>1, <3>1 DEF Repeated, TypeOK
  <2>5. QED
    BY <2>3, <2>4
<1>6. ASSUME NEW t \in Tabs, Abort(t) PROVE Goal
  <2>1. /\ stored' = stored /\ acked' = acked /\ sent' = [sent EXCEPT ![t] = None]
        /\ pc' = [pc EXCEPT ![t] = "idle"]
    BY <1>6 DEF Abort, Leave, Go
  <2>2. QED
    BY <2>1, NothingAcknowledged DEF TypeOK
<1>7. ASSUME NEW u \in Updaters, CreateEvent(u) PROVE Goal
  BY <1>7, NothingAcknowledged DEF CreateEvent, request
<1>8. ASSUME NEW u \in Updaters, Deliver(u) PROVE Goal
  <2>1. /\ stored' = stored /\ acked' = acked \cup {stored} /\ sent' = sent
        /\ pc' = IF u \in Tabs THEN [pc EXCEPT ![u] = "ready"] ELSE pc
        /\ u \in Tabs => pc[u] = "events"
    BY <1>8 DEF Deliver, request, Jobs
  <2>2. RevisionNamesOneState'
    BY <1>1, <2>1 DEF RevisionNamesOneState
  <2>3. ASSUME NEW o \in Tabs PROVE Repeated(o)'
    BY <2>1 DEF Repeated, TypeOK
  <2>4. QED
    BY <2>2, <2>3
<1>9. ASSUME NEW c \in Calls, NEW s \in Updates, Receive(c, s) PROVE Goal
  BY <1>9, CommitAcknowledges DEF Receive, request, Updaters
<1>10. ASSUME NEW c \in Calls, CutReceipt(c) PROVE Goal
  BY <1>10, NothingAcknowledged DEF CutReceipt, request
<1>11. CASE Restart
  BY <1>11 DEF Restart, RevisionNamesOneState, Repeated
<1>12. CASE UNCHANGED vars
  BY <1>12, NothingAcknowledged DEF vars, request
<1>13. QED
  BY <1>2, <1>3, <1>4, <1>5, <1>6, <1>7, <1>8, <1>9, <1>10, <1>11, <1>12 DEF Next

-----------------------------------------------------------------------------
(* Messages.                                                               *)

\* A step that leaves the history alone, and every run where it was or idle.
LEMMA NothingPosted ==
  ASSUME IndInv, UNCHANGED history,
         \A t \in Tabs : \/ pc'[t] \in {"idle", "reading"}
                         \/ /\ msg'[t] = msg[t] /\ fresh'[t] = fresh[t]
                            /\ \/ pc'[t] = pc[t]
                               \/ pc[t] \in {"sync", "events"} /\ pc'[t] \in {"events", "ready"}
  PROVE  MessageOnce' /\ \A t \in Tabs : Known(t)'
  BY DEF IndInv, history, MessageOnce, Known

\* Every step keeps the messages posted once.
LEMMA MessagesKept ==
  ASSUME IndInv, [Next]_vars
  PROVE  MessageOnce' /\ \A t \in Tabs : Known(t)'
<1> USE DEF IndInv
<1> DEFINE Goal == MessageOnce' /\ \A t \in Tabs : Known(t)'
<1>1. \A m \in Messages : posted[m] \in Nat /\ (posted[m] = 0 \/ posted[m] = 1)
  BY DEF TypeOK, MessageOnce
<1>2. ASSUME NEW t \in Tabs, NEW m \in Messages \cup {None}, NEW s \in Updates \cup {None},
             Start(t, m, s)
      PROVE  Goal
  <2>1. /\ pc' = [pc EXCEPT ![t] = "reading"] /\ msg' = [msg EXCEPT ![t] = m]
        /\ UNCHANGED <<history, fresh>>
    BY <1>2 DEF Start, Go
  <2>2. QED
    BY <2>1, NothingPosted DEF TypeOK
<1>3. ASSUME NEW t \in Tabs, ReadHistory(t) PROVE Goal
  <2>1. /\ fresh' = [fresh EXCEPT ![t] = msg[t] # None /\ posted[msg[t]] = 0]
        /\ pc' = [pc EXCEPT ![t] = "sync"] /\ UNCHANGED <<posted, answered, msg>>
    BY <1>3 DEF ReadHistory, Go, history
  <2>2. \A o \in Tabs : Known(o)'
    BY <1>1, <2>1 DEF Known, TypeOK
  <2>3. QED
    BY <2>1, <2>2 DEF MessageOnce
<1>4. ASSUME NEW t \in Tabs, Sync(t) PROVE Goal
  BY <1>4, NothingPosted DEF Sync, Go, TypeOK
<1>5. ASSUME NEW t \in Tabs, Post(t) PROVE Goal
  <2>1. /\ pc[t] = "ready" /\ posted' = [posted EXCEPT ![msg[t]] = @ + 1]
        /\ pc' = [pc EXCEPT ![t] = "processing"] /\ UNCHANGED <<answered, msg, fresh>>
    BY <1>5 DEF Post, Go, request
  <2>2. msg[t] \in Messages /\ posted[msg[t]] = 0 /\ posted'[msg[t]] = 1
    BY <1>5, <2>1 DEF Post, Known, TypeOK
  <2>3. MessageOnce'
    BY <2>1, <2>2 DEF MessageOnce, TypeOK
  <2>4. ASSUME NEW o \in Tabs PROVE Known(o)'
    <3>1. o # t => pc[o] = "idle"
      BY <2>1 DEF OneRun
    <3>2. QED
      BY <2>1, <2>2, <3>1, ConstantsAssumption DEF Known, TypeOK
  <2>5. QED
    BY <2>3, <2>4
<1>6. ASSUME NEW t \in Tabs, Finish(t) PROVE Goal
  <2>1. /\ msg[t] # None => posted[msg[t]] = 1
        /\ answered' = answered \cup ({msg[t]} \ {None}) /\ posted' = posted
        /\ pc' = [pc EXCEPT ![t] = "idle"] /\ msg' = [msg EXCEPT ![t] = None]
        /\ fresh' = [fresh EXCEPT ![t] = FALSE]
    BY <1>6 DEF Finish, Leave, Go, Known
  <2>2. MessageOnce'
    BY <2>1 DEF MessageOnce
  <2>3. \A o \in Tabs : Known(o)'
    BY <2>1 DEF Known, TypeOK
  <2>4. QED
    BY <2>2, <2>3
<1>7. ASSUME NEW t \in Tabs, Abort(t) PROVE Goal
  BY <1>7, NothingPosted DEF Abort, Leave, Go, TypeOK
<1>8. ASSUME NEW u \in Updaters, CreateEvent(u) PROVE Goal
  BY <1>8, NothingPosted DEF CreateEvent, request
<1>9. ASSUME NEW u \in Updaters, Deliver(u) PROVE Goal
  <2>1. /\ pc' = IF u \in Tabs THEN [pc EXCEPT ![u] = "ready"] ELSE pc
        /\ u \in Tabs => pc[u] = "events"
        /\ UNCHANGED <<history, msg, fresh>>
    BY <1>9 DEF Deliver, request, Jobs
  <2>2. QED
    BY <2>1, NothingPosted DEF TypeOK
<1>10. ASSUME NEW c \in Calls, CutReceipt(c) \/ \E s \in Updates : Receive(c, s) PROVE Goal
  BY <1>10, NothingPosted DEF CutReceipt, Receive, request
<1>11. CASE Restart
  BY <1>11, NothingPosted DEF Restart
<1>12. CASE UNCHANGED vars
  BY <1>12, NothingPosted DEF vars, request
<1>13. QED
  BY <1>2, <1>3, <1>4, <1>5, <1>6, <1>7, <1>8, <1>9, <1>10, <1>11, <1>12 DEF Next

-----------------------------------------------------------------------------
(* Theorems.                                                               *)

\* The invariant holds at the start.
LEMMA Initially ==
  ASSUME Init
  PROVE  IndInv
<1>1. TypeOK
  <2>1. Default \in Content /\ 0 \in 0 .. MaxVersion
    BY ConstantsAssumption DEF Default, Content
  <2>2. stored \in States
    BY <2>1 DEF Init, States
  <2>3. QED
    BY <2>1, <2>2 DEF Init, TypeOK
<1>2. OneRun /\ Jobs /\ Told
  BY DEF Init, OneRun, Jobs, Told, Agrees, Default, NoJob, Updaters, Facts
<1>3. RevisionNamesOneState /\ MessageOnce /\ \A t \in Tabs : Repeated(t) /\ Known(t)
  BY DEF Init, RevisionNamesOneState, MessageOnce, Repeated, Known
<1>4. QED
  BY <1>1, <1>2, <1>3 DEF IndInv

\* The inductive invariant of runs, updates, events and messages holds in
\* every reachable state.
THEOREM InductiveInvariant == Spec => []IndInv
<1>1. Init => IndInv
  BY Initially
<1>2. IndInv /\ [Next]_vars => IndInv'
  <2> SUFFICES ASSUME IndInv, [Next]_vars PROVE IndInv'
    OBVIOUS
  <2>1. TypeOK'
    BY TypesKept DEF IndInv
  <2>2. QED
    BY <2>1, ControlKept, ToldKept, RevisionsKept, MessagesKept DEF IndInv
<1>3. QED
  BY <1>1, <1>2, PTL DEF Spec

\* Every variable keeps its type.
THEOREM TypeCorrect == Spec => []TypeOK
<1>1. IndInv => TypeOK
  BY DEF IndInv
<1>2. QED
  BY <1>1, InductiveInvariant, PTL

\* The events created for the agent describe the state the manager stores, up
\* to the facts whose event was cut or is on its way.
THEOREM EventsDescribeTheState == Spec => []EventsTellState
<1>1. IndInv => EventsTellState
  BY InDues DEF IndInv, Told, EventsTellState
<1>2. QED
  BY <1>1, InductiveInvariant, PTL

\* Whatever tabs send and repeat, a revision is acknowledged for one state.
THEOREM RevisionsAreUnambiguous == Spec => []RevisionNamesOneState
<1>1. IndInv => RevisionNamesOneState
  BY DEF IndInv
<1>2. QED
  BY <1>1, InductiveInvariant, PTL

\* A message is posted at most once, over retries, tabs and restarts, and once
\* if its request finished.
THEOREM MessagesArePostedOnce == Spec => []MessageOnce
<1>1. IndInv => MessageOnce
  BY DEF IndInv
<1>2. QED
  BY <1>1, InductiveInvariant, PTL
=============================================================================
