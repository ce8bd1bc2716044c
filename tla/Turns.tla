------------------------------- MODULE Turns --------------------------------
(***************************************************************************)
(* What the turns of a browser do to one thread: the frontend state the    *)
(* service stores (FrontendStateManager, FrontendStateReducer), the        *)
(* semantic events the agent learns it from (FrontendEventHandler) and the *)
(* customer messages in Parlant's history, as AguiRunRunner._run and the   *)
(* tool receipts change them.                                              *)
(*                                                                         *)
(* A revision is committed in one step: the manager's lock is never held   *)
(* across an await, so that reading the previous state, the update and the *)
(* diff do not suspend.  The events are then created one by one, each      *)
(* awaiting Parlant, and the snapshot is sent last.  A call that fails may *)
(* have had its effect: that is the call followed by the failure.          *)
(*                                                                         *)
(* The page stands for every section that is told whenever it differs      *)
(* (route, store, item count, checkout step), the product for the one that *)
(* is told only while it is open; user and ui are never told.              *)
(***************************************************************************)
EXTENDS Naturals, FiniteSets

CONSTANTS Tabs,        \* browser tabs of the visitor; one request each
          Calls,       \* frontend tool calls the agent makes at a time
          Messages,    \* stable message IDs
          Pages, Home, Ids, Variants, None,
          Patches,     \* changes of a delta: leaf -> value
          MaxVersion   \* bound: revisions in one life of the process

Content == [page : Pages, id : Ids \cup {None}, variant : Variants \cup {None}]
Leaves == {"page", "id", "variant"}
Facts == {"page", "product"}
Default == [page |-> Home, id |-> None, variant |-> None]

States == [version : 0 .. MaxVersion, content : Content]
Snapshots == [kind : {"snapshot"}, version : 0 .. MaxVersion + 1, content : Content]
\* A delta that does not advance its base by one is refused by every state.
Deltas == [kind : {"delta"}, base : 0 .. MaxVersion, changes : Patches]
Updates == Snapshots \cup Deltas

ASSUME ConstantsAssumption ==
  /\ MaxVersion \in Nat \ {0} /\ Home \in Pages /\ None \notin Ids \cup Variants
  /\ None \notin Messages \cup Updates \cup [due : SUBSET Facts, state : States]
  /\ Tabs \cap Calls = {}
  /\ \A p \in Patches : /\ DOMAIN p \subseteq Leaves
                        /\ "page" \in DOMAIN p => p["page"] \in Pages
                        /\ "id" \in DOMAIN p => p["id"] \in Ids \cup {None}
                        /\ "variant" \in DOMAIN p => p["variant"] \in Variants \cup {None}

VARIABLES
  stored,    \* FrontendStateManager._states[thread]; version 0: none
  told,      \* what the events created so far say
  lost,      \* facts whose event was due and not created, or that a
             \* restart has reset without an event
  posted,    \* how often each message is in Parlant's history
  answered,  \* messages whose request ended with RUN_FINISHED
  acked,     \* states of this life a browser knows to be accepted
  pc,        \* where the run of the tab is
  msg,       \* the message of the tab's request, or None
  fresh,     \* extract_latest_user_message: the message is new
  sent,      \* RunAgentInput.state until it is committed, or None
  job        \* _RunStateStore.update in progress: of a run, of a receipt

agent == <<told, lost>>
history == <<posted, answered>>
request == <<msg, fresh, sent>>
vars == <<stored, agent, history, acked, pc, request, job>>

Updaters == Tabs \cup Calls
NoJob == None

Init ==
  /\ stored = [version |-> 0, content |-> Default]
  /\ told = Default /\ lost = {}
  /\ posted = [m \in Messages |-> 0] /\ answered = {} /\ acked = {}
  /\ pc = [t \in Tabs |-> "idle"]
  /\ msg = [t \in Tabs |-> None] /\ fresh = [t \in Tabs |-> FALSE]
  /\ sent = [t \in Tabs |-> None]
  /\ job = [u \in Updaters |-> NoJob]

Go(t, l) == pc' = [pc EXCEPT ![t] = l]

-----------------------------------------------------------------------------
(* The state and its events.                                               *)

\* apply_snapshot, apply_delta: the revision advances by exactly one, and a
\* delta needs the state it was made from.
Admissible(s) ==
  IF s.kind = "snapshot"
  THEN s.version = stored.version + 1 /\ s.version <= MaxVersion
  ELSE s.base = stored.version /\ stored.version > 0 /\ stored.version < MaxVersion

\* Object merge: the leaves that a delta omits stay.
Merged(content, changes) ==
  LET Leaf(l) == IF l \in DOMAIN changes THEN changes[l] ELSE content[l]
  IN [page |-> Leaf("page"), id |-> Leaf("id"), variant |-> Leaf("variant")]

Result(s) ==
  [version |-> stored.version + 1,
   content |-> IF s.kind = "snapshot" THEN s.content ELSE Merged(stored.content, s.changes)]

\* diff: PAGE_CHANGED, then PRODUCT_OPENED or VARIANT_CHANGED, which both
\* carry the product.  Closing the product tells nothing.
Diff(old, new) ==
  {f \in Facts : \/ f = "page" /\ new.page # old.page
                 \/ /\ f = "product" /\ new.id # None
                    /\ <<new.id, new.variant>> # <<old.id, old.variant>>}

\* _RunStateStore.update up to its first suspension.
Commit(u, s) ==
  /\ Admissible(s)
  /\ stored' = Result(s)
  /\ job' = [job EXCEPT ![u] = [due |-> Diff(stored.content, Result(s).content),
                                state |-> Result(s)]]

\* gateway.create for the next event.
CreateEvent(u) ==
  \E f \in Facts :
    /\ job[u] # NoJob /\ f \in job[u].due
    /\ f = "product" => "page" \notin job[u].due
    /\ told' = LET c == job[u].state.content
               IN IF f = "page" THEN [told EXCEPT !.page = c.page]
                  ELSE [told EXCEPT !.id = c.id, !.variant = c.variant]
    /\ lost' = lost \ {f}
    /\ job' = [job EXCEPT ![u].due = @ \ {f}]
    /\ UNCHANGED <<stored, history, acked, pc, request>>

\* The STATE_SNAPSHOT goes to the stream of the run.
Deliver(u) ==
  /\ job[u] # NoJob /\ job[u].due = {}
  /\ acked' = acked \cup {job[u].state}
  /\ job' = [job EXCEPT ![u] = NoJob]
  /\ pc' = IF u \in Tabs THEN [pc EXCEPT ![u] = "ready"] ELSE pc
  /\ UNCHANGED <<stored, agent, history, request>>

\* The events that updaters w leave out when they are cut.
Dues(w) == UNION {job[u].due : u \in {x \in w : job[x] # NoJob}}

Cut(w) ==
  /\ lost' = lost \cup Dues(w)
  /\ job' = [u \in Updaters |-> IF u \in w THEN NoJob ELSE job[u]]

-----------------------------------------------------------------------------
(* Runs.                                                                   *)

\* Slip: a second run of the thread is let in.
NotReserved(t) == pc[t] = "idle"

Reservable(t) == \A o \in Tabs : pc[o] = "idle"

\* _run: reserve the thread and announce the run.
Start(t, m, s) ==
  /\ Reservable(t)
  /\ Go(t, "reading")
  /\ msg' = [msg EXCEPT ![t] = m] /\ sent' = [sent EXCEPT ![t] = s]
  /\ UNCHANGED <<stored, agent, history, acked, fresh, job>>

\* events.list, extract_latest_user_message: new unless Parlant has it.
ReadHistory(t) ==
  /\ pc[t] = "reading"
  /\ fresh' = [fresh EXCEPT ![t] = msg[t] # None /\ posted[msg[t]] = 0]
  /\ Go(t, "sync")
  /\ UNCHANGED <<stored, agent, history, acked, msg, sent, job>>

\* Slip: the content of a repeated revision is not compared.
SameVersion(s) == s # None /\ s.kind = "snapshot" /\ s.version = stored.version /\ stored.version > 0

\* _sync_state: a repeated snapshot must be the stored one.
Repeats(s) ==
  /\ s # None /\ s.kind = "snapshot" /\ s.version = stored.version /\ stored.version > 0
  /\ s.content = stored.content

\* A state that is neither repeated nor admissible fails the run: Abort.
Sync(t) ==
  /\ pc[t] = "sync"
  /\ \/ /\ sent[t] = None \/ Repeats(sent[t])
        /\ Go(t, "ready") /\ UNCHANGED <<stored, job, sent>>
     \/ /\ sent[t] # None /\ Commit(t, sent[t])
        /\ Go(t, "events") /\ sent' = [sent EXCEPT ![t] = None]
  /\ UNCHANGED <<agent, history, acked, msg, fresh>>

\* create_customer_message, then the engine starts.
Post(t) ==
  /\ pc[t] = "ready" /\ fresh[t]
  /\ posted' = [posted EXCEPT ![msg[t]] = @ + 1]
  /\ Go(t, "processing")
  /\ UNCHANGED <<stored, agent, answered, acked, request, job>>

\* handle_tool_result holds the state_lock while it resolves a receipt.
ReceiptMayEnter == \A d \in Calls : job[d] = NoJob

\* A receipt of a pending call commits its revision; a refused one changes
\* nothing here.
Receive(c, s) ==
  /\ \E t \in Tabs : pc[t] = "processing"
  /\ job[c] = NoJob /\ ReceiptMayEnter
  /\ Commit(c, s)
  /\ UNCHANGED <<agent, history, acked, pc, request>>

\* The call times out, the receipt's request goes away or Parlant fails: the
\* update is cancelled and awaited, the run goes on.
CutReceipt(c) ==
  /\ job[c] # NoJob /\ Cut({c})
  /\ UNCHANGED <<stored, told, history, acked, pc, request>>

Leave(t) ==
  /\ Go(t, "idle")
  /\ msg' = [msg EXCEPT ![t] = None] /\ fresh' = [fresh EXCEPT ![t] = FALSE]
  /\ sent' = [sent EXCEPT ![t] = None]

\* RUN_FINISHED, after the engine and its calls, or at once when there is
\* nothing new to say.  It acknowledges a repeated state.
Finish(t) ==
  /\ \/ pc[t] = "processing" /\ \A c \in Calls : job[c] = NoJob
     \/ pc[t] = "ready" /\ ~fresh[t]
  /\ answered' = answered \cup ({msg[t]} \ {None})
  /\ acked' = acked \cup {[version |-> s.version, content |-> s.content] :
                           s \in {sent[t]} \ {None}}
  /\ Leave(t)
  /\ UNCHANGED <<stored, agent, posted, job>>

\* Slip: the calls' updates are not awaited when the run ends.
CutRunOnly(t) == Cut({t})

\* dispatch waits for its update before it returns, and the run for the engine.
CutRun(t) == Cut({t} \cup Calls)

\* A failure, a cancellation, the run's timeout or a refused state.
Abort(t) ==
  /\ pc[t] # "idle"
  /\ CutRun(t) /\ Leave(t)
  /\ UNCHANGED <<stored, told, history, acked>>

\* The process ends: the states are process-local, Parlant's history is not.
\* A page that was told is not taken back, and if the next life begins at
\* Home, no event says so.
Restart ==
  /\ stored' = [version |-> 0, content |-> Default]
  /\ lost' = lost \cup Dues(Updaters) \cup {f \in {"page"} : told.page # Home}
  /\ job' = [u \in Updaters |-> NoJob]
  /\ acked' = {}
  /\ pc' = [t \in Tabs |-> "idle"]
  /\ msg' = [t \in Tabs |-> None] /\ fresh' = [t \in Tabs |-> FALSE]
  /\ sent' = [t \in Tabs |-> None]
  /\ UNCHANGED <<told, history>>

Next ==
  \/ \E t \in Tabs :
       \/ \E m \in Messages \cup {None}, s \in Updates \cup {None} : Start(t, m, s)
       \/ ReadHistory(t) \/ Sync(t) \/ Post(t) \/ Finish(t) \/ Abort(t)
  \/ \E u \in Updaters : CreateEvent(u) \/ Deliver(u)
  \/ \E c \in Calls : (\E s \in Updates : Receive(c, s)) \/ CutReceipt(c)
  \/ Restart

Spec == Init /\ [][Next]_vars

-----------------------------------------------------------------------------
(* Properties.                                                             *)

TypeOK ==
  /\ stored \in States /\ told \in Content /\ lost \subseteq Facts
  /\ posted \in [Messages -> Nat] /\ answered \subseteq Messages
  /\ acked \subseteq States
  /\ pc \in [Tabs -> {"idle", "reading", "sync", "events", "ready", "processing"}]
  /\ msg \in [Tabs -> Messages \cup {None}] /\ fresh \in [Tabs -> BOOLEAN]
  /\ sent \in [Tabs -> Updates \cup {None}]
  /\ job \in [Updaters -> [due : SUBSET Facts, state : States] \cup {NoJob}]

Agrees(f) ==
  IF f = "page" THEN told.page = stored.content.page
  ELSE stored.content.id # None =>
         told.id = stored.content.id /\ told.variant = stored.content.variant

\* The events the agent has seen describe the state the service stores, for
\* every fact whose events were all created: whichever revisions arrived with
\* runs and with receipts, and whatever was cut, nothing but a cut or the
\* reset of the page by a restart makes the two diverge, and no event of an older revision overtakes a newer one.
EventsTellState == \A f \in Facts : f \notin lost \cup Dues(Updaters) => Agrees(f)

\* A revision names one state: whatever two tabs send and repeat, no two
\* states are acknowledged under one revision, and the stored state is the one
\* acknowledged under its revision.
RevisionNamesOneState ==
  \A a \in acked :
    /\ \A b \in acked : a.version = b.version => a = b
    /\ a.version <= stored.version
    /\ a.version = stored.version => a = stored

\* A message is in the history at most once however often its request is
\* repeated, cut or sent from two tabs, over restarts too; and a request that
\* finished left it there.
MessageOnce == \A m \in Messages : /\ posted[m] <= 1
                                   /\ m \in answered => posted[m] = 1
=============================================================================
