-------------------------- MODULE DispatcherProofs --------------------------
(* Proofs about Dispatcher for every number of tools, IDs, resolvers and    *)
(* every bound: IndInv is inductive, and what follows from it.              *)
EXTENDS Dispatcher, FiniteSetTheorems, TLAPS

\* The states after one more ID has been retired stay within max_calls.
LEMMA RetireBound ==
  ASSUME NEW S \in SUBSET Ids, NEW id \in Ids, id \notin S, Cardinality(S) < MaxCalls
  PROVE  Cardinality(S \cup {id}) <= MaxCalls
<1>1. IsFiniteSet(S)
  BY ConstantsAssumption, FS_Subset
<1>2. Cardinality(S) \in Nat /\ Cardinality(S \cup {id}) = Cardinality(S) + 1
  BY <1>1, FS_CardinalityType, FS_AddElement
<1>3. QED
  BY <1>2, ConstantsAssumption

\* The initial states of __init__ have their types.
LEMMA InitType == Init => TypeOK
<1> SUFFICES ASSUME Init PROVE TypeOK
  OBVIOUS
<1>1. Cardinality(used) <= MaxCalls
  BY FS_EmptySet, ConstantsAssumption DEF Init
<1>2. queue \in Seq(Events) /\ Len(queue) <= QueueCap
  BY ConstantsAssumption DEF Init
<1>3. QED
  BY <1>1, <1>2, ConstantsAssumption DEF Init, TypeOK

\* The checks of dispatch(), and the registration of a call, keep the types:
\* in particular a retired ID stays within max_calls.
LEMMA DispatchType ==
  ASSUME TypeOK, NEW t \in Tools, Dispatch(t)
  PROVE  TypeOK'
<1>1. CASE DispatchClosed(t)
  BY <1>1 DEF TypeOK, DispatchClosed, Refuse, Refusals, resolverVars, stateVars
<1>2. CASE \E id \in Ids : DispatchUsedId(t, id)
  BY <1>2 DEF TypeOK, DispatchUsedId, Refuse, Refusals, resolverVars, stateVars
<1>3. CASE \E id \in Ids : DispatchOverLimit(t, id)
  BY <1>3 DEF TypeOK, DispatchOverLimit, Refuse, Refusals, resolverVars, stateVars
<1>4. ASSUME NEW id \in Ids, DispatchDenied(t, id) PROVE TypeOK'
  <2>1. Cardinality(used') <= MaxCalls
    BY <1>4, RetireBound DEF TypeOK, DispatchDenied, FreshId
  <2>2. QED
    BY <1>4, <2>1, ConstantsAssumption
    DEF TypeOK, DispatchDenied, FreshId, Refuse, Refusals, resolverVars, stateVars
<1>5. ASSUME NEW id \in Ids, DispatchOpen(t, id) PROVE TypeOK'
  <2>1. Cardinality(used') <= MaxCalls
    BY <1>5, RetireBound DEF TypeOK, DispatchOpen, FreshId
  <2>2. QED
    BY <1>5, <2>1 DEF TypeOK, DispatchOpen, FreshId, resolverVars, stateVars
<1>6. QED
  BY <1>1, <1>2, <1>3, <1>4, <1>5 DEF Dispatch

\* Cancelling update tasks leaves each in a state a task can be in.
LEMMA CancelUpdatesType ==
  ASSUME TypeOK, NEW T
  PROVE  CancelUpdates(T) \in [Resolvers -> Running \cup {"none", "done", "conflict",
                                              "invalid", "failed", "dropped", "torn"}]
BY DEF TypeOK, CancelUpdates, Running

\* The finally block of dispatch() keeps the types.
LEMMA FinishType ==
  ASSUME TypeOK, NEW t \in Tools, NEW o \in Receipts \cup Refusals \cup Losses, Finish(t, o)
  PROVE  TypeOK'
BY CancelUpdatesType, ConstantsAssumption DEF TypeOK, Finish, CancelSend, stateVars

\* The sends, the deadline and the ways out of dispatch() keep the types: an
\* event is put only into a queue with room.
LEMMA ToolType ==
  ASSUME TypeOK, CallsOK, NEW t \in Tools,
         ToolStep(t) \/ SendRaises(t) \/ Expire(t) \/ DispatchCancelled(t)
  PROVE  TypeOK'
<1>1. CASE SendPut(t)
  <2>1. call[t] \in Ids /\ phase[t] \in 1..3
    BY <1>1, ConstantsAssumption DEF TypeOK, CallsOK, SendPut, Open
  <2>2. ToolEvent(call[t], phase[t]) \in Events
    BY <2>1 DEF Events, ToolEvent
  <2>3. queue' \in Seq(Events) /\ Len(queue') <= QueueCap
    BY <1>1, <2>2, ConstantsAssumption DEF TypeOK, SendPut, HasRoom
  <2>4. QED
    BY <1>1, <2>3 DEF TypeOK, SendPut, resolverVars, stateVars
<1>2. CASE SendNext(t)
  <2>1. CASE phase[t] < 3
    <3>1. phase \in [Tools -> 0..3]
      BY DEF TypeOK
    <3>2. phase[t] + 1 \in 0..3
      BY <2>1, <3>1
    <3>3. phase' \in [Tools -> 0..3]
      BY <1>2, <2>1, <3>1, <3>2 DEF SendNext
    <3>4. QED
      BY <1>2, <2>1, <3>3 DEF TypeOK, SendNext, resolverVars, stateVars
  <2>2. CASE ~(phase[t] < 3)
    BY <1>2, <2>2 DEF TypeOK, SendNext, resolverVars, stateVars
  <2>3. QED
    BY <2>1, <2>2
<1>3. CASE SendRaises(t)
  BY <1>3 DEF TypeOK, SendRaises, resolverVars, stateVars
<1>4. CASE Expire(t)
  BY <1>4 DEF TypeOK, Expire, resolverVars, stateVars
<1>5. CASE DispatchSendFailed(t)
  BY <1>5, FinishType DEF DispatchSendFailed, Losses
<1>6. CASE DispatchResult(t)
  <2>1. future[t] \in Receipts \cup Refusals \cup Losses
    BY <1>6 DEF TypeOK, DispatchResult, Refusals, Losses
  <2>2. QED
    BY <1>6, <2>1, FinishType DEF DispatchResult
<1>7. CASE DispatchTimeout(t)
  BY <1>7, FinishType DEF DispatchTimeout, Losses
<1>8. CASE DispatchCancelled(t)
  BY <1>8, FinishType DEF DispatchCancelled, Losses
<1>9. QED
  BY <1>1, <1>2, <1>3, <1>4, <1>5, <1>6, <1>7, <1>8 DEF ToolStep

\* A request that is being resolved carries a receipt; one that updates the
\* state carries a revision.
LEMMA RequestType2 ==
  ASSUME TypeOK, NEW r \in Resolvers, request[r] # None
  PROVE  /\ request[r] \in Requests /\ request[r].id \in Ids
         /\ request[r].update # None => request[r].update.version \in Revisions
BY ConstantsAssumption DEF TypeOK, RequestType, Updates

\* What a receipt does before its first suspension keeps the types.
LEMMA ResolveType ==
  ASSUME TypeOK, ResolversOK, NEW r \in Resolvers,
         \/ \E q \in Requests : HandleToolResult(r, q)
         \/ ResolveStale(r) \/ ResolveMalformed(r) \/ ResolvePlain(r) \/ ResolveWithState(r)
         \/ ResolverCancelled(r)
  PROVE  TypeOK'
<1>1. ASSUME NEW q \in Requests, HandleToolResult(r, q) PROVE TypeOK'
  <2>1. CASE run = "ended"
    <3>1. /\ rpc \in [Resolvers -> {"idle", "locking", "updating", "replied"}]
          /\ reply \in [Resolvers -> {"none", "true", "false", "raised"}]
      BY DEF TypeOK
    <3>2. rpc' = [rpc EXCEPT ![r] = "replied"] /\ reply' = [reply EXCEPT ![r] = "false"]
      BY <1>1, <2>1 DEF HandleToolResult
    <3>3. /\ rpc' \in [Resolvers -> {"idle", "locking", "updating", "replied"}]
          /\ reply' \in [Resolvers -> {"none", "true", "false", "raised"}]
      BY <3>1, <3>2
    <3>4. QED
      BY <1>1, <2>1, <3>3 DEF TypeOK, HandleToolResult, toolVars, stateVars
  <2>2. CASE run # "ended"
    <3>1. /\ request \in [Resolvers -> Requests \cup {None}]
          /\ rpc \in [Resolvers -> {"idle", "locking", "updating", "replied"}]
      BY DEF TypeOK
    <3>2. rpc' = [rpc EXCEPT ![r] = "locking"] /\ request' = [request EXCEPT ![r] = q]
      BY <1>1, <2>2 DEF HandleToolResult
    <3>3. /\ request' \in [Resolvers -> Requests \cup {None}]
          /\ rpc' \in [Resolvers -> {"idle", "locking", "updating", "replied"}]
      BY <3>1, <3>2
    <3>4. QED
      BY <1>1, <2>2, <3>3 DEF TypeOK, HandleToolResult, toolVars, stateVars
  <2>3. QED
    BY <2>1, <2>2
<1>2. CASE ResolveStale(r)
  BY <1>2, ConstantsAssumption DEF TypeOK, ResolveStale, Answer, Unchanged4Reply, stateVars
<1>3. CASE ResolveMalformed(r)
  BY <1>3, ConstantsAssumption DEF TypeOK, ResolveMalformed, Answer, Unchanged4Reply, stateVars
<1>4. CASE ResolvePlain(r)
  <2>1. pending[request[r].id] \in Tools
    BY <1>4, RequestType2 DEF TypeOK, ResolversOK, ResolvePlain, HasLock, Acceptable
  <2>2. QED
    BY <1>4, <2>1, ConstantsAssumption
    DEF TypeOK, ResolvePlain, Settle, Answer, Unchanged4Reply, stateVars,
        Receipts, Success, BrowserErrors
<1>5. CASE ResolveWithState(r)
  <2>1. pending[request[r].id] \in Tools
    BY <1>5, RequestType2 DEF TypeOK, ResolversOK, ResolveWithState, HasLock, Acceptable
  <2>2. QED
    BY <1>5, <2>1 DEF TypeOK, ResolveWithState, toolVars, stateVars, Running
<1>6. CASE ResolverCancelled(r)
  BY <1>6, ConstantsAssumption DEF TypeOK, ResolverCancelled, Answer, Unchanged4Reply, stateVars
<1>7. QED
  BY <1>1, <1>2, <1>3, <1>4, <1>5, <1>6

\* A snapshot is put only into a queue with room.
LEMMA PutSnapshotType ==
  ASSUME TypeOK, NEW r \in Resolvers, NEW v \in Revisions, PutSnapshot(r, v)
  PROVE  /\ queue' \in Seq(Events) /\ Len(queue') <= QueueCap
         /\ published' \in SUBSET Revisions
         /\ update' \in [Resolvers -> Running \cup {"none", "done", "conflict", "invalid",
                                                "failed", "dropped", "torn"}]
<1>1. Snapshot(v) \in Events
  BY DEF Events, Snapshot
<1>2. /\ queue \in Seq(Events) /\ Len(queue) <= QueueCap /\ published \in SUBSET Revisions
      /\ update \in [Resolvers -> Running \cup {"none", "done", "conflict", "invalid",
                                            "failed", "dropped", "torn"}]
  BY DEF TypeOK
<1>3. CASE Len(queue) < QueueCap
  <2>1. queue' \in Seq(Events) /\ Len(queue') <= QueueCap
    BY <1>1, <1>2, <1>3, ConstantsAssumption DEF PutSnapshot, HasRoom
  <2>2. QED
    BY <1>2, <1>3, <2>1 DEF PutSnapshot, HasRoom
<1>4. CASE ~(Len(queue) < QueueCap)
  BY <1>2, <1>4 DEF PutSnapshot, HasRoom, Running
<1>5. QED
  BY <1>3, <1>4

\* The update task keeps the types: it commits only revisions of receipts.
LEMMA UpdateType ==
  ASSUME TypeOK, ResolversOK, NEW r \in Resolvers,
         \/ UpdateRefused(r) \/ UpdateCommit(r) \/ NoticeCreated(r) \/ NoticeFailed(r)
         \/ SnapshotPut(r)
  PROVE  TypeOK'
<1>1. update[r] # "none" /\ rpc[r] = "updating" /\ request[r].update.version \in Revisions
  BY RequestType2 DEF ResolversOK, UpdateRefused, UpdateCommit, NoticeCreated, NoticeFailed,
                      SnapshotPut
<1>2. CASE UpdateRefused(r)
  BY <1>2 DEF TypeOK, UpdateRefused, Verdict, UnchangedByUpdate, toolVars, stateVars
<1>3. CASE UpdateCommit(r)
  <2>1. PICK n \in 0..MaxNotices :
          /\ notices' = [notices EXCEPT ![r] = n]
          /\ IF n = 0
             THEN noticed' = noticed \cup {request[r].update.version}
                  /\ PutSnapshot(r, request[r].update.version)
             ELSE /\ update' = [update EXCEPT ![r] = "notifying"]
                  /\ UNCHANGED <<noticed, published, queue>>
    BY <1>3 DEF UpdateCommit
  <2>2. /\ revision' \in 0..MaxRevision
        /\ noticed' \in SUBSET Revisions /\ published' \in SUBSET Revisions
        /\ queue' \in Seq(Events) /\ Len(queue') <= QueueCap
        /\ update' \in [Resolvers -> Running \cup {"none", "done", "conflict", "invalid",
                                                "failed", "dropped", "torn"}]
    <3>1. revision' \in 0..MaxRevision
      BY <1>1, <1>3 DEF UpdateCommit, Revisions
    <3>2. CASE n = 0
      BY <1>1, <2>1, <3>1, <3>2, PutSnapshotType DEF TypeOK
    <3>3. CASE n # 0
      BY <2>1, <3>1, <3>3 DEF TypeOK, Running
    <3>4. QED
      BY <3>2, <3>3
  <2>3. notices' \in [Resolvers -> 0..MaxNotices]
    BY <2>1 DEF TypeOK
  <2>4. QED
    BY <1>3, <2>2, <2>3 DEF TypeOK, UpdateCommit, UnchangedByUpdate, toolVars
<1>4. CASE NoticeCreated(r)
  <2>1. notices[r] \in 1..MaxNotices
    BY <1>4, ConstantsAssumption DEF TypeOK, ResolversOK, NoticeCreated
  <2>2. CASE notices[r] = 1
    BY <1>1, <1>4, <2>1, <2>2, PutSnapshotType, ConstantsAssumption
    DEF TypeOK, NoticeCreated, UnchangedByUpdate, toolVars
  <2>3. CASE notices[r] # 1
    BY <1>4, <2>1, <2>3, ConstantsAssumption
    DEF TypeOK, NoticeCreated, UnchangedByUpdate, toolVars
  <2>4. QED
    BY <2>2, <2>3
<1>5. CASE NoticeFailed(r)
  BY <1>5 DEF TypeOK, NoticeFailed, UnchangedByUpdate, toolVars, stateVars
<1>6. CASE SnapshotPut(r)
  BY <1>1, <1>6, PutSnapshotType DEF TypeOK, SnapshotPut, UnchangedByUpdate, toolVars
<1>7. QED
  BY <1>2, <1>3, <1>4, <1>5, <1>6

\* What resolve_result() does after its update task keeps the types.
LEMMA ResumeType ==
  ASSUME TypeOK, ResolversOK, NEW r \in Resolvers,
         ResumeSettle(r) \/ ResumeFailed(r) \/ ResumeCancelled(r) \/ ResumeTimeout(r)
  PROVE  TypeOK'
<1>1. target[r] \in Tools /\ request[r].update.version \in Revisions
  BY RequestType2 DEF TypeOK, ResolversOK, ResumeSettle, ResumeFailed, ResumeCancelled,
                      ResumeTimeout, Resumes
<1>2. CASE ResumeSettle(r)
  <2>1. /\ future' \in [Tools -> Receipts \cup {"unset", "disconnected", "cancelled"}]
        /\ woken' \in [Tools -> 0..MaxRevision]
        /\ target' \in [Resolvers -> Tools \cup {None}]
        /\ reply' \in [Resolvers -> {"none", "true", "false", "raised"}]
        /\ \E a \in {"true", "false"} : Answer(r, a)
    <3>1. /\ future \in [Tools -> Receipts \cup {"unset", "disconnected", "cancelled"}]
          /\ woken \in [Tools -> 0..MaxRevision]
          /\ target \in [Resolvers -> Tools \cup {None}]
          /\ reply \in [Resolvers -> {"none", "true", "false", "raised"}]
      BY DEF TypeOK
    <3>2. request[r].update.version \in 0..MaxRevision /\ 0 \in 0..MaxRevision
      BY <1>1, ConstantsAssumption DEF Revisions
    <3>3. CASE future[target[r]] = "unset"
      <4>1. PICK v \in Receipts, n \in 0..MaxRevision : Settle(r, target[r], v, n)
        BY <1>2, <3>2, <3>3 DEF ResumeSettle, SettledWith, Receipts, Success, BrowserErrors
      <4>2. QED
        BY <1>1, <3>1, <4>1 DEF Settle, Answer
    <3>4. CASE future[target[r]] # "unset"
      BY <1>1, <1>2, <3>1, <3>4 DEF ResumeSettle, Answer
    <3>5. QED
      BY <3>3, <3>4
  <2>2. QED
    BY <1>2, <2>1, ConstantsAssumption
    DEF TypeOK, ResumeSettle, Resumes, Answer, Unchanged4Reply, stateVars
<1>3. CASE ResumeFailed(r)
  BY <1>3, ConstantsAssumption
  DEF TypeOK, ResumeFailed, Resumes, Answer, Unchanged4Reply, stateVars
<1>4. CASE ResumeCancelled(r)
  BY <1>4, ConstantsAssumption
  DEF TypeOK, ResumeCancelled, Resumes, Answer, Unchanged4Reply, stateVars
<1>5. CASE ResumeTimeout(r)
  BY <1>5, ConstantsAssumption
  DEF TypeOK, ResumeTimeout, Resumes, Answer, Unchanged4Reply, stateVars
<1>6. QED
  BY <1>2, <1>3, <1>4, <1>5

\* The reader of the queue and the finalizer of the run keep the types.
LEMMA RunType ==
  ASSUME TypeOK, Consume \/ StopStreaming \/ EndRun
  PROVE  TypeOK'
<1>1. CASE Consume
  <2>1. Head(queue) \in Events /\ Tail(queue) \in Seq(Events)
        /\ Len(Tail(queue)) <= QueueCap
    BY <1>1, ConstantsAssumption DEF TypeOK, Consume
  <2>2. seen' \in [Ids -> 0..3]
    BY <1>1, <2>1 DEF TypeOK, Consume, Events
  <2>3. QED
    BY <1>1, <2>1, <2>2 DEF TypeOK, Consume, toolVars, resolverVars, stateVars
<1>2. CASE StopStreaming
  BY <1>2 DEF TypeOK, StopStreaming, toolVars, resolverVars, stateVars
<1>3. CASE EndRun
  BY <1>3, CancelUpdatesType DEF TypeOK, EndRun, stateVars
<1>4. QED
  BY <1>1, <1>2, <1>3

\* The types a step depends on, without those of the queue and the counters.
CoreTypes ==
  /\ pc \in [Tools -> {"idle", "sending", "waiting", "returned"}]
  /\ call \in [Tools -> Ids \cup {None}]
  /\ phase \in [Tools -> 0..3]
  /\ send \in [Tools -> {"none", "running", "done", "failed", "cancelled"}]
  /\ future \in [Tools -> Receipts \cup {"unset", "disconnected", "cancelled"}]
  /\ woken \in [Tools -> Nat]
  /\ outcome \in [Tools -> Receipts \cup Refusals \cup Losses \cup {"none"}]
  /\ pending \in [Ids -> Tools \cup {None}]
  /\ rpc \in [Resolvers -> {"idle", "locking", "updating", "replied"}]
  /\ request \in [Resolvers -> Requests \cup {None}]
  /\ target \in [Resolvers -> Tools \cup {None}]
  /\ update \in [Resolvers -> Running \cup {"none", "done", "conflict", "invalid",
                                          "failed", "dropped", "torn"}]
  /\ notices \in [Resolvers -> Nat]
  /\ reply \in [Resolvers -> {"none", "true", "false", "raised"}]
  /\ revision \in Nat
  /\ used \in SUBSET Ids
  /\ None \notin Tools \cup Ids \cup Resolvers \cup Requests

\* The part of TypeOK that the lemmas about Links need.
LEMMA TypesOfCore == TypeOK => CoreTypes
BY ConstantsAssumption DEF TypeOK, CoreTypes

\* What RevisionsInOrder says of one step.
RevisionStep ==
  /\ \A v \in noticed' \ noticed : \A w \in noticed : w < v
  /\ \A v \in published' \ published : \A w \in published : w < v

\* The invariants other than the types and the order.
Links == CallsOK /\ ResolversOK /\ PublicationOK
         /\ RegistryConsistent /\ PublishedBeforeWake /\ AcceptedOnce

\* A call is registered under a fresh ID, so no receipt is linked to it yet.
LEMMA DispatchLinks ==
  ASSUME TypeOK, Links, NEW t \in Tools,
         Dispatch(t)
  PROVE  Links'
<1>0. CoreTypes
  BY TypesOfCore
<1>1. CASE DispatchClosed(t)
  <2>1. CallsOK'
    BY <1>1, <1>0 DEF CoreTypes, Links, CallsOK, ResolversOK, PublicationOK,
        RegistryConsistent, PublishedBeforeWake, AcceptedOnce, Open, Running,
        Receipts, Success, BrowserErrors, Refusals, Losses, DispatchClosed, Refuse,
        resolverVars, stateVars
  <2>2. ResolversOK'
    BY <1>1, <1>0 DEF CoreTypes, Links, ResolversOK, Open, Running, DispatchClosed,
        Refuse, resolverVars, stateVars
  <2>3. RegistryConsistent'
    BY <1>1, <1>0 DEF CoreTypes, Links, RegistryConsistent, ResolversOK, CallsOK,
        Open, Running, DispatchClosed, Refuse, resolverVars, stateVars
  <2>4. AcceptedOnce'
    BY <1>1, <1>0 DEF CoreTypes, Links, CallsOK, ResolversOK, PublicationOK,
        RegistryConsistent, PublishedBeforeWake, AcceptedOnce, Open, Running,
        Receipts, Success, BrowserErrors, Refusals, Losses, DispatchClosed, Refuse,
        resolverVars, stateVars
  <2>5. PublicationOK' /\ PublishedBeforeWake'
    BY <1>1 DEF Links, PublicationOK, PublishedBeforeWake, DispatchClosed, Refuse,
        resolverVars, stateVars
  <2>6. QED
    BY <2>1, <2>2, <2>3, <2>4, <2>5 DEF Links
<1>2. CASE \E id \in Ids : DispatchUsedId(t, id)
  <2>1. CallsOK'
    BY <1>2, <1>0 DEF CoreTypes, Links, CallsOK, ResolversOK, PublicationOK,
        RegistryConsistent, PublishedBeforeWake, AcceptedOnce, Open, Running,
        Receipts, Success, BrowserErrors, Refusals, Losses, DispatchUsedId, Refuse,
        resolverVars, stateVars
  <2>2. ResolversOK'
    BY <1>2, <1>0 DEF CoreTypes, Links, ResolversOK, Open, Running, DispatchUsedId,
        Refuse, resolverVars, stateVars
  <2>3. RegistryConsistent'
    BY <1>2, <1>0 DEF CoreTypes, Links, RegistryConsistent, ResolversOK, CallsOK,
        Open, Running, DispatchUsedId, Refuse, resolverVars, stateVars
  <2>4. AcceptedOnce'
    BY <1>2, <1>0 DEF CoreTypes, Links, CallsOK, ResolversOK, PublicationOK,
        RegistryConsistent, PublishedBeforeWake, AcceptedOnce, Open, Running,
        Receipts, Success, BrowserErrors, Refusals, Losses, DispatchUsedId, Refuse,
        resolverVars, stateVars
  <2>5. PublicationOK' /\ PublishedBeforeWake'
    BY <1>2 DEF Links, PublicationOK, PublishedBeforeWake, DispatchUsedId, Refuse,
        resolverVars, stateVars
  <2>6. QED
    BY <2>1, <2>2, <2>3, <2>4, <2>5 DEF Links
<1>3. CASE \E id \in Ids : DispatchOverLimit(t, id)
  <2>1. CallsOK'
    BY <1>3, <1>0 DEF CoreTypes, Links, CallsOK, ResolversOK, PublicationOK,
        RegistryConsistent, PublishedBeforeWake, AcceptedOnce, Open, Running,
        Receipts, Success, BrowserErrors, Refusals, Losses, DispatchOverLimit,
        Refuse, resolverVars, stateVars
  <2>2. ResolversOK'
    BY <1>3, <1>0 DEF CoreTypes, Links, ResolversOK, Open, Running,
        DispatchOverLimit, Refuse, resolverVars, stateVars
  <2>3. RegistryConsistent'
    BY <1>3, <1>0 DEF CoreTypes, Links, RegistryConsistent, ResolversOK, CallsOK,
        Open, Running, DispatchOverLimit, Refuse, resolverVars, stateVars
  <2>4. AcceptedOnce'
    BY <1>3, <1>0 DEF CoreTypes, Links, CallsOK, ResolversOK, PublicationOK,
        RegistryConsistent, PublishedBeforeWake, AcceptedOnce, Open, Running,
        Receipts, Success, BrowserErrors, Refusals, Losses, DispatchOverLimit,
        Refuse, resolverVars, stateVars
  <2>5. PublicationOK' /\ PublishedBeforeWake'
    BY <1>3 DEF Links, PublicationOK, PublishedBeforeWake, DispatchOverLimit,
        Refuse, resolverVars, stateVars
  <2>6. QED
    BY <2>1, <2>2, <2>3, <2>4, <2>5 DEF Links
<1>4. CASE \E id \in Ids : DispatchDenied(t, id)
  <2>1. CallsOK'
    BY <1>4, <1>0 DEF CoreTypes, Links, CallsOK, ResolversOK, PublicationOK,
        RegistryConsistent, PublishedBeforeWake, AcceptedOnce, Open, Running,
        Receipts, Success, BrowserErrors, Refusals, Losses, DispatchDenied, Refuse,
        resolverVars, stateVars
  <2>2. ResolversOK'
    BY <1>4, <1>0 DEF CoreTypes, Links, ResolversOK, Open, Running, DispatchDenied,
        Refuse, resolverVars, stateVars
  <2>3. RegistryConsistent'
    BY <1>4, <1>0 DEF CoreTypes, Links, RegistryConsistent, ResolversOK, CallsOK,
        Open, Running, DispatchDenied, Refuse, resolverVars, stateVars
  <2>4. AcceptedOnce'
    BY <1>4, <1>0 DEF CoreTypes, Links, CallsOK, ResolversOK, PublicationOK,
        RegistryConsistent, PublishedBeforeWake, AcceptedOnce, Open, Running,
        Receipts, Success, BrowserErrors, Refusals, Losses, DispatchDenied, Refuse,
        resolverVars, stateVars
  <2>5. PublicationOK' /\ PublishedBeforeWake'
    BY <1>4 DEF Links, PublicationOK, PublishedBeforeWake, DispatchDenied, Refuse,
        resolverVars, stateVars
  <2>6. QED
    BY <2>1, <2>2, <2>3, <2>4, <2>5 DEF Links
<1>5. CASE \E id \in Ids : DispatchOpen(t, id)
  <2>1. CallsOK'
    BY <1>5, <1>0 DEF CoreTypes, Links, CallsOK, DispatchOpen, FreshId, Closed,
        resolverVars, stateVars
  <2>2. ResolversOK'
    BY <1>5, <1>0 DEF CoreTypes, Links, ResolversOK, Open, Running, DispatchOpen,
        FreshId, Closed, resolverVars, stateVars
  <2>3. RegistryConsistent'
    BY <1>5, <1>0 DEF CoreTypes, Links, RegistryConsistent, ResolversOK, CallsOK,
        Open, Running, DispatchOpen, FreshId, Closed, resolverVars, stateVars
  <2>4. PublicationOK' /\ PublishedBeforeWake' /\ AcceptedOnce'
    BY <1>5 DEF Links, PublicationOK, PublishedBeforeWake, AcceptedOnce,
        DispatchOpen, FreshId, Closed, resolverVars, stateVars
  <2>5. QED
    BY <2>1, <2>2, <2>3, <2>4 DEF Links
<1>6. QED
  BY <1>1, <1>2, <1>3, <1>4, <1>5 DEF Dispatch

\* A call that ends takes its registration and its update tasks with it, and
\* leaves accepted receipts as they are.
LEMMA ToolLinks ==
  ASSUME TypeOK, Links, NEW t \in Tools,
         ToolStep(t) \/ SendRaises(t) \/ Expire(t) \/ DispatchCancelled(t)
  PROVE  Links'
<1>0. CoreTypes
  BY TypesOfCore
<1>1. CASE SendPut(t)
  <2>1. CallsOK'
    BY <1>1 DEF Links, CallsOK, SendPut, resolverVars, stateVars
  <2>2. RegistryConsistent'
    BY <1>1 DEF Links, RegistryConsistent, SendPut, resolverVars, stateVars
  <2>3. ResolversOK' /\ PublicationOK' /\ PublishedBeforeWake' /\ AcceptedOnce'
    BY <1>1 DEF Links, ResolversOK, PublicationOK, PublishedBeforeWake,
        AcceptedOnce, SendPut, resolverVars, stateVars
  <2>4. QED
    BY <2>1, <2>2, <2>3 DEF Links
<1>2. CASE SendRaises(t)
  <2>1. CallsOK'
    BY <1>2 DEF Links, CallsOK, SendRaises, resolverVars, stateVars
  <2>2. RegistryConsistent'
    BY <1>2 DEF Links, RegistryConsistent, SendRaises, resolverVars, stateVars
  <2>3. ResolversOK' /\ PublicationOK' /\ PublishedBeforeWake' /\ AcceptedOnce'
    BY <1>2 DEF Links, ResolversOK, PublicationOK, PublishedBeforeWake,
        AcceptedOnce, SendRaises, resolverVars, stateVars
  <2>4. QED
    BY <2>1, <2>2, <2>3 DEF Links
<1>3. CASE SendNext(t)
  <2>1. CallsOK'
    BY <1>3, <1>0 DEF CoreTypes, Links, CallsOK, Open, Running, SendNext,
        resolverVars, stateVars
  <2>2. ResolversOK'
    BY <1>3, <1>0 DEF CoreTypes, Links, ResolversOK, Open, Running, SendNext,
        resolverVars, stateVars
  <2>3. RegistryConsistent'
    BY <1>3, <1>0 DEF CoreTypes, Links, RegistryConsistent, Open, Running, SendNext,
        resolverVars, stateVars
  <2>4. PublicationOK' /\ PublishedBeforeWake' /\ AcceptedOnce'
    BY <1>3 DEF Links, PublicationOK, PublishedBeforeWake, AcceptedOnce, SendNext,
        resolverVars, stateVars
  <2>5. QED
    BY <2>1, <2>2, <2>3, <2>4 DEF Links
<1>4. CASE Expire(t)
  <2>1. /\ CallsOK' /\ ResolversOK' /\ PublicationOK'
        /\ RegistryConsistent' /\ PublishedBeforeWake' /\ AcceptedOnce'
    BY <1>4 DEF Links, CallsOK, ResolversOK, PublicationOK, RegistryConsistent,
        PublishedBeforeWake, AcceptedOnce, Expire, resolverVars, stateVars
  <2>2. QED
    BY <2>1 DEF Links
<1>5. CASE DispatchSendFailed(t)
  <2>1. CallsOK'
    BY <1>5, <1>0 DEF CoreTypes, Links, CallsOK, ResolversOK, PublicationOK,
        RegistryConsistent, PublishedBeforeWake, AcceptedOnce, Open, Running,
        Receipts, Success, BrowserErrors, Refusals, Losses, DispatchSendFailed,
        Finish, CancelSend, resolverVars, stateVars
  <2>2. ResolversOK'
    BY <1>5, <1>0 DEF CoreTypes, Links, CallsOK, ResolversOK, PublicationOK,
        RegistryConsistent, PublishedBeforeWake, AcceptedOnce, Open, Running,
        Receipts, Success, BrowserErrors, Refusals, Losses, DispatchSendFailed,
        Finish, CancelSend, CancelUpdates, resolverVars, stateVars
  <2>3. PublicationOK'
    BY <1>5 DEF Links, PublicationOK, DispatchSendFailed, Finish, CancelSend, CancelUpdates,
        resolverVars, stateVars
  <2>4. RegistryConsistent'
    BY <1>5, <1>0 DEF CoreTypes, Links, RegistryConsistent, Open, Running,
        DispatchSendFailed, Finish, CancelSend, CancelUpdates, resolverVars, stateVars
  <2>5. PublishedBeforeWake'
    BY <1>5 DEF Links, PublishedBeforeWake, DispatchSendFailed, Finish, CancelSend,
        resolverVars, stateVars
  <2>6. AcceptedOnce'
    BY <1>5, <1>0 DEF CoreTypes, Links, CallsOK, ResolversOK, PublicationOK,
        RegistryConsistent, PublishedBeforeWake, AcceptedOnce, Open, Running,
        Receipts, Success, BrowserErrors, Refusals, Losses, DispatchSendFailed,
        Finish, CancelSend, resolverVars, stateVars
  <2>7. QED
    BY <2>1, <2>2, <2>3, <2>4, <2>5, <2>6 DEF Links
<1>6. CASE DispatchResult(t)
  <2>1. CallsOK'
    BY <1>6, <1>0 DEF CoreTypes, Links, CallsOK, Open, Running, DispatchResult,
        Finish, CancelSend, resolverVars, stateVars
  <2>2. ResolversOK'
    BY <1>6 DEF Links, ResolversOK, DispatchResult, Finish, CancelSend, CancelUpdates,
        resolverVars, stateVars
  <2>3. PublicationOK'
    BY <1>6 DEF Links, PublicationOK, DispatchResult, Finish, CancelSend, CancelUpdates,
        resolverVars, stateVars
  <2>4. RegistryConsistent'
    BY <1>6, <1>0 DEF CoreTypes, Links, RegistryConsistent, Open, Running,
        DispatchResult, Finish, CancelSend, CancelUpdates, resolverVars, stateVars
  <2>5. PublishedBeforeWake'
    BY <1>6 DEF Links, PublishedBeforeWake, DispatchResult, Finish, CancelSend, resolverVars,
        stateVars
  <2>6. AcceptedOnce'
    BY <1>6 DEF Links, AcceptedOnce, DispatchResult, Finish, CancelSend, resolverVars, stateVars
  <2>7. QED
    BY <2>1, <2>2, <2>3, <2>4, <2>5, <2>6 DEF Links
<1>7. CASE DispatchTimeout(t)
  <2>1. CallsOK'
    BY <1>7, <1>0 DEF CoreTypes, Links, CallsOK, Open, Running, DispatchTimeout,
        Finish, CancelSend, resolverVars, stateVars
  <2>2. ResolversOK'
    BY <1>7, <1>0 DEF CoreTypes, Links, CallsOK, ResolversOK, PublicationOK,
        RegistryConsistent, PublishedBeforeWake, AcceptedOnce, Open, Running,
        Receipts, Success, BrowserErrors, Refusals, Losses, DispatchTimeout, Finish, CancelSend,
        CancelUpdates, resolverVars, stateVars
  <2>3. PublicationOK'
    BY <1>7 DEF Links, PublicationOK, DispatchTimeout, Finish, CancelSend, CancelUpdates,
        resolverVars, stateVars
  <2>4. RegistryConsistent'
    BY <1>7, <1>0 DEF CoreTypes, Links, RegistryConsistent, Open, Running,
        DispatchTimeout, Finish, CancelSend, CancelUpdates, resolverVars, stateVars
  <2>5. PublishedBeforeWake'
    BY <1>7 DEF Links, PublishedBeforeWake, DispatchTimeout, Finish, CancelSend, resolverVars,
        stateVars
  <2>6. AcceptedOnce'
    BY <1>7, <1>0 DEF CoreTypes, Links, CallsOK, ResolversOK, PublicationOK,
        RegistryConsistent, PublishedBeforeWake, AcceptedOnce, Open, Running,
        Receipts, Success, BrowserErrors, Refusals, Losses, DispatchTimeout, Finish, CancelSend,
        resolverVars, stateVars
  <2>7. QED
    BY <2>1, <2>2, <2>3, <2>4, <2>5, <2>6 DEF Links
<1>8. CASE DispatchCancelled(t)
  <2>1. CallsOK'
    BY <1>8, <1>0 DEF CoreTypes, Links, CallsOK, Open, Running, DispatchCancelled,
        Finish, CancelSend, resolverVars, stateVars
  <2>2. ResolversOK'
    BY <1>8, <1>0 DEF CoreTypes, Links, CallsOK, ResolversOK, PublicationOK,
        RegistryConsistent, PublishedBeforeWake, AcceptedOnce, Open, Running,
        Receipts, Success, BrowserErrors, Refusals, Losses, DispatchCancelled,
        Finish, CancelSend, CancelUpdates, resolverVars, stateVars
  <2>3. PublicationOK'
    BY <1>8 DEF Links, PublicationOK, DispatchCancelled, Finish, CancelSend, CancelUpdates,
        resolverVars, stateVars
  <2>4. RegistryConsistent'
    BY <1>8, <1>0 DEF CoreTypes, Links, RegistryConsistent, Open, Running,
        DispatchCancelled, Finish, CancelSend, CancelUpdates, resolverVars, stateVars
  <2>5. PublishedBeforeWake'
    BY <1>8 DEF Links, PublishedBeforeWake, DispatchCancelled, Finish, CancelSend, resolverVars,
        stateVars
  <2>6. AcceptedOnce'
    BY <1>8, <1>0 DEF CoreTypes, Links, CallsOK, ResolversOK, PublicationOK,
        RegistryConsistent, PublishedBeforeWake, AcceptedOnce, Open, Running,
        Receipts, Success, BrowserErrors, Refusals, Losses, DispatchCancelled,
        Finish, CancelSend, resolverVars, stateVars
  <2>7. QED
    BY <2>1, <2>2, <2>3, <2>4, <2>5, <2>6 DEF Links
<1>9. QED
  BY <1>1, <1>2, <1>3, <1>4, <1>5, <1>6, <1>7, <1>8 DEF ToolStep

\* A receipt is linked to the registered call it found unsettled, under the
\* lock, and settles it at most once.
LEMMA ResolveLinks ==
  ASSUME TypeOK, Links, NEW r \in Resolvers,
         \/ \E q \in Requests : HandleToolResult(r, q)
         \/ ResolveStale(r) \/ ResolveMalformed(r) \/ ResolvePlain(r) \/ ResolveWithState(r)
         \/ ResolverCancelled(r)
  PROVE  Links'
<1>0. CoreTypes
  BY TypesOfCore
<1>1. CASE \E q \in Requests : HandleToolResult(r, q)
  <2>1. ResolversOK'
    BY <1>1, <1>0 DEF CoreTypes, Links, ResolversOK, HandleToolResult, toolVars,
        stateVars
  <2>2. PublicationOK'
    BY <1>1, <1>0 DEF CoreTypes, Links, PublicationOK, RegistryConsistent,
        ResolversOK, CallsOK, Open, Running, HandleToolResult, toolVars, stateVars
  <2>3. AcceptedOnce'
    BY <1>1, <1>0 DEF CoreTypes, Links, AcceptedOnce, HandleToolResult, toolVars,
        stateVars
  <2>4. CallsOK' /\ RegistryConsistent' /\ PublishedBeforeWake'
    BY <1>1 DEF Links, CallsOK, RegistryConsistent, PublishedBeforeWake,
        HandleToolResult, toolVars, stateVars
  <2>5. QED
    BY <2>1, <2>2, <2>3, <2>4 DEF Links
<1>2. CASE ResolveStale(r)
  <2>1. ResolversOK'
    BY <1>2, <1>0 DEF CoreTypes, Links, ResolversOK, ResolveStale, HasLock, Answer,
        Unchanged4Reply, toolVars, stateVars
  <2>2. PublicationOK'
    BY <1>2, <1>0 DEF CoreTypes, Links, PublicationOK, ResolveStale, HasLock,
        Answer, Unchanged4Reply, toolVars, stateVars
  <2>3. RegistryConsistent'
    BY <1>2, <1>0 DEF CoreTypes, Links, RegistryConsistent, Open, Running,
        ResolveStale, HasLock, Answer, Unchanged4Reply, toolVars, stateVars
  <2>4. AcceptedOnce'
    BY <1>2 DEF Links, AcceptedOnce, ResolveStale, HasLock, Answer, Unchanged4Reply,
        toolVars, stateVars
  <2>5. CallsOK' /\ PublishedBeforeWake'
    BY <1>2 DEF Links, CallsOK, PublishedBeforeWake, ResolveStale, HasLock, Answer,
        Unchanged4Reply, toolVars, stateVars
  <2>6. QED
    BY <2>1, <2>2, <2>3, <2>4, <2>5 DEF Links
<1>3. CASE ResolveMalformed(r)
  <2>1. ResolversOK'
    BY <1>3, <1>0 DEF CoreTypes, Links, ResolversOK, ResolveMalformed, HasLock,
        Answer, Unchanged4Reply, toolVars, stateVars
  <2>2. PublicationOK'
    BY <1>3, <1>0 DEF CoreTypes, Links, PublicationOK, ResolveMalformed, HasLock,
        Answer, Unchanged4Reply, toolVars, stateVars
  <2>3. RegistryConsistent'
    BY <1>3, <1>0 DEF CoreTypes, Links, RegistryConsistent, Open, Running,
        ResolveMalformed, HasLock, Answer, Unchanged4Reply, toolVars, stateVars
  <2>4. AcceptedOnce'
    BY <1>3 DEF Links, AcceptedOnce, ResolveMalformed, HasLock, Answer,
        Unchanged4Reply, toolVars, stateVars
  <2>5. CallsOK' /\ PublishedBeforeWake'
    BY <1>3 DEF Links, CallsOK, PublishedBeforeWake, ResolveMalformed, HasLock,
        Answer, Unchanged4Reply, toolVars, stateVars
  <2>6. QED
    BY <2>1, <2>2, <2>3, <2>4, <2>5 DEF Links
<1>4. CASE ResolvePlain(r)
  <2>1. /\ pending[request[r].id] \in Tools
        /\ pc[pending[request[r].id]] \in Open /\ future[pending[request[r].id]] = "unset"
        /\ ~Resolving(pending[request[r].id])
        /\ outcome[pending[request[r].id]] = "none"
    BY <1>0, <1>4, RequestType2
    DEF CoreTypes, Links, ResolversOK, RegistryConsistent, CallsOK, ResolvePlain, HasLock, Acceptable
  <2>2. CallsOK'
    BY <1>4, <2>1, <1>0 DEF CoreTypes, Links, CallsOK, Open, Running, ResolvePlain,
        HasLock, Settle, Answer, Unchanged4Reply, toolVars, stateVars
  <2>3. ResolversOK'
    BY <1>4, <2>1, <1>0 DEF CoreTypes, Links, CallsOK, ResolversOK, PublicationOK,
        RegistryConsistent, PublishedBeforeWake, AcceptedOnce, Open, Running,
        Receipts, Success, BrowserErrors, Refusals, Losses, ResolvePlain, HasLock,
        Settle, Answer, Unchanged4Reply, Resolving, toolVars, stateVars
  <2>4. PublicationOK'
    BY <1>4, <2>1, <1>0 DEF CoreTypes, Links, PublicationOK, ResolvePlain, HasLock,
        Settle, Answer, Unchanged4Reply, toolVars, stateVars
  <2>5. RegistryConsistent'
    BY <1>4, <2>1, <1>0 DEF CoreTypes, Links, RegistryConsistent, Open, Running,
        ResolvePlain, HasLock, Settle, Answer, Unchanged4Reply, toolVars, stateVars
  <2>6. PublishedBeforeWake'
    BY <1>4, <2>1, <1>0 DEF CoreTypes, Links, PublishedBeforeWake, ResolvePlain,
        HasLock, Settle, Answer, Unchanged4Reply, toolVars, stateVars
  <2>7. AcceptedOnce'
    BY <1>4, <2>1, <1>0 DEF CoreTypes, Links, CallsOK, ResolversOK, PublicationOK,
        RegistryConsistent, PublishedBeforeWake, AcceptedOnce, Open, Running,
        Receipts, Success, BrowserErrors, Refusals, Losses, ResolvePlain, HasLock,
        Settle, Answer, Unchanged4Reply, Resolving, toolVars, stateVars
  <2>8. QED
    BY <2>2, <2>3, <2>4, <2>5, <2>6, <2>7 DEF Links
<1>5. CASE ResolveWithState(r)
  <2>1. /\ pending[request[r].id] \in Tools
        /\ pc[pending[request[r].id]] \in Open /\ future[pending[request[r].id]] = "unset"
        /\ ~Resolving(pending[request[r].id])
    BY <1>0, <1>5, RequestType2
    DEF CoreTypes, Links, ResolversOK, RegistryConsistent, ResolveWithState, HasLock, Acceptable
  <2>2. ResolversOK'
    BY <1>5, <2>1, <1>0 DEF CoreTypes, Links, CallsOK, ResolversOK, PublicationOK,
        RegistryConsistent, PublishedBeforeWake, AcceptedOnce, Open, Running,
        Receipts, Success, BrowserErrors, Refusals, Losses, ResolveWithState,
        HasLock, Resolving, toolVars, stateVars
  <2>3. PublicationOK'
    BY <1>5, <2>1 DEF Links, PublicationOK, ResolveWithState, HasLock, toolVars,
        stateVars
  <2>4. RegistryConsistent'
    BY <1>5, <2>1, <1>0 DEF CoreTypes, Links, RegistryConsistent, Open, Running,
        ResolveWithState, HasLock, toolVars, stateVars
  <2>5. AcceptedOnce'
    BY <1>5, <2>1, <1>0 DEF CoreTypes, Links, CallsOK, ResolversOK, PublicationOK,
        RegistryConsistent, PublishedBeforeWake, AcceptedOnce, Open, Running,
        Receipts, Success, BrowserErrors, Refusals, Losses, ResolveWithState,
        HasLock, Resolving, toolVars, stateVars
  <2>6. CallsOK' /\ PublishedBeforeWake'
    BY <1>5, <2>1 DEF Links, CallsOK, PublishedBeforeWake, ResolveWithState,
        HasLock, toolVars, stateVars
  <2>7. QED
    BY <2>2, <2>3, <2>4, <2>5, <2>6 DEF Links
<1>6. CASE ResolverCancelled(r)
  <2>1. ResolversOK'
    BY <1>6, <1>0 DEF CoreTypes, Links, ResolversOK, Open, Running,
        ResolverCancelled, Answer, Unchanged4Reply, toolVars, stateVars
  <2>2. PublicationOK'
    BY <1>6, <1>0 DEF CoreTypes, Links, PublicationOK, ResolverCancelled, Answer,
        Unchanged4Reply, toolVars, stateVars
  <2>3. RegistryConsistent'
    BY <1>6, <1>0 DEF CoreTypes, Links, RegistryConsistent, ResolverCancelled,
        Answer, Unchanged4Reply, toolVars, stateVars
  <2>4. AcceptedOnce'
    BY <1>6, <1>0 DEF CoreTypes, Links, AcceptedOnce, ResolverCancelled, Answer,
        Unchanged4Reply, toolVars, stateVars
  <2>5. CallsOK' /\ PublishedBeforeWake'
    BY <1>6 DEF Links, CallsOK, PublishedBeforeWake, ResolverCancelled, Answer,
        Unchanged4Reply, toolVars, stateVars
  <2>6. QED
    BY <2>1, <2>2, <2>3, <2>4, <2>5 DEF Links
<1>7. QED
  BY <1>1, <1>2, <1>3, <1>4, <1>5, <1>6

\* The update task publishes its revision before it is done.
LEMMA UpdateLinks ==
  ASSUME TypeOK, Links, NEW r \in Resolvers,
         \/ UpdateRefused(r) \/ UpdateCommit(r) \/ NoticeCreated(r) \/ NoticeFailed(r)
         \/ SnapshotPut(r)
  PROVE  Links'
<1>0. CoreTypes
  BY TypesOfCore
<1>1. CASE UpdateRefused(r)
  <2>1. ResolversOK'
    BY <1>1, <1>0 DEF CoreTypes, Links, ResolversOK, UpdateRefused, Verdict,
        UnchangedByUpdate, toolVars, stateVars
  <2>2. PublicationOK'
    BY <1>1 DEF Links, PublicationOK, UpdateRefused, Verdict, UnchangedByUpdate,
        toolVars, stateVars
  <2>3. RegistryConsistent'
    BY <1>1, <1>0 DEF CoreTypes, Links, RegistryConsistent, UpdateRefused, Verdict,
        UnchangedByUpdate, toolVars, stateVars
  <2>4. CallsOK' /\ PublishedBeforeWake' /\ AcceptedOnce'
    BY <1>1 DEF Links, CallsOK, PublishedBeforeWake, AcceptedOnce, UpdateRefused,
        Verdict, UnchangedByUpdate, toolVars, stateVars
  <2>5. QED
    BY <2>1, <2>2, <2>3, <2>4 DEF Links
<1>2. CASE UpdateCommit(r)
  <2>1. /\ rpc[r] = "updating" /\ \A s \in Resolvers \ {r} : update[s] = "none"
        /\ request[r].update.version \in Nat /\ request[r].update.version = revision + 1
    BY <1>0, <1>2, RequestType2
    DEF CoreTypes, Links, ResolversOK, UpdateCommit, Verdict, Revisions
  <2>2. ResolversOK'
    BY <1>2, <2>1, <1>0 DEF CoreTypes, Links, ResolversOK, Open, Running,
        UpdateCommit, PutSnapshot, UnchangedByUpdate, toolVars, stateVars
  <2>3. PublicationOK'
    BY <1>2, <2>1, <1>0 DEF CoreTypes, Links, PublicationOK, UpdateCommit,
        PutSnapshot, UnchangedByUpdate, toolVars, stateVars
  <2>4. RegistryConsistent'
    BY <1>2, <2>1, <1>0 DEF CoreTypes, Links, RegistryConsistent, Open, Running,
        UpdateCommit, PutSnapshot, UnchangedByUpdate, toolVars, stateVars
  <2>5. PublishedBeforeWake'
    BY <1>2, <2>1, <1>0 DEF CoreTypes, Links, PublishedBeforeWake, UpdateCommit,
        PutSnapshot, UnchangedByUpdate, toolVars, stateVars
  <2>6. CallsOK' /\ AcceptedOnce'
    BY <1>2, <2>1 DEF Links, CallsOK, AcceptedOnce, UpdateCommit, PutSnapshot,
        UnchangedByUpdate, toolVars, stateVars
  <2>7. QED
    BY <2>2, <2>3, <2>4, <2>5, <2>6 DEF Links
<1>3. CASE NoticeCreated(r)
  <2>1. ResolversOK'
    BY <1>3, <1>0 DEF CoreTypes, Links, ResolversOK, Open, Running, NoticeCreated,
        PutSnapshot, UnchangedByUpdate, toolVars, stateVars
  <2>2. PublicationOK'
    BY <1>3, <1>0 DEF CoreTypes, Links, PublicationOK, NoticeCreated, PutSnapshot,
        UnchangedByUpdate, toolVars, stateVars
  <2>3. RegistryConsistent'
    BY <1>3, <1>0 DEF CoreTypes, Links, RegistryConsistent, Open, Running,
        NoticeCreated, PutSnapshot, UnchangedByUpdate, toolVars, stateVars
  <2>4. PublishedBeforeWake'
    BY <1>3 DEF Links, PublishedBeforeWake, NoticeCreated, PutSnapshot,
        UnchangedByUpdate, toolVars, stateVars
  <2>5. CallsOK' /\ AcceptedOnce'
    BY <1>3 DEF Links, CallsOK, AcceptedOnce, NoticeCreated, PutSnapshot,
        UnchangedByUpdate, toolVars, stateVars
  <2>6. QED
    BY <2>1, <2>2, <2>3, <2>4, <2>5 DEF Links
<1>4. CASE NoticeFailed(r)
  <2>1. ResolversOK'
    BY <1>4, <1>0 DEF CoreTypes, Links, ResolversOK, NoticeFailed,
        UnchangedByUpdate, toolVars, stateVars
  <2>2. PublicationOK'
    BY <1>4 DEF Links, PublicationOK, NoticeFailed, UnchangedByUpdate, toolVars,
        stateVars
  <2>3. RegistryConsistent'
    BY <1>4, <1>0 DEF CoreTypes, Links, RegistryConsistent, NoticeFailed,
        UnchangedByUpdate, toolVars, stateVars
  <2>4. CallsOK' /\ PublishedBeforeWake' /\ AcceptedOnce'
    BY <1>4 DEF Links, CallsOK, PublishedBeforeWake, AcceptedOnce, NoticeFailed,
        UnchangedByUpdate, toolVars, stateVars
  <2>5. QED
    BY <2>1, <2>2, <2>3, <2>4 DEF Links
<1>5. CASE SnapshotPut(r)
  <2>1. ResolversOK'
    BY <1>5, <1>0 DEF CoreTypes, Links, ResolversOK, Open, Running, SnapshotPut,
        PutSnapshot, UnchangedByUpdate, toolVars, stateVars
  <2>2. PublicationOK'
    BY <1>5, <1>0 DEF CoreTypes, Links, PublicationOK, SnapshotPut, PutSnapshot,
        UnchangedByUpdate, toolVars, stateVars
  <2>3. RegistryConsistent'
    BY <1>5, <1>0 DEF CoreTypes, Links, RegistryConsistent, Open, Running,
        SnapshotPut, PutSnapshot, UnchangedByUpdate, toolVars, stateVars
  <2>4. PublishedBeforeWake'
    BY <1>5 DEF Links, PublishedBeforeWake, SnapshotPut, PutSnapshot,
        UnchangedByUpdate, toolVars, stateVars
  <2>5. CallsOK' /\ AcceptedOnce'
    BY <1>5 DEF Links, CallsOK, AcceptedOnce, SnapshotPut, PutSnapshot,
        UnchangedByUpdate, toolVars, stateVars
  <2>6. QED
    BY <2>1, <2>2, <2>3, <2>4, <2>5 DEF Links
<1>6. QED
  BY <1>1, <1>2, <1>3, <1>4, <1>5

\* A resolver that resumes settles only a call that is still unsettled.
LEMMA ResumeLinks ==
  ASSUME TypeOK, Links, NEW r \in Resolvers,
         ResumeSettle(r) \/ ResumeFailed(r) \/ ResumeCancelled(r) \/ ResumeTimeout(r)
  PROVE  Links'
<1>0. CoreTypes
  BY TypesOfCore
<1>1. CASE ResumeSettle(r)
  <2>1. /\ target[r] \in Tools /\ rpc[r] = "updating"
        /\ \E a \in {"true", "false"} : Answer(r, a)
        /\ \/ /\ future[target[r]] # "unset" /\ UNCHANGED <<future, woken>>
              /\ target' = [target EXCEPT ![r] = None] /\ reply'[r] = "false"
           \/ \E v \in Receipts, n \in 0..MaxRevision :
                /\ future[target[r]] = "unset" /\ Settle(r, target[r], v, n)
                /\ n # 0 => update[r] = "done" /\ n = request[r].update.version
    <3>1. target[r] \in Tools /\ rpc[r] = "updating" /\ request[r].update.version \in Revisions
      BY <1>0, <1>1, RequestType2 DEF CoreTypes, Links, ResolversOK, ResumeSettle, SettledWith, Resumes
    <3>2. CASE future[target[r]] = "unset"
      <4>1. 0 \in 0..MaxRevision /\ request[r].update.version \in 0..MaxRevision
        BY <3>1, ConstantsAssumption DEF Revisions
      <4>2. PICK v \in Receipts, n \in 0..MaxRevision :
              /\ Settle(r, target[r], v, n)
              /\ n # 0 => update[r] = "done" /\ n = request[r].update.version
        BY <1>1, <3>2, <4>1 DEF ResumeSettle, SettledWith, Receipts, Success, BrowserErrors
      <4>3. QED
        BY <3>1, <3>2, <4>2 DEF Settle
    <3>3. CASE future[target[r]] # "unset"
      BY <1>0, <1>1, <3>1, <3>3 DEF CoreTypes, ResumeSettle, Answer
    <3>4. QED
      BY <3>2, <3>3
  <2>2. CallsOK'
    <3>2. UNCHANGED <<pc, call, send, phase, outcome, used, run>>
      BY <1>1 DEF ResumeSettle, Resumes, Unchanged4Reply
    <3>3. CASE UNCHANGED <<future, woken>>
      BY <3>2, <3>3 DEF Links, CallsOK
    <3>4. ASSUME NEW v \in Receipts, NEW n, future[target[r]] = "unset",
                 Settle(r, target[r], v, n)
          PROVE  CallsOK'
      <4>1. future' = [future EXCEPT ![target[r]] = v] /\ v # "unset"
        BY <3>4 DEF Settle, Receipts, Success, BrowserErrors
      <4>2. pc[target[r]] # "idle" /\ outcome[target[r]] = "none"
        BY <1>0, <2>1, <3>4 DEF CoreTypes, Links, CallsOK, ResolversOK, Open
      <4>3. QED
        BY <1>0, <2>1, <3>2, <4>1, <4>2 DEF CoreTypes, Links, CallsOK
    <3>5. QED
      BY <2>1, <3>3, <3>4
  <2>3. ResolversOK'
    BY <1>1, <2>1, <1>0 DEF CoreTypes, Links, ResolversOK, Open, Running,
        ResumeSettle, SettledWith, Resumes, Settle, Answer, Unchanged4Reply, stateVars
  <2>4. PublicationOK'
    BY <1>1, <2>1, <1>0 DEF CoreTypes, Links, PublicationOK, ResumeSettle, SettledWith, Resumes,
        Settle, Answer, Unchanged4Reply, stateVars
  <2>5. RegistryConsistent'
    BY <1>1, <2>1, <1>0 DEF CoreTypes, Links, RegistryConsistent, Open, Running,
        ResumeSettle, SettledWith, Resumes, Settle, Answer, Unchanged4Reply, stateVars
  <2>6. PublishedBeforeWake'
    <3>1. UNCHANGED <<revision, noticed, published>>
      BY <1>1 DEF ResumeSettle, Resumes, Unchanged4Reply, stateVars
    <3>2. CASE UNCHANGED <<future, woken>>
      BY <3>1, <3>2 DEF Links, PublishedBeforeWake
    <3>3. ASSUME NEW n \in 0..MaxRevision, woken' = [woken EXCEPT ![target[r]] = n],
                 \E v \in Receipts : future' = [future EXCEPT ![target[r]] = v],
                 n # 0 => update[r] = "done" /\ n = request[r].update.version
          PROVE  PublishedBeforeWake'
      <4>1. n # 0 => n <= revision /\ n \in noticed \cap published
        BY <3>3 DEF Links, PublicationOK
      <4> QED
        BY <1>0, <3>1, <3>3, <4>1 DEF CoreTypes, Links, PublishedBeforeWake
    <3> QED
      BY <2>1, <3>2, <3>3 DEF Settle
  <2>7. AcceptedOnce'
    <3>1. CASE UNCHANGED future /\ target' = [target EXCEPT ![r] = None] /\ reply'[r] = "false"
      BY <1>1, <2>1, <1>0, <3>1 DEF CoreTypes, Links, AcceptedOnce, ResumeSettle, Resumes,
        Answer, Unchanged4Reply
    <3>2. ASSUME NEW v \in Receipts, NEW n, future[target[r]] = "unset",
                 Settle(r, target[r], v, n)
          PROVE  AcceptedOnce'
      <4>1. \A s \in Resolvers : reply[s] = "true" => target[s] # target[r]
        BY <1>0, <3>2 DEF CoreTypes, Links, AcceptedOnce, Receipts, Success, BrowserErrors
      <4>2. outcome[target[r]] = "none"
        BY <1>0, <2>1, <3>2 DEF CoreTypes, Links, CallsOK, ResolversOK
      <4>3. /\ future' = [future EXCEPT ![target[r]] = v] /\ outcome' = outcome
            /\ target' = [target EXCEPT ![r] = target[r]]
            /\ reply' = [reply EXCEPT ![r] = "true"]
        BY <1>1, <3>2 DEF Settle, Answer, ResumeSettle, Resumes, Unchanged4Reply
      <4>4. ASSUME NEW s \in Resolvers, reply'[s] = "true"
            PROVE  /\ future'[target'[s]] \in Receipts
                   /\ outcome'[target'[s]] \in {"none", future'[target'[s]], "timeout", "cancelled"}
        <5>1. CASE s = r
          BY <1>0, <2>1, <4>2, <4>3, <5>1 DEF CoreTypes
        <5>2. CASE s # r
          BY <1>0, <2>1, <4>1, <4>3, <4>4, <5>2 DEF CoreTypes, Links, AcceptedOnce
        <5>3. QED
          BY <5>1, <5>2
      <4>5. ASSUME NEW r1 \in Resolvers, NEW r2 \in Resolvers, reply'[r1] = "true",
                   reply'[r2] = "true", target'[r1] = target'[r2]
            PROVE  r1 = r2
        BY <1>0, <4>1, <4>3, <4>5 DEF CoreTypes, Links, AcceptedOnce
      <4>6. QED
        BY <4>4, <4>5 DEF AcceptedOnce
    <3>3. QED
      BY <1>1, <2>1, <3>1, <3>2 DEF ResumeSettle, SettledWith
  <2>8. QED
    BY <2>2, <2>3, <2>4, <2>5, <2>6, <2>7 DEF Links
<1>2. CASE ResumeFailed(r)
  <2>1. ResolversOK'
    BY <1>2, <1>0 DEF CoreTypes, Links, ResolversOK, Open, Running, ResumeFailed,
        Resumes, Answer, Unchanged4Reply, stateVars
  <2>2. PublicationOK'
    BY <1>2 DEF Links, PublicationOK, ResumeFailed, Resumes, Answer,
        Unchanged4Reply, stateVars
  <2>3. RegistryConsistent'
    BY <1>2, <1>0 DEF CoreTypes, Links, RegistryConsistent, ResumeFailed, Resumes,
        Answer, Unchanged4Reply, stateVars
  <2>4. AcceptedOnce'
    BY <1>2, <1>0 DEF CoreTypes, Links, AcceptedOnce, ResumeFailed, Resumes, Answer,
        Unchanged4Reply, stateVars
  <2>5. CallsOK' /\ PublishedBeforeWake'
    BY <1>2 DEF Links, CallsOK, PublishedBeforeWake, ResumeFailed, Resumes, Answer,
        Unchanged4Reply, stateVars
  <2>6. QED
    BY <2>1, <2>2, <2>3, <2>4, <2>5 DEF Links
<1>3. CASE ResumeCancelled(r)
  <2>1. ResolversOK'
    BY <1>3, <1>0 DEF CoreTypes, Links, ResolversOK, Open, Running, ResumeCancelled,
        Resumes, Answer, Unchanged4Reply, stateVars
  <2>2. PublicationOK'
    BY <1>3 DEF Links, PublicationOK, ResumeCancelled, Resumes, Answer,
        Unchanged4Reply, stateVars
  <2>3. RegistryConsistent'
    BY <1>3, <1>0 DEF CoreTypes, Links, RegistryConsistent, ResumeCancelled,
        Resumes, Answer, Unchanged4Reply, stateVars
  <2>4. AcceptedOnce'
    BY <1>3, <1>0 DEF CoreTypes, Links, AcceptedOnce, ResumeCancelled, Resumes,
        Answer, Unchanged4Reply, stateVars
  <2>5. CallsOK' /\ PublishedBeforeWake'
    BY <1>3 DEF Links, CallsOK, PublishedBeforeWake, ResumeCancelled, Resumes,
        Answer, Unchanged4Reply, stateVars
  <2>6. QED
    BY <2>1, <2>2, <2>3, <2>4, <2>5 DEF Links
<1>4. CASE ResumeTimeout(r)
  <2>1. ResolversOK'
    BY <1>4, <1>0 DEF CoreTypes, Links, ResolversOK, Open, Running, ResumeTimeout,
        Resumes, Answer, Unchanged4Reply, stateVars
  <2>2. PublicationOK'
    BY <1>4, <1>0 DEF CoreTypes, Links, PublicationOK, ResumeTimeout, Resumes,
        Answer, Unchanged4Reply, stateVars
  <2>3. RegistryConsistent'
    BY <1>4, <1>0 DEF CoreTypes, Links, RegistryConsistent, ResumeTimeout, Resumes,
        Answer, Unchanged4Reply, stateVars
  <2>4. AcceptedOnce'
    BY <1>4, <1>0 DEF CoreTypes, Links, AcceptedOnce, ResumeTimeout, Resumes,
        Answer, Unchanged4Reply, stateVars
  <2>5. CallsOK' /\ PublishedBeforeWake'
    BY <1>4 DEF Links, CallsOK, PublishedBeforeWake, ResumeTimeout, Resumes, Answer,
        Unchanged4Reply, stateVars
  <2>6. QED
    BY <2>1, <2>2, <2>3, <2>4, <2>5 DEF Links
<1>5. QED
  BY <1>1, <1>2, <1>3, <1>4

\* disconnect() settles the unsettled calls and tears off their updates.
LEMMA RunLinks ==
  ASSUME TypeOK, Links,
         Consume \/ StopStreaming \/ EndRun
  PROVE  Links'
<1>0. CoreTypes
  BY TypesOfCore
<1>1. CASE Consume
  <2>1. /\ CallsOK' /\ ResolversOK' /\ PublicationOK'
        /\ RegistryConsistent' /\ PublishedBeforeWake' /\ AcceptedOnce'
    BY <1>1 DEF Links, CallsOK, ResolversOK, PublicationOK, RegistryConsistent,
        PublishedBeforeWake, AcceptedOnce, Consume, toolVars, resolverVars,
        stateVars
  <2>2. QED
    BY <2>1 DEF Links
<1>2. CASE StopStreaming
  <2>1. CallsOK'
    BY <1>2 DEF Links, CallsOK, StopStreaming, toolVars, resolverVars, stateVars
  <2>2. ResolversOK' /\ PublicationOK' /\ RegistryConsistent' /\ PublishedBeforeWake' /\ AcceptedOnce'
    BY <1>2 DEF Links, ResolversOK, PublicationOK, RegistryConsistent,
        PublishedBeforeWake, AcceptedOnce, StopStreaming, toolVars, resolverVars,
        stateVars
  <2>3. QED
    BY <2>1, <2>2 DEF Links
<1>3. CASE EndRun
  <2>1. \A t \in Tools : pc[t] \in Open /\ future[t] = "unset" =>
          t \in {pending[i] : i \in Ids} \ {None}
    BY <1>0, <1>3 DEF CoreTypes, Links, CallsOK, RegistryConsistent
  <2>2. CallsOK'
    BY <1>3, <2>1, <1>0 DEF CoreTypes, Links, CallsOK, RegistryConsistent,
        ResolversOK, Open, Running, EndRun, toolVars, resolverVars, stateVars
  <2>3. ResolversOK'
    BY <1>3, <2>1, <1>0 DEF CoreTypes, Links, CallsOK, ResolversOK, PublicationOK,
        RegistryConsistent, PublishedBeforeWake, AcceptedOnce, Open, Running,
        Receipts, Success, BrowserErrors, Refusals, Losses, EndRun, CancelUpdates,
        toolVars, resolverVars, stateVars
  <2>4. PublicationOK'
    BY <1>3, <2>1 DEF Links, PublicationOK, EndRun, CancelUpdates, toolVars,
        resolverVars, stateVars
  <2>5. RegistryConsistent'
    BY <1>3, <2>1 DEF Links, RegistryConsistent, EndRun, CancelUpdates, toolVars,
        resolverVars, stateVars
  <2>6. PublishedBeforeWake'
    BY <1>3, <2>1 DEF Links, PublishedBeforeWake, EndRun, toolVars, resolverVars,
        stateVars
  <2>7. AcceptedOnce'
    BY <1>3, <2>1, <1>0 DEF CoreTypes, Links, CallsOK, ResolversOK, PublicationOK,
        RegistryConsistent, PublishedBeforeWake, AcceptedOnce, Open, Running,
        Receipts, Success, BrowserErrors, Refusals, Losses, EndRun, toolVars,
        resolverVars, stateVars
  <2>8. QED
    BY <2>2, <2>3, <2>4, <2>5, <2>6, <2>7 DEF Links
<1>4. QED
  BY <1>1, <1>2, <1>3

\* Initially nothing is registered and no receipt is linked.
LEMMA InitLinks == Init => Links
BY ConstantsAssumption
DEF Init, Links, CallsOK, ResolversOK, PublicationOK, RegistryConsistent, PublishedBeforeWake,
    AcceptedOnce, Open, Running, Receipts, Success, BrowserErrors

\* A step that leaves the state of the thread and the publications under way
\* alone keeps the order of the revisions.
LEMMA OrderKept ==
  ASSUME OrderOK, UNCHANGED stateVars,
         \A s \in Resolvers : update'[s] \in {"notifying", "publishing"} =>
           update[s] = update'[s] /\ request[s] = request'[s]
  PROVE  OrderOK'
BY DEF OrderOK, stateVars

\* The update task of the one resolver that holds the lock commits and
\* publishes the next revision: no other publication is under way.
LEMMA UpdateOrder ==
  ASSUME TypeOK, ResolversOK, OrderOK, NEW r \in Resolvers,
         UpdateCommit(r) \/ NoticeCreated(r) \/ SnapshotPut(r)
  PROVE  OrderOK' /\ RevisionStep
<1>1. /\ \A s \in Resolvers \ {r} : update[s] = "none"
      /\ request[r].update.version \in Nat /\ revision \in Nat
      /\ noticed \subseteq Nat /\ published \subseteq Nat
      /\ update \in [Resolvers -> Running \cup {"none", "done", "conflict", "invalid",
                                              "failed", "dropped", "torn"}]
  <2>1. update[r] # "none"
    BY DEF UpdateCommit, NoticeCreated, SnapshotPut
  <2>2. /\ \A s \in Resolvers \ {r} : update[s] = "none"
        /\ request[r] # None /\ request[r].update # None
    BY <2>1 DEF ResolversOK
  <2>3. request[r].update.version \in Nat
    BY <2>2, RequestType2, ConstantsAssumption DEF Revisions
  <2>4. /\ revision \in Nat /\ noticed \subseteq Nat /\ published \subseteq Nat
        /\ update \in [Resolvers -> Running \cup {"none", "done", "conflict", "invalid",
                                                "failed", "dropped", "torn"}]
    BY ConstantsAssumption DEF TypeOK, Revisions
  <2> QED BY <2>2, <2>3, <2>4
<1>2. UNCHANGED request
  BY DEF UpdateCommit, NoticeCreated, SnapshotPut, UnchangedByUpdate
<1>3. CASE UpdateCommit(r)
  <2>1. request[r].update.version = revision + 1 /\ revision' = revision + 1
    BY <1>1, <1>3 DEF UpdateCommit, Verdict
  <2>2. /\ noticed' \subseteq noticed \cup {revision + 1}
        /\ published' \subseteq published \cup {revision + 1}
        /\ \A s \in Resolvers \ {r} : update'[s] = "none"
        /\ update'[r] = "notifying" => noticed' = noticed
        /\ update'[r] \in {"notifying", "publishing"} => published' = published
    BY <1>1, <1>3, <2>1 DEF UpdateCommit, PutSnapshot
  <2>3. \A w \in noticed \cup published : w \in Nat /\ w <= revision
    BY <1>1 DEF OrderOK
  <2>4. RevisionStep
    BY <1>1, <2>2, <2>3 DEF RevisionStep
  <2>5. OrderOK'
    <3>1. \A w \in noticed' \cup published' : w <= revision'
      BY <1>1, <2>1, <2>2, <2>3
    <3>2. revision + 1 \notin noticed \cup published
      BY <1>1, <2>3
    <3>3. QED
      BY <1>1, <1>2, <2>1, <2>2, <3>1, <3>2 DEF OrderOK
  <2>6. QED
    BY <2>4, <2>5
<1>4. CASE NoticeCreated(r)
  <2>1. /\ revision' = revision /\ request[r].update.version = revision
        /\ revision \notin noticed \cup published
    BY <1>4 DEF NoticeCreated, OrderOK
  <2>2. /\ noticed' \subseteq noticed \cup {revision}
        /\ published' \subseteq published \cup {revision}
        /\ \A s \in Resolvers \ {r} : update'[s] = "none"
        /\ update'[r] = "notifying" => noticed' = noticed
        /\ update'[r] \in {"notifying", "publishing"} => published' = published
    BY <1>1, <1>4, <2>1 DEF NoticeCreated, PutSnapshot
  <2>3. QED
    BY <1>1, <1>2, <2>1, <2>2 DEF OrderOK, RevisionStep
<1>5. CASE SnapshotPut(r)
  <2>1. /\ revision' = revision /\ request[r].update.version = revision
        /\ revision \notin published /\ noticed' = noticed
    BY <1>5 DEF SnapshotPut, OrderOK
  <2>2. /\ published' \subseteq published \cup {revision}
        /\ \A s \in Resolvers : update'[s] \notin {"notifying", "publishing"}
    BY <1>1, <1>5, <2>1 DEF SnapshotPut, PutSnapshot, HasRoom
  <2>3. QED
    BY <1>1, <1>2, <2>1, <2>2 DEF OrderOK, RevisionStep
<1>6. QED
  BY <1>3, <1>4, <1>5

\* Every step keeps the order: the three that publish by UpdateOrder, all
\* others because they start no publication and commit nothing.
LEMMA StepOrder ==
  ASSUME IndInv, Next
  PROVE  OrderOK' /\ RevisionStep
<1>0. TypeOK /\ ResolversOK /\ OrderOK
  BY DEF IndInv
<1>1. ASSUME UNCHANGED stateVars,
             \A s \in Resolvers : update'[s] \in {"notifying", "publishing"} =>
               update[s] = update'[s] /\ request[s] = request'[s]
      PROVE  OrderOK' /\ RevisionStep
  <2>1. OrderOK'
    BY <1>0, <1>1, OrderKept
  <2>2. QED
    BY <1>1, <2>1 DEF RevisionStep, stateVars
<1>2. \A T : \A s \in Resolvers :
        CancelUpdates(T)[s] \in {"notifying", "publishing"} => CancelUpdates(T)[s] = update[s]
  BY DEF CancelUpdates
<1>3. ASSUME NEW t \in Tools,
             Dispatch(t) \/ ToolStep(t) \/ SendRaises(t) \/ Expire(t) \/ DispatchCancelled(t)
      PROVE  OrderOK' /\ RevisionStep
  <2>1. UNCHANGED stateVars /\ UNCHANGED request
    BY <1>3 DEF Dispatch, DispatchClosed, DispatchUsedId, DispatchOverLimit, DispatchDenied,
      DispatchOpen, Refuse, ToolStep, SendPut, SendNext, DispatchSendFailed, DispatchResult,
      DispatchTimeout, SendRaises, Expire, DispatchCancelled, Finish, resolverVars
  <2>2. update' = update \/ update' = CancelUpdates({t})
    BY <1>3 DEF Dispatch, DispatchClosed, DispatchUsedId, DispatchOverLimit, DispatchDenied,
      DispatchOpen, Refuse, ToolStep, SendPut, SendNext, DispatchSendFailed, DispatchResult,
      DispatchTimeout, SendRaises, Expire, DispatchCancelled, Finish, resolverVars
  <2>3. QED
    BY <1>1, <1>2, <2>1, <2>2
<1>4. ASSUME NEW r \in Resolvers,
             \/ \E q \in Requests : HandleToolResult(r, q)
             \/ ResolverStep(r) \/ NoticeCreated(r) \/ NoticeFailed(r) \/ ResolverCancelled(r)
      PROVE  OrderOK' /\ RevisionStep
  <2>1. CASE UpdateCommit(r) \/ NoticeCreated(r) \/ SnapshotPut(r)
    BY <1>0, <2>1, UpdateOrder
  <2>2. CASE \E q \in Requests : HandleToolResult(r, q)
    <3>1. update[r] = "none"
      BY <1>0, <2>2 DEF HandleToolResult, ResolversOK
    <3>2. QED
      BY <1>0, <1>1, <2>2, <3>1 DEF HandleToolResult, TypeOK
  <2>3. CASE ResolveWithState(r) \/ UpdateRefused(r) \/ NoticeFailed(r)
    BY <1>0, <1>1, <2>3 DEF ResolveWithState, UpdateRefused, NoticeFailed, Verdict,
      UnchangedByUpdate, TypeOK
  <2>4. CASE \/ ResolveStale(r) \/ ResolveMalformed(r) \/ ResolvePlain(r)
             \/ ResumeSettle(r) \/ ResumeFailed(r) \/ ResumeCancelled(r) \/ ResumeTimeout(r)
             \/ ResolverCancelled(r)
    <3>1. (\E a : Answer(r, a)) /\ UNCHANGED stateVars
      BY <2>4 DEF ResolveStale, ResolveMalformed, ResolvePlain, ResumeSettle, ResumeFailed,
        ResumeCancelled, ResumeTimeout, ResolverCancelled, Resumes, Settle, Unchanged4Reply
    <3>2. /\ update' = [update EXCEPT ![r] = "none"]
          /\ request' = [request EXCEPT ![r] = None]
      BY <3>1 DEF Answer
    <3>3. QED
      BY <1>0, <1>1, <3>1, <3>2 DEF TypeOK
  <2>5. QED
    BY <1>4, <2>1, <2>2, <2>3, <2>4 DEF ResolverStep
<1>5. CASE Consume \/ StopStreaming \/ EndRun \/ Terminated
  <2>1. /\ UNCHANGED stateVars /\ UNCHANGED request
        /\ update' = update \/ \E T : update' = CancelUpdates(T)
    BY <1>5 DEF Consume, StopStreaming, EndRun, Terminated, vars, resolverVars, stateVars
  <2>2. QED
    BY <1>1, <1>2, <2>1
<1>6. QED
  BY <1>3, <1>4, <1>5 DEF Next

\* Steps that change nothing keep the inductive invariant.
LEMMA StutterInv == ASSUME IndInv, UNCHANGED vars PROVE IndInv'
BY DEF IndInv, vars, toolVars, resolverVars, stateVars, TypeOK, CallsOK, ResolversOK,
       PublicationOK, OrderOK, RegistryConsistent, PublishedBeforeWake, AcceptedOnce

\* The inductive step: no action of the dispatcher, the resolvers, the update
\* task or the run leaves the inductive invariant.
LEMMA StepInv == ASSUME IndInv, Next PROVE IndInv'
<1>0. TypeOK /\ Links
  BY DEF IndInv, Links
<1>1. SUFFICES TypeOK' /\ Links'
  BY StepOrder DEF IndInv, Links
<1>2. ASSUME NEW t \in Tools,
             Dispatch(t) \/ ToolStep(t) \/ SendRaises(t) \/ Expire(t) \/ DispatchCancelled(t)
      PROVE  TypeOK' /\ Links'
  BY <1>0, <1>2, DispatchType, ToolType, DispatchLinks, ToolLinks DEF Links
<1>3. ASSUME NEW r \in Resolvers,
             \/ \E q \in Requests : HandleToolResult(r, q)
             \/ ResolverStep(r) \/ NoticeCreated(r) \/ NoticeFailed(r) \/ ResolverCancelled(r)
      PROVE  TypeOK' /\ Links'
  BY <1>0, <1>3, ResolveType, UpdateType, ResumeType, ResolveLinks, UpdateLinks, ResumeLinks
  DEF Links, ResolverStep
<1>4. CASE Consume \/ StopStreaming \/ EndRun
  BY <1>0, <1>4, RunType, RunLinks
<1>5. CASE Terminated
  BY <1>5, StutterInv DEF Terminated, IndInv, Links
<1>6. QED
  BY <1>2, <1>3, <1>4, <1>5 DEF Next

\* IndInv, and with it each of the invariants below, holds in every state.
THEOREM InductiveInvariant == Spec => []IndInv
<1>1. Init => IndInv
  <2>1. Init => OrderOK
    BY DEF Init, OrderOK
  <2>2. QED
    BY <2>1, InitType, InitLinks DEF IndInv, Links
<1>2. IndInv /\ [Next]_vars => IndInv'
  BY StepInv, StutterInv
<1>3. QED
  BY <1>1, <1>2, PTL DEF Spec

\* All variables keep their types, the queue its bound and _used max_calls.
THEOREM TypeCorrect == Spec => []TypeOK
<1>1. IndInv => TypeOK
  BY DEF IndInv
<1>2. QED
  BY <1>1, InductiveInvariant, PTL

\* _pending always names exactly the running calls, and a call that has
\* returned leaves no task behind.
THEOREM RegistryIsConsistent == Spec => []RegistryConsistent
<1>1. IndInv => RegistryConsistent
  BY DEF IndInv
<1>2. QED
  BY <1>1, InductiveInvariant, PTL

\* The agent's tool is never woken with a revision that is not committed,
\* announced to the agent and queued for the browser.
THEOREM PublicationPrecedesWake == Spec => []PublishedBeforeWake
<1>1. IndInv => PublishedBeforeWake
  BY DEF IndInv
<1>2. QED
  BY <1>1, InductiveInvariant, PTL

\* At most one receipt is accepted per call, and its result is never replaced.
THEOREM AcceptedAtMostOnce == Spec => []AcceptedOnce
<1>1. IndInv => AcceptedOnce
  BY DEF IndInv
<1>2. QED
  BY <1>1, InductiveInvariant, PTL

\* Semantic events and snapshots leave in the order of the revisions, however
\* receipts race and publications are torn.
THEOREM RevisionsLeaveInOrder == Spec => RevisionsInOrder
<1>1. IndInv /\ [Next]_vars => [RevisionStep]_vars
  BY StepOrder
<1>2. QED
  BY <1>1, InductiveInvariant, PTL DEF Spec, RevisionsInOrder, RevisionStep

\* Once the run has ended, no step touches the thread's state through it.
THEOREM EndedRunsCommitNothing == Spec => NoCommitAfterEnd
<1>1. ASSUME IndInv, run = "ended", Next PROVE UNCHANGED stateVars
  <2>1. ASSUME NEW r \in Resolvers PROVE update[r] \notin Running
    <3>1. CoreTypes /\ CallsOK /\ ResolversOK
      BY <1>1, TypesOfCore DEF IndInv
    <3>2. update[r] \in Running => target[r] \in Tools
      BY <3>1 DEF CoreTypes, ResolversOK, Running
    <3>3. QED
      BY <1>1, <3>1, <3>2 DEF CallsOK, ResolversOK
  <2>2. ASSUME NEW t \in Tools,
               Dispatch(t) \/ ToolStep(t) \/ SendRaises(t) \/ Expire(t) \/ DispatchCancelled(t)
        PROVE  UNCHANGED stateVars
    BY <2>2 DEF Dispatch, DispatchClosed, DispatchUsedId, DispatchOverLimit, DispatchDenied,
      DispatchOpen, Refuse, ToolStep, SendPut, SendNext, DispatchSendFailed, DispatchResult,
      DispatchTimeout, SendRaises, Expire, DispatchCancelled, Finish, CancelSend
  <2>3. ASSUME NEW r \in Resolvers,
               \/ \E q \in Requests : HandleToolResult(r, q)
               \/ ResolverStep(r) \/ NoticeCreated(r) \/ NoticeFailed(r) \/ ResolverCancelled(r)
        PROVE  UNCHANGED stateVars
    <3>1. ~UpdateCommit(r) /\ ~NoticeCreated(r) /\ ~SnapshotPut(r) /\ ~NoticeFailed(r)
      BY <2>1 DEF UpdateCommit, NoticeCreated, SnapshotPut, NoticeFailed, Running
    <3>2. QED
      BY <2>3, <3>1 DEF ResolverStep, HandleToolResult, ResolveStale, ResolveMalformed,
        ResolvePlain, ResolveWithState, UpdateRefused, ResumeSettle, ResumeFailed,
        ResumeCancelled, ResumeTimeout, ResolverCancelled, Resumes, Unchanged4Reply, stateVars
  <2>4. CASE Consume \/ StopStreaming \/ EndRun \/ Terminated
    BY <2>4 DEF Consume, StopStreaming, EndRun, Terminated, vars, stateVars
  <2>5. QED
    BY <1>1, <2>2, <2>3, <2>4 DEF Next
<1>2. IndInv /\ [Next]_vars => [run = "ended" => UNCHANGED stateVars]_vars
  BY <1>1
<1>3. QED
  BY <1>2, InductiveInvariant, PTL DEF Spec, NoCommitAfterEnd

-----------------------------------------------------------------------------
(* What the browser is told of a call.  The events of a call that are in    *)
(* the queue are those the browser has not seen of the ones that were put,  *)
(* in their order.                                                          *)

\* How many events of its call a tool has put into the queue.
Sent(t) == IF send[t] = "done" THEN phase[t] ELSE IF phase[t] = 0 THEN 0 ELSE phase[t] - 1

\* The phases the browser has yet to see.
Due(t) == seen[call[t]] + 1 .. Sent(t)

IsToolEvent(e) == "call" \in DOMAIN e

\* A call has its ID for itself, and sends from the moment it is opened.
OwnIds ==
  /\ \A t \in Tools : /\ pc[t] = "idle" => call[t] = None
                      /\ call[t] # None => call[t] \in used
                      /\ send[t] # "none" => call[t] # None /\ phase[t] \in 1 .. 3
                      /\ phase[t] # 0 => send[t] # "none"
  /\ \A t, u \in Tools : call[t] # None /\ call[t] = call[u] => t = u

Announced ==
  /\ \A t \in Tools : call[t] # None =>
       /\ seen[call[t]] <= Sent(t)
       /\ \A p \in Due(t) : \E k \in 1 .. Len(queue) : queue[k] = ToolEvent(call[t], p)
  /\ \A k \in 1 .. Len(queue) : IsToolEvent(queue[k]) =>
       \E t \in Tools : call[t] = queue[k].call /\ queue[k].phase \in Due(t)
  /\ \A j, k \in 1 .. Len(queue) :
       j < k /\ IsToolEvent(queue[j]) /\ IsToolEvent(queue[k]) /\ queue[j].call = queue[k].call
         => queue[j].phase < queue[k].phase
  /\ \A i \in Ids \ used : seen[i] = 0

QueueInv == OwnIds /\ Announced

\* Tool events and snapshots are told apart.
LEMMA EventFacts ==
  /\ \A i, p : /\ IsToolEvent(ToolEvent(i, p))
               /\ ToolEvent(i, p).call = i /\ ToolEvent(i, p).phase = p
  /\ \A v : ~IsToolEvent(Snapshot(v))
  /\ \A e \in Events : IsToolEvent(e) => e.call \in Ids /\ e.phase \in 1 .. 3
BY DEF IsToolEvent, ToolEvent, Snapshot, Events

LEMMA SentType == ASSUME TypeOK, NEW t \in Tools PROVE Sent(t) \in 0 .. 3
BY DEF TypeOK, Sent

\* A step of t that puts nothing: the send goes on with the next event or ends.
Silent(t) ==
  /\ pc'[t] = "idle" => pc[t] = "idle"
  /\ \/ send'[t] = send[t] /\ phase'[t] = phase[t]
     \/ send[t] = "running" /\ send'[t] \in {"failed", "cancelled"} /\ phase'[t] = phase[t]
     \/ send[t] = "done" /\ send'[t] = "running" /\ phase'[t] = phase[t] + 1 /\ phase[t] < 3

LEMMA SilentStep ==
  ASSUME TypeOK, QueueInv, UNCHANGED <<call, used, queue, seen>>, \A t \in Tools : Silent(t)
  PROVE  QueueInv'
<1>1. \A t \in Tools : phase[t] \in 0 .. 3
  BY DEF TypeOK
<1>2. ASSUME NEW t \in Tools PROVE Sent(t)' = Sent(t)
  BY <1>1 DEF Silent, Sent, QueueInv, OwnIds
<1>3. OwnIds'
  <2>1. ASSUME NEW t \in Tools
        PROVE  /\ pc'[t] = "idle" => call'[t] = None
               /\ call'[t] # None => call'[t] \in used'
               /\ send'[t] # "none" => call'[t] # None /\ phase'[t] \in 1 .. 3
               /\ phase'[t] # 0 => send'[t] # "none"
    BY <1>1 DEF Silent, QueueInv, OwnIds
  <2> QED BY <2>1 DEF QueueInv, OwnIds
<1>4. \A t \in Tools : Due(t)' = Due(t)
  BY <1>2 DEF Due
<1>5. Announced'
  BY <1>2, <1>4 DEF QueueInv, Announced
<1> QED BY <1>3, <1>5 DEF QueueInv

\* A call gets a fresh ID, of which nothing was ever put.
LEMMA OpenedStep ==
  ASSUME TypeOK, QueueInv, NEW t \in Tools, NEW id \in Ids, id \notin used, pc[t] = "idle",
         call' = [call EXCEPT ![t] = id], used' = used \cup {id}, UNCHANGED <<queue, seen>>,
         \A u \in Tools : u # t => Silent(u),
         pc'[t] # "idle",
         \/ send'[t] = send[t] /\ phase'[t] = phase[t]
         \/ send'[t] = "running" /\ phase'[t] = 1
  PROVE  QueueInv'
<1>1. /\ \A u \in Tools : phase[u] \in 0 .. 3 /\ call[u] \in Ids \cup {None}
      /\ call \in [Tools -> Ids \cup {None}] /\ None \notin Ids
      /\ seen \in [Ids -> 0 .. 3] /\ queue \in Seq(Events)
  BY ConstantsAssumption DEF TypeOK
<1>2. call[t] = None /\ send[t] = "none" /\ phase[t] = 0
  BY DEF QueueInv, OwnIds
<1>3. Sent(t)' = 0
  BY <1>2 DEF Sent
<1>4. ASSUME NEW u \in Tools, u # t
      PROVE  Sent(u)' = Sent(u) /\ call'[u] = call[u]
  BY <1>1, <1>4 DEF Silent, Sent, QueueInv, OwnIds
<1>5. \A u \in Tools : call[u] # id
  BY <1>1 DEF QueueInv, OwnIds
<1>6. call'[t] = id
  BY <1>1
<1>7. OwnIds'
  <2>1. ASSUME NEW u \in Tools
        PROVE  /\ pc'[u] = "idle" => call'[u] = None
               /\ call'[u] # None => call'[u] \in used'
               /\ send'[u] # "none" => call'[u] # None /\ phase'[u] \in 1 .. 3
               /\ phase'[u] # 0 => send'[u] # "none"
    <3>1. CASE u = t
      BY <1>1, <1>2, <1>6, <3>1
    <3>2. CASE u # t
      BY <1>1, <1>4, <3>2 DEF Silent, QueueInv, OwnIds
    <3> QED BY <3>1, <3>2
  <2>2. \A u, v \in Tools : call'[u] # None /\ call'[u] = call'[v] => u = v
    BY <1>4, <1>5, <1>6 DEF QueueInv, OwnIds
  <2> QED BY <2>1, <2>2 DEF OwnIds
<1>8. Announced'
  <2>1. ASSUME NEW u \in Tools, call'[u] # None
        PROVE  /\ seen[call'[u]] <= Sent(u)'
               /\ \A p \in Due(u)' : \E k \in 1 .. Len(queue) : queue[k] = ToolEvent(call'[u], p)
    <3>1. CASE u = t
      <4>1. seen[id] = 0
        BY DEF QueueInv, Announced
      <4>2. Due(u)' = 1 .. 0
        BY <1>3, <1>6, <3>1, <4>1 DEF Due
      <4> QED BY <1>3, <1>6, <3>1, <4>1, <4>2
    <3>2. CASE u # t
      BY <1>4, <2>1, <3>2 DEF QueueInv, Announced, Due
    <3> QED BY <3>1, <3>2
  <2>2. ASSUME NEW k \in 1 .. Len(queue), IsToolEvent(queue[k])
        PROVE  \E u \in Tools : call'[u] = queue[k].call /\ queue[k].phase \in Due(u)'
    <3>1. PICK u \in Tools : call[u] = queue[k].call /\ queue[k].phase \in Due(u)
      BY <2>2 DEF QueueInv, Announced
    <3>2. queue[k] \in Events
      BY <1>1
    <3>3. u # t
      BY <1>1, <1>2, <2>2, <3>1, <3>2, EventFacts
    <3>4. call'[u] = call[u] /\ Due(u)' = Due(u)
      BY <1>4, <3>3 DEF Due
    <3> QED BY <3>1, <3>4
  <2>3. \A i \in Ids \ used' : seen[i] = 0
    BY DEF QueueInv, Announced
  <2>4. /\ seen' = seen /\ queue' = queue
    OBVIOUS
  <2>5. \A j, k \in 1 .. Len(queue) :
       j < k /\ IsToolEvent(queue[j]) /\ IsToolEvent(queue[k]) /\ queue[j].call = queue[k].call
         => queue[j].phase < queue[k].phase
    BY DEF QueueInv, Announced
  <2> QED BY <2>1, <2>2, <2>3, <2>4, <2>5 DEF Announced
<1> QED BY <1>7, <1>8 DEF QueueInv

\* The next event of a call is put behind all the others.
LEMMA PutStep ==
  ASSUME TypeOK, QueueInv, NEW t \in Tools, send[t] = "running",
         queue' = Append(queue, ToolEvent(call[t], phase[t])),
         send' = [send EXCEPT ![t] = "done"], UNCHANGED <<pc, call, phase, used, seen>>
  PROVE  QueueInv'
<1> DEFINE n == Len(queue)
           e == ToolEvent(call[t], phase[t])
<1>1. /\ send \in [Tools -> {"none", "running", "done", "failed", "cancelled"}]
      /\ \A u \in Tools : phase[u] \in 0 .. 3 /\ call[u] \in Ids \cup {None}
      /\ seen \in [Ids -> 0 .. 3] /\ queue \in Seq(Events)
  BY DEF TypeOK
<1>2. /\ call[t] # None /\ call[t] \in Ids /\ phase[t] \in 1 .. 3
  BY <1>1 DEF QueueInv, OwnIds
<1>3. /\ n \in Nat /\ Len(queue') = n + 1 /\ queue'[n + 1] = e
      /\ \A k \in 1 .. n : queue'[k] = queue[k] /\ queue[k] \in Events
  BY <1>1
<1>4. Sent(t) = phase[t] - 1 /\ Sent(t)' = phase[t]
  BY <1>1, <1>2 DEF Sent
<1>5. \A u \in Tools : u # t => Sent(u)' = Sent(u) /\ Due(u)' = Due(u)
  BY <1>1 DEF Sent, Due
<1>6. seen[call[t]] \in 0 .. 3 /\ seen[call[t]] <= phase[t] - 1
  BY <1>1, <1>2, <1>4 DEF QueueInv, Announced
<1>7. /\ \A p \in Due(t)' : p \in Due(t) \/ p = phase[t]
      /\ \A p \in Due(t) : p \in Due(t)' /\ p < phase[t]
      /\ phase[t] \in Due(t)'
  BY <1>2, <1>4, <1>6 DEF Due
<1>8. OwnIds'
  BY <1>1 DEF QueueInv, OwnIds
<1>9. /\ IsToolEvent(e) /\ e.call = call[t] /\ e.phase = phase[t]
  BY EventFacts
<1> HIDE DEF n, e
<1>10. \A k \in 1 .. n + 1 : k \in 1 .. n \/ k = n + 1
  BY <1>3
<1>11. ASSUME NEW u \in Tools, call[u] # None
       PROVE  /\ seen[call[u]] <= Sent(u)'
              /\ \A p \in Due(u)' : \E k \in 1 .. n + 1 : queue'[k] = ToolEvent(call[u], p)
  <2>1. /\ seen[call[u]] <= Sent(u)
        /\ \A p \in Due(u) : \E k \in 1 .. n : queue[k] = ToolEvent(call[u], p)
    BY <1>11 DEF QueueInv, Announced, n
  <2>2. \A k \in 1 .. n : k \in 1 .. n + 1
    BY <1>3
  <2>3. CASE u # t
    BY <1>3, <1>5, <2>1, <2>2, <2>3
  <2>4. CASE u = t
    <3>1. n + 1 \in 1 .. n + 1
      BY <1>3
    <3>2. seen[call[u]] <= Sent(u)'
      BY <1>2, <1>4, <1>6, <2>4
    <3>3. \A p \in Due(t) : \E k \in 1 .. n + 1 : queue'[k] = ToolEvent(call[t], p)
      BY <1>3, <2>1, <2>2, <2>4
    <3> QED BY <1>3, <1>7, <2>4, <3>1, <3>2, <3>3 DEF e
  <2> QED BY <2>3, <2>4
<1>12. ASSUME NEW k \in 1 .. n, IsToolEvent(queue[k])
       PROVE  \E u \in Tools : /\ call[u] = queue[k].call /\ queue[k].phase \in Due(u)'
                               /\ u = t => queue[k].phase < phase[t]
  <2>1. PICK u \in Tools : call[u] = queue[k].call /\ queue[k].phase \in Due(u)
    BY <1>12 DEF QueueInv, Announced, n
  <2> QED BY <1>5, <1>7, <2>1
<1>13. ASSUME NEW j \in 1 .. n, IsToolEvent(queue[j]), queue[j].call = call[t]
       PROVE  queue[j].phase < phase[t]
  <2>1. PICK u \in Tools : call[u] = queue[j].call /\ (u = t => queue[j].phase < phase[t])
    BY <1>12, <1>13
  <2>2. u = t
    BY <1>2, <1>13, <2>1 DEF QueueInv, OwnIds
  <2> QED BY <2>1, <2>2
<1>14. \A i \in Ids \ used : seen[i] = 0
  BY DEF QueueInv, Announced
<1>15. \A k \in 1 .. n + 1 : IsToolEvent(queue'[k]) =>
         \E u \in Tools : call[u] = queue'[k].call /\ queue'[k].phase \in Due(u)'
  <2> SUFFICES ASSUME NEW k \in 1 .. n + 1, IsToolEvent(queue'[k])
               PROVE  \E u \in Tools : call[u] = queue'[k].call /\ queue'[k].phase \in Due(u)'
    OBVIOUS
  <2>1. CASE k \in 1 .. n
    BY <1>3, <1>12, <2>1
  <2>2. CASE k = n + 1
    BY <1>3, <1>7, <1>9, <2>2
  <2> QED BY <1>10, <2>1, <2>2
<1>16. ASSUME NEW j \in 1 .. n + 1, NEW k \in 1 .. n + 1, j < k,
              IsToolEvent(queue'[j]), IsToolEvent(queue'[k]), queue'[j].call = queue'[k].call
       PROVE  queue'[j].phase < queue'[k].phase
  <2>1. j \in 1 .. n /\ queue'[j] = queue[j]
    BY <1>3, <1>16
  <2>2. CASE k \in 1 .. n
    BY <1>3, <1>16, <2>1, <2>2 DEF QueueInv, Announced, n
  <2>3. CASE k = n + 1
    BY <1>3, <1>9, <1>13, <1>16, <2>1, <2>3
  <2> QED BY <1>10, <2>2, <2>3
<1>17. Announced'
  BY <1>3, <1>11, <1>14, <1>15, <1>16 DEF Announced
<1> QED BY <1>8, <1>17 DEF QueueInv

\* A snapshot among the events of the calls.
LEMMA SnapshotStep ==
  ASSUME TypeOK, QueueInv, NEW v, queue' = Append(queue, Snapshot(v)),
         UNCHANGED <<pc, call, phase, send, used, seen>>
  PROVE  QueueInv'
<1> DEFINE n == Len(queue)
<1>1. queue \in Seq(Events)
  BY DEF TypeOK
<1>2. /\ n \in Nat /\ Len(queue') = n + 1 /\ queue'[n + 1] = Snapshot(v)
      /\ \A k \in 1 .. n : queue'[k] = queue[k] /\ k \in 1 .. n + 1
  BY <1>1
<1>3. \A t \in Tools : Sent(t)' = Sent(t) /\ Due(t)' = Due(t)
  BY DEF Sent, Due
<1>4. OwnIds'
  BY DEF QueueInv, OwnIds
<1> HIDE DEF n
<1>5. \A k \in 1 .. n + 1 : IsToolEvent(queue'[k]) => k \in 1 .. n /\ queue'[k] = queue[k]
  <2> SUFFICES ASSUME NEW k \in 1 .. n + 1, IsToolEvent(queue'[k]) PROVE k \in 1 .. n
    BY <1>2
  <2>1. k # n + 1
    BY <1>2, EventFacts
  <2> QED BY <1>2, <2>1
<1>6. \A t \in Tools : call[t] # None =>
        /\ seen[call[t]] <= Sent(t)
        /\ \A p \in Due(t) : \E k \in 1 .. n + 1 : queue'[k] = ToolEvent(call[t], p)
  BY <1>2 DEF QueueInv, Announced, n
<1>7. \A k \in 1 .. n + 1 : IsToolEvent(queue'[k]) =>
        \E t \in Tools : call[t] = queue'[k].call /\ queue'[k].phase \in Due(t)
  <2> SUFFICES ASSUME NEW k \in 1 .. n + 1, IsToolEvent(queue'[k])
               PROVE  \E t \in Tools : call[t] = queue'[k].call /\ queue'[k].phase \in Due(t)
    OBVIOUS
  <2>1. k \in 1 .. Len(queue) /\ queue'[k] = queue[k]
    BY <1>5 DEF n
  <2> QED BY <2>1 DEF QueueInv, Announced
<1>8. \A j, k \in 1 .. n + 1 :
        j < k /\ IsToolEvent(queue'[j]) /\ IsToolEvent(queue'[k]) /\ queue'[j].call = queue'[k].call
          => queue'[j].phase < queue'[k].phase
  <2> SUFFICES ASSUME NEW j \in 1 .. n + 1, NEW k \in 1 .. n + 1, j < k,
                      IsToolEvent(queue'[j]), IsToolEvent(queue'[k]), queue'[j].call = queue'[k].call
               PROVE  queue'[j].phase < queue'[k].phase
    OBVIOUS
  <2>1. /\ j \in 1 .. Len(queue) /\ queue'[j] = queue[j]
        /\ k \in 1 .. Len(queue) /\ queue'[k] = queue[k]
    BY <1>5 DEF n
  <2> QED BY <2>1 DEF QueueInv, Announced
<1>9. \A i \in Ids \ used : seen[i] = 0
  BY DEF QueueInv, Announced
<1>10. Announced'
  BY <1>2, <1>3, <1>6, <1>7, <1>8, <1>9 DEF Announced
<1> QED BY <1>4, <1>10 DEF QueueInv

\* The first event in the queue is the next one its call's observer has to see.
LEMMA HeadIsNext ==
  ASSUME TypeOK, QueueInv, queue # <<>>, IsToolEvent(Head(queue))
  PROVE  /\ Head(queue).call \in Ids
         /\ Head(queue).phase = seen[Head(queue).call] + 1
         /\ \E t \in Tools : /\ call[t] = Head(queue).call /\ call[t] # None
                            /\ Head(queue).phase <= Sent(t)
<1> DEFINE e == Head(queue)
<1>1. /\ queue \in Seq(Events) /\ e = queue[1] /\ 1 \in 1 .. Len(queue) /\ e \in Events
      /\ \A k \in 1 .. Len(queue) : queue[k] \in Events /\ (k = 1 \/ 1 < k)
  BY DEF TypeOK
<1> HIDE DEF e
<1>2. IsToolEvent(e) /\ e.call \in Ids /\ e.phase \in 1 .. 3
  BY <1>1, EventFacts DEF e
<1>3. PICK t \in Tools : call[t] = e.call /\ e.phase \in Due(t)
  BY <1>1, <1>2 DEF QueueInv, Announced
<1>4. seen[e.call] \in 0 .. 3 /\ Sent(t) \in 0 .. 3 /\ call[t] # None
  BY <1>2, <1>3, SentType, ConstantsAssumption DEF TypeOK
<1>5. e.phase >= seen[e.call] + 1 /\ e.phase <= Sent(t)
  BY <1>2, <1>3, <1>4 DEF Due
<1>6. seen[e.call] + 1 \in Due(t)
  BY <1>2, <1>3, <1>4, <1>5 DEF Due
<1>7. PICK k \in 1 .. Len(queue) : queue[k] = ToolEvent(e.call, seen[e.call] + 1)
  BY <1>3, <1>4, <1>6 DEF QueueInv, Announced
<1>8. IsToolEvent(queue[k]) /\ queue[k].call = e.call /\ queue[k].phase = seen[e.call] + 1
  BY <1>7, EventFacts
<1>9. CASE k = 1
  BY <1>1, <1>2, <1>3, <1>4, <1>5, <1>8, <1>9 DEF e
<1>10. CASE 1 < k
  <2>1. queue[1].phase < queue[k].phase
    BY <1>1, <1>2, <1>8, <1>10 DEF QueueInv, Announced
  <2> QED BY <1>1, <1>2, <1>4, <1>5, <1>8, <2>1
<1> QED BY <1>1, <1>9, <1>10

LEMMA ConsumeStep ==
  ASSUME TypeOK, QueueInv, Consume
  PROVE  QueueInv' /\ \A i \in Ids : seen'[i] # seen[i] => seen'[i] = seen[i] + 1
<1> DEFINE n == Len(queue)
           e == Head(queue)
<1>1. /\ queue # <<>> /\ queue' = Tail(queue)
      /\ IF IsToolEvent(e) THEN seen' = [seen EXCEPT ![e.call] = e.phase] ELSE seen' = seen
      /\ UNCHANGED <<pc, call, phase, send, used>>
  BY DEF Consume, IsToolEvent, toolVars
<1>2. queue \in Seq(Events) /\ seen \in [Ids -> 0 .. 3] /\ call \in [Tools -> Ids \cup {None}]
  BY DEF TypeOK
<1>3. /\ n \in Nat \ {0} /\ e = queue[1] /\ Len(queue') = n - 1 /\ 1 \in 1 .. n
      /\ \A k \in 1 .. n - 1 : queue'[k] = queue[k + 1] /\ k + 1 \in 1 .. n /\ 1 < k + 1
      /\ \A k \in 1 .. n : queue[k] \in Events /\ (k = 1 \/ k - 1 \in 1 .. n - 1)
  BY <1>1, <1>2
<1>4. IsToolEvent(e) => /\ e.call \in Ids /\ e.phase = seen[e.call] + 1
                        /\ \E t \in Tools : call[t] = e.call /\ call[t] # None /\ e.phase <= Sent(t)
  BY <1>1, HeadIsNext
<1>5. \A t \in Tools : Sent(t)' = Sent(t) /\ Sent(t) \in 0 .. 3
  BY <1>1, SentType DEF Sent
<1> HIDE DEF n, e
<1>6. \A i \in Ids : /\ seen[i] \in 0 .. 3
                     /\ IF IsToolEvent(e) /\ i = e.call THEN seen'[i] = seen[i] + 1 ELSE seen'[i] = seen[i]
  BY <1>1, <1>2, <1>4
<1>7. OwnIds'
  BY <1>1 DEF QueueInv, OwnIds
\* What is due and not the head's is still in the queue.
<1>8. ASSUME NEW t \in Tools, call[t] # None
      PROVE  /\ seen'[call[t]] <= Sent(t)
             /\ \A p \in Due(t)' : p \in Due(t) /\ \E k \in 1 .. n - 1 : queue'[k] = ToolEvent(call[t], p)
  <2>1. call[t] \in Ids
    BY <1>2, <1>8
  <2>2. /\ seen[call[t]] <= Sent(t)
        /\ \A p \in Due(t) : \E k \in 1 .. n : queue[k] = ToolEvent(call[t], p)
    BY <1>8 DEF QueueInv, Announced, n
  <2>3. IsToolEvent(e) /\ e.call = call[t] => e.phase <= Sent(t)
    <3> SUFFICES ASSUME IsToolEvent(e), e.call = call[t] PROVE e.phase <= Sent(t)
      OBVIOUS
    <3>1. PICK u \in Tools : call[u] = e.call /\ call[u] # None /\ e.phase <= Sent(u)
      BY <1>4
    <3>2. u = t
      BY <1>8, <3>1 DEF QueueInv, OwnIds
    <3> QED BY <3>1, <3>2
  <2>4. seen'[call[t]] <= Sent(t)
    BY <1>4, <1>6, <2>1, <2>2, <2>3
  <2>5. Due(t)' = seen'[call[t]] + 1 .. Sent(t) /\ Due(t) = seen[call[t]] + 1 .. Sent(t)
    BY <1>1, <1>5 DEF Due
  <2>6. ASSUME NEW p \in Due(t)'
        PROVE  /\ p \in Due(t)
               /\ IsToolEvent(e) /\ e.call = call[t] => p > e.phase /\ e.phase \in Int /\ p \in Int
    BY <1>4, <1>5, <1>6, <2>1, <2>5
  <2>7. ASSUME NEW p \in Due(t)'
        PROVE  \E k \in 1 .. n - 1 : queue'[k] = ToolEvent(call[t], p)
    <3>1. PICK k \in 1 .. n : queue[k] = ToolEvent(call[t], p)
      BY <2>2, <2>6
    <3>2. IsToolEvent(queue[k]) /\ queue[k].call = call[t] /\ queue[k].phase = p
      BY <3>1, EventFacts
    <3>3. k # 1
      BY <1>3, <2>6, <3>2
    <3>4. k - 1 \in 1 .. n - 1 /\ queue'[k - 1] = queue[k]
      <4>1. k - 1 \in 1 .. n - 1
        BY <1>3, <3>3
      <4>2. queue'[k - 1] = queue[(k - 1) + 1]
        BY <1>3, <4>1
      <4> QED BY <4>1, <4>2
    <3> QED BY <3>1, <3>4
  <2> QED BY <2>4, <2>6, <2>7
<1>9. ASSUME NEW k \in 1 .. n - 1, IsToolEvent(queue'[k])
      PROVE  \E t \in Tools : call[t] = queue'[k].call /\ queue'[k].phase \in Due(t)'
  <2> DEFINE f == queue'[k]
  <2>1. f = queue[k + 1] /\ k + 1 \in 1 .. n /\ 1 < k + 1 /\ f \in Events
    BY <1>3
  <2> HIDE DEF f
  <2>2. PICK t \in Tools : call[t] = f.call /\ f.phase \in Due(t)
    BY <1>9, <2>1 DEF QueueInv, Announced, n, f
  <2>3. f.call \in Ids /\ f.phase \in 1 .. 3 /\ IsToolEvent(f)
    BY <1>9, <2>1, EventFacts DEF f
  <2>4. IsToolEvent(e) /\ e.call = f.call => e.phase < f.phase
    BY <1>3, <2>1, <2>3 DEF QueueInv, Announced, n
  <2>5. seen'[f.call] + 1 <= f.phase
    <3>1. f.phase >= seen[f.call] + 1
      BY <1>5, <1>6, <2>2, <2>3 DEF Due
    <3> QED BY <1>4, <1>6, <2>3, <2>4, <3>1
  <2>6. f.phase \in Due(t)'
    BY <1>1, <1>5, <1>6, <2>2, <2>3, <2>5 DEF Due
  <2> QED BY <2>2, <2>6 DEF f
<1>10. ASSUME NEW j \in 1 .. n - 1, NEW k \in 1 .. n - 1, j < k,
              IsToolEvent(queue'[j]), IsToolEvent(queue'[k]), queue'[j].call = queue'[k].call
       PROVE  queue'[j].phase < queue'[k].phase
  <2>1. /\ queue'[j] = queue[j + 1] /\ queue'[k] = queue[k + 1] /\ j + 1 < k + 1
        /\ j + 1 \in 1 .. n /\ k + 1 \in 1 .. n
    BY <1>3, <1>10
  <2> QED BY <1>10, <2>1 DEF QueueInv, Announced, n
<1>11. ASSUME NEW i \in Ids \ used PROVE seen'[i] = 0
  <2>1. ~(IsToolEvent(e) /\ i = e.call)
    BY <1>4 DEF QueueInv, OwnIds
  <2> QED BY <1>6, <2>1 DEF QueueInv, Announced
<1>12. Announced'
  BY <1>1, <1>3, <1>5, <1>8, <1>9, <1>10, <1>11 DEF Announced
<1> QED BY <1>6, <1>7, <1>12 DEF QueueInv

\* The steps as far as they concern the queue: nothing is put, a call gets its
\* ID, an event of a call or a snapshot is put, or the browser reads.
Nothing2Put == UNCHANGED <<call, used, queue, seen>> /\ \A t \in Tools : Silent(t)

GetsId == \E t \in Tools, id \in Ids :
  /\ id \notin used /\ pc[t] = "idle" /\ pc'[t] # "idle"
  /\ call' = [call EXCEPT ![t] = id] /\ used' = used \cup {id} /\ UNCHANGED <<queue, seen>>
  /\ \A u \in Tools : u # t => Silent(u)
  /\ \/ send'[t] = send[t] /\ phase'[t] = phase[t]
     \/ send'[t] = "running" /\ phase'[t] = 1

PutsEvent == \E t \in Tools :
  /\ send[t] = "running" /\ send' = [send EXCEPT ![t] = "done"]
  /\ queue' = Append(queue, ToolEvent(call[t], phase[t]))
  /\ UNCHANGED <<pc, call, phase, used, seen>>

PutsSnapshot == \E v :
  queue' = Append(queue, Snapshot(v)) /\ UNCHANGED <<pc, call, phase, send, used, seen>>

QueueStep == Nothing2Put \/ GetsId \/ PutsEvent \/ PutsSnapshot \/ Consume

LEMMA DispatchMoves ==
  ASSUME TypeOK, NEW t \in Tools, Dispatch(t)
  PROVE  QueueStep
<1>1. pc \in [Tools -> {"idle", "sending", "waiting", "returned"}]
      /\ send \in [Tools -> {"none", "running", "done", "failed", "cancelled"}]
      /\ phase \in [Tools -> 0 .. 3]
  BY DEF TypeOK
<1>2. CASE DispatchClosed(t) \/ \E id \in Ids : DispatchUsedId(t, id) \/ DispatchOverLimit(t, id)
  <2>1. UNCHANGED <<call, phase, send, used, queue, seen>> /\ pc' = [pc EXCEPT ![t] = "returned"]
    BY <1>2 DEF DispatchClosed, DispatchUsedId, DispatchOverLimit, Refuse
  <2> QED BY <1>1, <2>1 DEF QueueStep, Nothing2Put, Silent
<1>3. ASSUME NEW id \in Ids, DispatchDenied(t, id) PROVE QueueStep
  <2>1. /\ id \notin used /\ pc[t] = "idle" /\ pc' = [pc EXCEPT ![t] = "returned"]
        /\ call' = [call EXCEPT ![t] = id] /\ used' = used \cup {id}
        /\ UNCHANGED <<phase, send, queue, seen>>
    BY <1>3 DEF DispatchDenied, FreshId, Refuse
  <2>2. GetsId
    BY <1>1, <2>1 DEF GetsId, Silent
  <2> QED BY <2>2 DEF QueueStep
<1>4. ASSUME NEW id \in Ids, DispatchOpen(t, id) PROVE QueueStep
  <2>1. /\ id \notin used /\ pc[t] = "idle" /\ pc' = [pc EXCEPT ![t] = "sending"]
        /\ call' = [call EXCEPT ![t] = id] /\ used' = used \cup {id}
        /\ phase' = [phase EXCEPT ![t] = 1] /\ send' = [send EXCEPT ![t] = "running"]
        /\ UNCHANGED <<queue, seen>>
    BY <1>4 DEF DispatchOpen, FreshId
  <2>2. GetsId
    BY <1>1, <2>1 DEF GetsId, Silent
  <2> QED BY <2>2 DEF QueueStep
<1> QED BY <1>2, <1>3, <1>4 DEF Dispatch

LEMMA ToolMoves ==
  ASSUME TypeOK, NEW t \in Tools,
         ToolStep(t) \/ SendRaises(t) \/ Expire(t) \/ DispatchCancelled(t)
  PROVE  QueueStep
<1>1. pc \in [Tools -> {"idle", "sending", "waiting", "returned"}]
      /\ send \in [Tools -> {"none", "running", "done", "failed", "cancelled"}]
      /\ phase \in [Tools -> 0 .. 3]
  BY DEF TypeOK
<1>2. CASE SendPut(t)
  BY <1>2 DEF SendPut, QueueStep, PutsEvent
<1>3. CASE SendNext(t)
  <2>1. CASE phase[t] < 3
    BY <1>1, <1>3, <2>1 DEF SendNext, QueueStep, Nothing2Put, Silent
  <2>2. CASE ~(phase[t] < 3)
    BY <1>1, <1>3, <2>2 DEF SendNext, QueueStep, Nothing2Put, Silent
  <2> QED BY <2>1, <2>2
<1>4. CASE SendRaises(t)
  BY <1>1, <1>4 DEF SendRaises, QueueStep, Nothing2Put, Silent
<1>5. CASE Expire(t)
  BY <1>5 DEF Expire, QueueStep, Nothing2Put, Silent
<1>6. CASE \E o : Finish(t, o)
  <2>1. /\ pc' = [pc EXCEPT ![t] = "returned"] /\ send' = CancelSend(t)
        /\ UNCHANGED <<call, phase, used, queue, seen>>
    BY <1>6 DEF Finish
  <2>2. \A u \in Tools : Silent(u)
    BY <1>1, <2>1 DEF Silent, CancelSend
  <2> QED BY <2>1, <2>2 DEF QueueStep, Nothing2Put
<1> QED BY <1>2, <1>3, <1>4, <1>5, <1>6
        DEF ToolStep, DispatchSendFailed, DispatchResult, DispatchTimeout, DispatchCancelled

LEMMA ResolverMoves ==
  ASSUME NEW r \in Resolvers,
         \/ \E q \in Requests : HandleToolResult(r, q)
         \/ ResolverStep(r) \/ NoticeCreated(r) \/ NoticeFailed(r) \/ ResolverCancelled(r)
  PROVE  QueueStep
<1>1. UNCHANGED <<pc, call, phase, send, used, seen>>
  BY DEF HandleToolResult, ResolverStep, ResolveStale, ResolveMalformed, ResolvePlain, ResolveWithState,
     UpdateRefused, UpdateCommit, SnapshotPut, NoticeCreated, NoticeFailed, UnchangedByUpdate,
     ResumeSettle, ResumeFailed, ResumeCancelled, ResumeTimeout, ResolverCancelled, Resumes,
     Unchanged4Reply, toolVars
<1>2. UNCHANGED queue \/ \E v : queue' = Append(queue, Snapshot(v))
  BY DEF HandleToolResult, ResolverStep, ResolveStale, ResolveMalformed, ResolvePlain, ResolveWithState,
     UpdateRefused, UpdateCommit, SnapshotPut, NoticeCreated, NoticeFailed, PutSnapshot,
     ResumeSettle, ResumeFailed, ResumeCancelled, ResumeTimeout, ResolverCancelled, Resumes,
     Unchanged4Reply
<1> QED BY <1>1, <1>2 DEF QueueStep, Nothing2Put, PutsSnapshot, Silent

LEMMA QueueMoves ==
  ASSUME TypeOK, [Next]_vars
  PROVE  QueueStep
<1>1. CASE StopStreaming \/ EndRun \/ Terminated \/ UNCHANGED vars
  BY <1>1 DEF StopStreaming, EndRun, Terminated, vars, toolVars, QueueStep, Nothing2Put, Silent
<1>2. CASE Consume
  BY <1>2 DEF QueueStep
<1> QED BY <1>1, <1>2, DispatchMoves, ToolMoves, ResolverMoves DEF Next

\* What BrowserSeesCallsInOrder says of one step.
AnnounceStep ==
  /\ \A i \in Ids : seen'[i] # seen[i] => seen'[i] = seen[i] + 1
  /\ \A t \in Tools : pc[t] = "returned" /\ call[t] # None /\ Len(queue') > Len(queue)
       => queue'[Len(queue')] \notin [call : {call[t]}, phase : 1..3]

LEMMA QueueInvStep ==
  ASSUME IndInv, QueueInv, [Next]_vars
  PROVE  QueueInv' /\ AnnounceStep
<1>1. TypeOK /\ CallsOK /\ queue \in Seq(Events) /\ Len(queue) \in Nat
  BY DEF IndInv, TypeOK
<1>2. CASE Nothing2Put
  BY <1>1, <1>2, SilentStep DEF Nothing2Put, AnnounceStep
<1>3. CASE GetsId
  <2>1. PICK t \in Tools, id \in Ids :
          /\ id \notin used /\ pc[t] = "idle" /\ pc'[t] # "idle"
          /\ call' = [call EXCEPT ![t] = id] /\ used' = used \cup {id} /\ UNCHANGED <<queue, seen>>
          /\ \A u \in Tools : u # t => Silent(u)
          /\ \/ send'[t] = send[t] /\ phase'[t] = phase[t]
             \/ send'[t] = "running" /\ phase'[t] = 1
    BY <1>3 DEF GetsId
  <2>2. QueueInv'
    BY <1>1, <2>1, OpenedStep
  <2> QED BY <1>1, <2>1, <2>2 DEF AnnounceStep
<1>4. CASE PutsEvent
  <2>1. PICK t \in Tools :
          /\ send[t] = "running" /\ send' = [send EXCEPT ![t] = "done"]
          /\ queue' = Append(queue, ToolEvent(call[t], phase[t]))
          /\ UNCHANGED <<pc, call, phase, used, seen>>
    BY <1>4 DEF PutsEvent
  <2>2. QueueInv'
    BY <1>1, <2>1, PutStep
  <2>3. queue'[Len(queue')] = ToolEvent(call[t], phase[t])
    BY <1>1, <2>1
  <2>4. ASSUME NEW u \in Tools, pc[u] = "returned", call[u] # None
        PROVE  ToolEvent(call[t], phase[t]) \notin [call : {call[u]}, phase : 1..3]
    <3>1. u # t
      BY <1>1, <2>1, <2>4 DEF CallsOK
    <3>2. call[u] # call[t]
      BY <2>4, <3>1 DEF QueueInv, OwnIds
    <3> QED BY <3>2 DEF ToolEvent
  <2> QED BY <2>1, <2>2, <2>3, <2>4 DEF AnnounceStep
<1>5. CASE PutsSnapshot
  <2>1. PICK v : /\ queue' = Append(queue, Snapshot(v))
                 /\ UNCHANGED <<pc, call, phase, send, used, seen>>
    BY <1>5 DEF PutsSnapshot
  <2>2. QueueInv'
    BY <1>1, <2>1, SnapshotStep
  <2>3. queue'[Len(queue')] = Snapshot(v)
    BY <1>1, <2>1
  <2>4. \A t \in Tools : Snapshot(v) \notin [call : {call[t]}, phase : 1..3]
    BY DEF Snapshot
  <2> QED BY <2>1, <2>2, <2>3, <2>4 DEF AnnounceStep
<1>6. CASE Consume
  <2>1. QueueInv' /\ \A i \in Ids : seen'[i] # seen[i] => seen'[i] = seen[i] + 1
    BY <1>1, <1>6, ConsumeStep
  <2>2. ~(Len(queue') > Len(queue))
    BY <1>1, <1>6 DEF Consume
  <2> QED BY <2>1, <2>2 DEF AnnounceStep
<1> QED BY <1>1, <1>2, <1>3, <1>4, <1>5, <1>6, QueueMoves DEF QueueStep

LEMMA QueueInvInit == Init => QueueInv
<1> SUFFICES ASSUME Init PROVE QueueInv
  OBVIOUS
<1>1. OwnIds
  BY DEF Init, OwnIds
<1>2. Announced
  BY DEF Init, Announced
<1> QED BY <1>1, <1>2 DEF QueueInv

\* The browser gets START, ARGS and END of each call in this order and each once,
\* with whatever snapshots and events of other calls between them, and nothing of
\* a call is put after its tool has got its outcome (BrowserSeesCallsInOrder).
THEOREM CallsAreSeenInOrder == Spec => BrowserSeesCallsInOrder
<1>1. Init => QueueInv
  BY QueueInvInit
<1>2. IndInv /\ QueueInv /\ [Next]_vars => QueueInv' /\ [AnnounceStep]_vars
  BY QueueInvStep
<1>3. QED
  BY <1>1, <1>2, InductiveInvariant, PTL DEF Spec, BrowserSeesCallsInOrder, AnnounceStep

-----------------------------------------------------------------------------
(* The steps of the dispatcher, seen as steps of ToolPromise.  What a step   *)
(* changes of a call's status, its verdict and the receipts told "true" is   *)
(* found first, and compared with the actions of the promise afterwards.     *)

\* A cancelled future is one that its own dispatch() has left behind.
OnlyLeftAreCancelled == \A t \in Tools : future[t] = "cancelled" => pc[t] = "returned"

\* The part of a step the promise does not see.
Hidden == UNCHANGED <<CallStatus, CallVerdict, TimesAccepted, outcome>>

\* A receipt that has been answered is not answered again, and stays with the
\* call it has settled.
AnswersStay(r) ==
  /\ reply'[r] = "true" <=> reply[r] = "true"
  /\ reply[r] = "true" => target'[r] = target[r]

LEMMA AcceptedKept ==
  ASSUME \A r \in Resolvers : AnswersStay(r)
  PROVE  UNCHANGED TimesAccepted
<1>1. ASSUME NEW t \in Tools
      PROVE  {r \in Resolvers : reply'[r] = "true" /\ target'[r] = t}
               = {r \in Resolvers : reply[r] = "true" /\ target[r] = t}
  BY DEF AnswersStay
<1> QED BY <1>1 DEF TimesAccepted

\* A step that leaves the calls and what the receipts were told alone.
LEMMA HiddenStep ==
  ASSUME UNCHANGED <<pc, future, outcome>>, \A r \in Resolvers : AnswersStay(r)
  PROVE  Hidden
<1>1. UNCHANGED CallStatus
  BY DEF CallStatus
<1>2. UNCHANGED CallVerdict
  BY DEF CallVerdict
<1> QED BY <1>1, <1>2, AcceptedKept DEF Hidden

\* How a call reaches another state.
LEMMA StatusMoves ==
  ASSUME TypeOK, NEW t \in Tools, NEW s \in {"idle", "sending", "waiting", "returned"},
         pc' = [pc EXCEPT ![t] = s]
  PROVE  CallStatus' = [CallStatus EXCEPT ![t] = IF s = "idle" THEN "idle"
                                                 ELSE IF s \in Open THEN "open" ELSE "closed"]
BY DEF TypeOK, CallStatus

\* A receipt that is answered "true" is one more that was accepted.
LEMMA SettleAccepts ==
  ASSUME IndInv, NEW r \in Resolvers, NEW t \in Tools, NEW v \in Receipts, NEW n,
         rpc[r] # "replied", future[t] = "unset", pc[t] \in Open, Settle(r, t, v, n),
         UNCHANGED <<pc, outcome>>
  PROVE  Promise!Accept(t)
<1>1. /\ reply \in [Resolvers -> {"none", "true", "false", "raised"}]
      /\ target \in [Resolvers -> Tools \cup {None}]
      /\ future \in [Tools -> Receipts \cup {"unset", "disconnected", "cancelled"}]
      /\ reply[r] = "none"
  BY DEF IndInv, TypeOK, ResolversOK
<1>2. /\ reply' = [reply EXCEPT ![r] = "true"] /\ target' = [target EXCEPT ![r] = t]
      /\ future' = [future EXCEPT ![t] = v]
  BY DEF Settle, Answer
<1>3. {q \in Resolvers : reply[q] = "true" /\ target[q] = t} = {}
  BY DEF IndInv, ResolversOK, Receipts, Success, BrowserErrors
<1>4. {q \in Resolvers : reply'[q] = "true" /\ target'[q] = t} = {r}
  BY <1>1, <1>2, <1>3
<1>5. ASSUME NEW u \in Tools, u # t
      PROVE  {q \in Resolvers : reply'[q] = "true" /\ target'[q] = u}
               = {q \in Resolvers : reply[q] = "true" /\ target[q] = u}
  BY <1>1, <1>2, <1>5
<1>6. TimesAccepted[t] = 0
  BY <1>3, FS_EmptySet DEF TimesAccepted
<1>7. TimesAccepted' = [TimesAccepted EXCEPT ![t] = @ + 1]
  <2>1. Cardinality({r}) = 1
    BY FS_Singleton
  <2>2. ASSUME NEW u \in Tools
        PROVE  TimesAccepted'[u] = [TimesAccepted EXCEPT ![t] = @ + 1][u]
    <3>1. CASE u = t
      BY <1>4, <1>6, <2>1, <3>1 DEF TimesAccepted
    <3>2. CASE u # t
      BY <1>5, <3>2 DEF TimesAccepted
    <3> QED BY <3>1, <3>2
  <2> QED BY <2>2 DEF TimesAccepted
<1>8. CallVerdict' = [CallVerdict EXCEPT ![t] = v]
  BY <1>1, <1>2 DEF CallVerdict, Receipts, Success, BrowserErrors
<1>9. Promise!Undecided(t)
  BY DEF Promise!Undecided, CallStatus, CallVerdict, Open
<1>10. UNCHANGED <<CallStatus, outcome>>
  BY DEF CallStatus
<1> QED BY <1>7, <1>8, <1>9, <1>10 DEF Promise!Accept

\* The way out of dispatch() closes the call and leaves its verdict.
LEMMA FinishCloses ==
  ASSUME IndInv, NEW t \in Tools, pc[t] \in Open, NEW o, Finish(t, o)
  PROVE  CallStatus[t] = "open" /\ Promise!Close(t, o)
<1>1. /\ future \in [Tools -> Receipts \cup {"unset", "disconnected", "cancelled"}]
      /\ pc \in [Tools -> {"idle", "sending", "waiting", "returned"}]
  BY DEF IndInv, TypeOK
<1>2. CallStatus' = [CallStatus EXCEPT ![t] = "closed"]
  BY StatusMoves DEF IndInv, Finish, Open
<1>3. UNCHANGED CallVerdict
  BY <1>1 DEF Finish, CallVerdict
<1>4. UNCHANGED TimesAccepted
  BY AcceptedKept DEF Finish, AnswersStay
<1>5. CallStatus[t] = "open"
  BY DEF CallStatus, Open
<1> QED BY <1>2, <1>3, <1>4, <1>5 DEF Finish, Promise!Close

\* A call that is refused is closed without having been open.
LEMMA RefusalCloses ==
  ASSUME IndInv, NEW t \in Tools, pc[t] = "idle", NEW o \in Refusals, Refuse(t, o)
  PROVE  Promise!Refuse(t)
<1>1. CallStatus' = [CallStatus EXCEPT ![t] = "closed"]
  BY StatusMoves DEF IndInv, Refuse, Open
<1>2. UNCHANGED CallVerdict
  BY DEF Refuse, CallVerdict
<1>3. UNCHANGED TimesAccepted
  BY AcceptedKept DEF Refuse, AnswersStay, resolverVars
<1>4. CallStatus[t] = "idle"
  BY DEF CallStatus
<1> QED BY <1>1, <1>2, <1>3, <1>4 DEF Refuse, Promise!Close, Promise!Refuse

LEMMA DispatchPromise ==
  ASSUME IndInv, NEW t \in Tools, Dispatch(t)
  PROVE  Promise!Open(t) \/ Promise!Refuse(t)
<1>1. CASE DispatchClosed(t)
  BY <1>1, RefusalCloses DEF DispatchClosed, Refusals
<1>2. CASE \E id \in Ids : DispatchUsedId(t, id)
  BY <1>2, RefusalCloses DEF DispatchUsedId, Refusals
<1>3. CASE \E id \in Ids : DispatchOverLimit(t, id)
  BY <1>3, RefusalCloses DEF DispatchOverLimit, Refusals
<1>4. CASE \E id \in Ids : DispatchDenied(t, id)
  <2>1. Rejections \subseteq Refusals
    BY ConstantsAssumption DEF Refusals
  <2> QED BY <1>4, <2>1, RefusalCloses DEF DispatchDenied
<1>5. ASSUME NEW id \in Ids, DispatchOpen(t, id) PROVE Promise!Open(t)
  <2>1. CallStatus' = [CallStatus EXCEPT ![t] = "open"]
    BY <1>5, StatusMoves DEF IndInv, DispatchOpen, Open
  <2>2. UNCHANGED CallVerdict
    BY <1>5 DEF DispatchOpen, CallVerdict
  <2>3. UNCHANGED TimesAccepted
    BY <1>5, AcceptedKept DEF DispatchOpen, AnswersStay, resolverVars
  <2>4. CallStatus[t] = "idle"
    BY <1>5 DEF DispatchOpen, CallStatus
  <2> QED BY <1>5, <2>1, <2>2, <2>3, <2>4 DEF DispatchOpen, Promise!Open
<1> QED BY <1>1, <1>2, <1>3, <1>4, <1>5 DEF Dispatch

LEMMA ToolPromiseStep ==
  ASSUME IndInv, OnlyLeftAreCancelled, NEW t \in Tools,
         ToolStep(t) \/ SendRaises(t) \/ Expire(t) \/ DispatchCancelled(t)
  PROVE  Promise!Deliver(t) \/ Promise!Abandon(t) \/ Hidden
<1>1. CASE SendPut(t) \/ SendRaises(t) \/ Expire(t)
  BY <1>1, HiddenStep DEF SendPut, SendRaises, Expire, AnswersStay, resolverVars
<1>2. CASE SendNext(t)
  <2>1. UNCHANGED CallStatus
    BY <1>2, StatusMoves DEF IndInv, TypeOK, SendNext, CallStatus, Open
  <2>2. UNCHANGED <<CallVerdict, outcome>>
    BY <1>2 DEF SendNext, CallVerdict
  <2>3. UNCHANGED TimesAccepted
    BY <1>2, AcceptedKept DEF SendNext, AnswersStay, resolverVars
  <2> QED BY <2>1, <2>2, <2>3 DEF Hidden
<1>3. CASE DispatchSendFailed(t)
  <2>1. pc[t] \in Open /\ CallVerdict[t] = "none"
    BY <1>3 DEF DispatchSendFailed, Open, CallVerdict
  <2> QED BY <1>3, <2>1, FinishCloses DEF DispatchSendFailed, Promise!Abandon
<1>4. CASE DispatchResult(t)
  <2>1. future[t] \notin {"unset", "cancelled"}
    BY <1>4 DEF DispatchResult, OnlyLeftAreCancelled, Open
  <2>2. CallVerdict[t] = future[t] /\ future[t] # "none"
    BY <2>1 DEF CallVerdict, IndInv, TypeOK, Receipts, Success, BrowserErrors
  <2> QED BY <1>4, <2>2, FinishCloses DEF DispatchResult, Promise!Deliver
<1>5. CASE DispatchTimeout(t)
  BY <1>5, FinishCloses DEF DispatchTimeout, Promise!Abandon
<1>6. CASE DispatchCancelled(t)
  BY <1>6, FinishCloses DEF DispatchCancelled, Promise!Abandon
<1> QED BY <1>1, <1>2, <1>3, <1>4, <1>5, <1>6 DEF ToolStep

LEMMA ResolverPromise ==
  ASSUME IndInv, NEW r \in Resolvers,
         \/ \E q \in Requests : HandleToolResult(r, q)
         \/ ResolverStep(r) \/ NoticeCreated(r) \/ NoticeFailed(r) \/ ResolverCancelled(r)
  PROVE  (\E t \in Tools : Promise!Accept(t)) \/ Hidden
<1>1. /\ rpc \in [Resolvers -> {"idle", "locking", "updating", "replied"}]
      /\ reply \in [Resolvers -> {"none", "true", "false", "raised"}]
      /\ target \in [Resolvers -> Tools \cup {None}]
      /\ rpc[r] # "replied" => reply[r] = "none"
      /\ update[r] # "none" => rpc[r] = "updating"
  BY DEF IndInv, TypeOK, ResolversOK
\* A request that is told "false" or fails, or is told nothing yet.
<1>2. ASSUME rpc[r] # "replied", NEW a \in {"none", "false", "raised"}, NEW x,
             reply' = [reply EXCEPT ![r] = a], target' = [target EXCEPT ![r] = x],
             UNCHANGED <<pc, future, outcome>>
      PROVE  Hidden
  <2>1. \A q \in Resolvers : AnswersStay(q)
    BY <1>1, <1>2 DEF AnswersStay
  <2> QED BY <1>2, <2>1, HiddenStep
<1>3. CASE UNCHANGED <<pc, future, outcome, reply, target>>
  BY <1>3, HiddenStep DEF AnswersStay
<1>4. CASE \E q \in Requests : HandleToolResult(r, q)
  <2>1. UNCHANGED <<pc, future, outcome, target>>
    BY <1>4 DEF HandleToolResult, toolVars
  <2>2. rpc[r] # "replied" /\ (reply' = [reply EXCEPT ![r] = "false"] \/ reply' = reply)
    BY <1>4 DEF HandleToolResult
  <2>3. target' = [target EXCEPT ![r] = target[r]]
    BY <1>1, <2>1
  <2> QED BY <1>2, <1>3, <2>1, <2>2, <2>3
<1>5. CASE ResolveStale(r) \/ ResolveMalformed(r)
  <2>1. rpc[r] # "replied" /\ UNCHANGED <<pc, future, outcome, target>>
    BY <1>5 DEF ResolveStale, ResolveMalformed, HasLock, Unchanged4Reply
  <2>2. \E a \in {"none", "false", "raised"} : reply' = [reply EXCEPT ![r] = a]
    BY <1>5 DEF ResolveStale, ResolveMalformed, Answer
  <2>3. target' = [target EXCEPT ![r] = target[r]]
    BY <1>1, <2>1
  <2> QED BY <1>2, <2>1, <2>2, <2>3
<1>6. CASE ResolvePlain(r)
  <2> DEFINE t == pending[request[r].id]
             v == IF request[r].status = "error" THEN "execution_failed" ELSE "success"
  <2>1. request[r] # None
    BY <1>6 DEF ResolvePlain, HasLock, IndInv, ResolversOK
  <2>2. t \in Tools /\ future[t] = "unset" /\ pc[t] \in Open
    BY <1>6, <2>1, RequestType2 DEF ResolvePlain, Acceptable, IndInv, TypeOK, RegistryConsistent
  <2>3. v \in Receipts
    BY DEF Receipts, Success, BrowserErrors
  <2>4. rpc[r] # "replied" /\ Settle(r, t, v, 0) /\ UNCHANGED <<pc, outcome>>
    BY <1>6 DEF ResolvePlain, HasLock, Unchanged4Reply
  <2> QED BY <2>2, <2>3, <2>4, SettleAccepts
<1>7. CASE ResolveWithState(r)
  <2>1. rpc[r] # "replied" /\ UNCHANGED <<pc, future, outcome, reply>>
    BY <1>7 DEF ResolveWithState, HasLock, toolVars
  <2>2. \E x : target' = [target EXCEPT ![r] = x]
    BY <1>7 DEF ResolveWithState
  <2>3. reply' = [reply EXCEPT ![r] = "none"]
    BY <1>1, <2>1
  <2> QED BY <1>2, <2>1, <2>2, <2>3
<1>8. CASE UpdateRefused(r) \/ UpdateCommit(r) \/ SnapshotPut(r) \/ NoticeCreated(r) \/ NoticeFailed(r)
  <2>1. UnchangedByUpdate
    BY <1>8 DEF UpdateRefused, UpdateCommit, SnapshotPut, NoticeCreated, NoticeFailed
  <2> QED BY <1>3, <2>1 DEF UnchangedByUpdate, toolVars
<1>9. CASE ResumeSettle(r)
  <2> DEFINE t == target[r]
  <2>1. rpc[r] = "updating" /\ UNCHANGED <<pc, outcome>>
    BY <1>9 DEF ResumeSettle, Resumes, Unchanged4Reply
  <2>2. CASE future[t] = "unset"
    <3>1. t \in Tools /\ pc[t] \in Open
      BY <1>1, <2>1, <2>2 DEF IndInv, ResolversOK
    <3>2. SettledWith(r) \in Receipts
      BY <1>9 DEF ResumeSettle, SettledWith, Receipts, Success, BrowserErrors
    <3>3. \E n : Settle(r, t, SettledWith(r), n)
      BY <1>9, <2>2 DEF ResumeSettle
    <3> QED BY <2>1, <2>2, <3>1, <3>2, <3>3, SettleAccepts
  <2>3. CASE future[t] # "unset"
    BY <1>2, <1>9, <2>1, <2>3 DEF ResumeSettle, Answer
  <2> QED BY <2>2, <2>3
<1>10. CASE ResumeFailed(r) \/ ResumeCancelled(r) \/ ResumeTimeout(r) \/ ResolverCancelled(r)
  <2>1. rpc[r] # "replied" /\ UNCHANGED <<pc, future, outcome>>
    BY <1>10 DEF ResumeFailed, ResumeCancelled, ResumeTimeout, ResolverCancelled, Resumes,
       Unchanged4Reply
  <2>2. target' = [target EXCEPT ![r] = None]
    BY <1>10 DEF ResumeFailed, ResumeCancelled, ResumeTimeout, ResolverCancelled
  <2>3. \E a \in {"none", "false", "raised"} : reply' = [reply EXCEPT ![r] = a]
    BY <1>10 DEF ResumeFailed, ResumeCancelled, ResumeTimeout, ResolverCancelled, Answer
  <2> QED BY <1>2, <2>1, <2>2, <2>3
<1> QED BY <1>4, <1>5, <1>6, <1>7, <1>8, <1>9, <1>10 DEF ResolverStep

\* The finalizer of the run settles every call that is still undecided.
LEMMA EndRunPromise ==
  ASSUME IndInv, OnlyLeftAreCancelled, EndRun
  PROVE  Promise!Hangup \/ Hidden
<1> DEFINE T == {t \in {pending[i] : i \in Ids} \ {None} : future[t] = "unset"}
<1>1. /\ pc \in [Tools -> {"idle", "sending", "waiting", "returned"}]
      /\ pending \in [Ids -> Tools \cup {None}] /\ used \subseteq Ids
      /\ future \in [Tools -> Receipts \cup {"unset", "disconnected", "cancelled"}]
      /\ None \notin Tools
  BY ConstantsAssumption DEF IndInv, TypeOK
<1>2. /\ future' = [t \in Tools |-> IF t \in T THEN "disconnected" ELSE future[t]]
      /\ UNCHANGED <<pc, outcome, reply, target>>
  BY DEF EndRun
<1>3. UNCHANGED <<CallStatus, TimesAccepted, outcome>>
  BY <1>2, AcceptedKept DEF CallStatus, AnswersStay
<1>4. ASSUME NEW t \in Tools PROVE t \in T <=> Promise!Undecided(t)
  <2>1. ASSUME t \in T PROVE Promise!Undecided(t)
    <3>1. PICK i \in Ids : pending[i] = t
      BY <2>1
    <3>2. pc[t] \in Open /\ future[t] = "unset"
      BY <1>1, <2>1, <3>1 DEF IndInv, RegistryConsistent
    <3> QED BY <3>2 DEF Promise!Undecided, CallStatus, CallVerdict, Open
  <2>2. ASSUME Promise!Undecided(t) PROVE t \in T
    <3>1. pc[t] \in Open
      BY <2>2 DEF Promise!Undecided, CallStatus
    <3>2. future[t] = "unset"
      BY <1>1, <2>2, <3>1 DEF Promise!Undecided, CallVerdict, OnlyLeftAreCancelled, Open, Receipts,
         Success, BrowserErrors
    <3>3. pending[call[t]] = t /\ call[t] \in Ids
      BY <1>1, <3>1 DEF IndInv, RegistryConsistent, CallsOK
    <3> QED BY <1>1, <3>2, <3>3
  <2> QED BY <2>1, <2>2
<1>5. CallVerdict' = [t \in Tools |-> IF Promise!Undecided(t) THEN "disconnected" ELSE CallVerdict[t]]
  <2>1. ASSUME NEW t \in Tools
        PROVE  CallVerdict'[t] = IF Promise!Undecided(t) THEN "disconnected" ELSE CallVerdict[t]
    BY <1>2, <1>4 DEF CallVerdict
  <2> QED BY <2>1 DEF CallVerdict
<1>6. CASE \E t \in Tools : Promise!Undecided(t)
  BY <1>3, <1>5, <1>6 DEF Promise!Hangup
<1>7. CASE ~ \E t \in Tools : Promise!Undecided(t)
  <2>1. CallVerdict' = CallVerdict
    BY <1>5, <1>7 DEF CallVerdict
  <2> QED BY <1>3, <2>1 DEF Hidden
<1> QED BY <1>6, <1>7

LEMMA StepPromise ==
  ASSUME IndInv, OnlyLeftAreCancelled, [Next]_vars
  PROVE  [Promise!Next]_(Promise!vars)
<1>1. ASSUME Consume \/ StopStreaming \/ Terminated \/ UNCHANGED vars
      PROVE  Hidden
  <2>1. UNCHANGED <<pc, future, outcome, reply, target>>
    BY <1>1 DEF Consume, StopStreaming, Terminated, vars, toolVars, resolverVars
  <2> QED BY <2>1, HiddenStep DEF AnswersStay
<1> QED BY <1>1, DispatchPromise, ToolPromiseStep, ResolverPromise, EndRunPromise
        DEF Next, Promise!Next, Hidden, Promise!vars

\* Only the way out of dispatch() cancels its future.
LEMMA CancelledStep ==
  ASSUME IndInv, OnlyLeftAreCancelled, [Next]_vars
  PROVE  OnlyLeftAreCancelled'
<1>1. /\ pc \in [Tools -> {"idle", "sending", "waiting", "returned"}]
      /\ future \in [Tools -> Receipts \cup {"unset", "disconnected", "cancelled"}]
      /\ \A t \in Tools : pc[t] = "idle" => future[t] = "unset"
  BY DEF IndInv, TypeOK, CallsOK
<1>2. ASSUME NEW t \in Tools, Dispatch(t) PROVE OnlyLeftAreCancelled'
  BY <1>1, <1>2 DEF Dispatch, DispatchClosed, DispatchUsedId, DispatchOverLimit, DispatchDenied,
     DispatchOpen, Refuse, OnlyLeftAreCancelled
<1>3. ASSUME NEW t \in Tools, SendPut(t) \/ SendNext(t) \/ SendRaises(t) \/ Expire(t)
      PROVE  OnlyLeftAreCancelled'
  BY <1>1, <1>3 DEF SendPut, SendNext, SendRaises, Expire, OnlyLeftAreCancelled
<1>4. ASSUME NEW t \in Tools, NEW o, Finish(t, o) PROVE OnlyLeftAreCancelled'
  BY <1>1, <1>4 DEF Finish, OnlyLeftAreCancelled
<1>5. ASSUME NEW r \in Resolvers,
             \/ \E q \in Requests : HandleToolResult(r, q)
             \/ ResolverStep(r) \/ NoticeCreated(r) \/ NoticeFailed(r) \/ ResolverCancelled(r)
      PROVE  OnlyLeftAreCancelled'
  <2>1. \A t \in Tools : future'[t] = future[t] \/ future'[t] # "cancelled"
    <3>1. SettledWith(r) # "cancelled" \/ ~ResumeSettle(r)
      BY DEF ResumeSettle, SettledWith
    <3> QED BY <1>1, <1>5, <3>1
            DEF HandleToolResult, ResolverStep, ResolveStale, ResolveMalformed, ResolvePlain,
                ResolveWithState, UpdateRefused, UpdateCommit, SnapshotPut, NoticeCreated,
                NoticeFailed, ResumeSettle, ResumeFailed, ResumeCancelled, ResumeTimeout,
                ResolverCancelled, Settle, UnchangedByUpdate, toolVars
  <2>2. UNCHANGED pc
    BY <1>5 DEF HandleToolResult, ResolverStep, ResolveStale, ResolveMalformed, ResolvePlain,
       ResolveWithState, UpdateRefused, UpdateCommit, SnapshotPut, NoticeCreated, NoticeFailed,
       ResumeSettle, ResumeFailed, ResumeCancelled, ResumeTimeout, ResolverCancelled, Resumes,
       Unchanged4Reply, UnchangedByUpdate, toolVars
  <2> QED BY <2>1, <2>2 DEF OnlyLeftAreCancelled
<1>6. CASE Consume \/ StopStreaming \/ EndRun \/ Terminated \/ UNCHANGED vars
  BY <1>6 DEF Consume, StopStreaming, EndRun, Terminated, vars, toolVars, OnlyLeftAreCancelled
<1> QED BY <1>2, <1>3, <1>4, <1>5, <1>6
        DEF Next, ToolStep, DispatchSendFailed, DispatchResult, DispatchTimeout, DispatchCancelled

LEMMA InitPromise == Init => Promise!Init /\ OnlyLeftAreCancelled
<1> SUFFICES ASSUME Init PROVE Promise!Init /\ OnlyLeftAreCancelled
  OBVIOUS
<1>1. CallStatus = [t \in Tools |-> "idle"] /\ CallVerdict = [t \in Tools |-> "none"]
  BY DEF Init, CallStatus, CallVerdict
<1>2. ASSUME NEW t \in Tools PROVE TimesAccepted[t] = 0
  <2>1. {r \in Resolvers : reply[r] = "true" /\ target[r] = t} = {}
    BY DEF Init
  <2> QED BY <2>1, FS_EmptySet DEF TimesAccepted
<1>3. TimesAccepted = [t \in Tools |-> 0]
  BY <1>2 DEF TimesAccepted
<1> QED BY <1>1, <1>3 DEF Init, Promise!Init, OnlyLeftAreCancelled

\* Every step of the dispatcher is a step of ToolPromise or is not seen there:
\* a call is settled once, by one receipt, by the end of the run or not at all,
\* and its tool gets one outcome, which contradicts no receipt that was told
\* "true" (KeepsPromise without its fairness).
THEOREM PromiseIsKept == Spec => KeepsPromiseSteps
<1>1. Init => Promise!Init /\ OnlyLeftAreCancelled
  BY InitPromise
<1>2. IndInv /\ OnlyLeftAreCancelled /\ [Next]_vars
        => OnlyLeftAreCancelled' /\ [Promise!Next]_(Promise!vars)
  BY StepPromise, CancelledStep
<1>3. QED
  BY <1>1, <1>2, InductiveInvariant, PTL DEF Spec, KeepsPromiseSteps

=============================================================================
