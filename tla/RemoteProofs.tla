---------------------------- MODULE RemoteProofs ----------------------------
(***************************************************************************)
(* Proofs about Knowledge: the lock, the connection and the MCP client     *)
(* agree in every state (LinkInv), and the loop of _answer keeps what the  *)
(* finished answer promises (AnswerInv); and about SaleorServices: a       *)
(* search returns the one variant that fits, and a promotion that was      *)
(* disabled has ended.                                                     *)
(***************************************************************************)
EXTENDS Knowledge, SaleorServices, FiniteSetTheorems, TLAPS

Holding(t) == pc[t] \in {"acting", "sleeping"}

\* The holder of the lock is the one task in an operation; the client is in,
\* when it is said to be connected, unless it is just being left.
LinkInv ==
  /\ \A t \in Tasks : Holding(t) <=> lock = t
  /\ \A t \in Tasks : pc[t] # "idle" => op[t] # None
  /\ connected => \/ client = "in"
                  \/ \E t \in Tasks : Holding(t) /\ op[t] = "close" /\ client = "exiting"
  /\ \A t \in Tasks : Holding(t) =>
       /\ connected = (op[t] # "connect")
       /\ Request(t) => client = "in"
       /\ attempt[t] >= 1 /\ (op[t] # "list" => attempt[t] = 1)
  /\ \A t \in Tasks : pc[t] = "sleeping" => op[t] = "list" /\ attempt[t] < MaxAttempts
  /\ \A t \in Tasks : pc[t] = "locking" => attempt[t] = 0
  /\ \A t \in Tasks : sent[t] <= attempt[t] /\ (op[t] # "list" => attempt[t] <= 1)

\* An answer in the loop, and the payload it comes from.
Derived(a, p) ==
  /\ a.width = p.width
  /\ a.len <= Bounded(p).len /\ a.sources <= Bounded(p).sources
  /\ a.collection <= p.collection
  /\ a = p \/ a.truncated
  /\ WouldFit(Bounded(p)) => a.sources = Bounded(p).sources

AnswerInv ==
  \A t \in Tasks :
    answer[t] # None =>
      /\ payload[t] # None /\ pc[t] \in {"idle", "shaping"}
      /\ Derived(answer[t], payload[t])
      /\ pc[t] = "idle" => Size(answer[t]) <= MaxBytes

IndInv ==
  /\ TypeOK /\ LinkInv /\ AnswerInv
  /\ \A t \in Tasks : pc[t] = "shaping" => answer[t] # None

USE KnowledgeAssumption, AnswerAssumption

-----------------------------------------------------------------------------
(* The loop of _answer.                                                    *)

\* A shorter text of the same width has no more bytes.
LEMMA NoMoreBytes ==
  ASSUME NEW m \in Nat, NEW n \in Nat, NEW k \in Nat, m <= n
  PROVE  m * k \in Nat /\ n * k \in Nat /\ m * k <= n * k
<1>1. PICK d \in Nat : n = m + d
  <2>1. n - m \in Nat /\ n = m + (n - m)
    OBVIOUS
  <2> QED BY <2>1
<1>2. n * k = m * k + d * k /\ m * k \in Nat /\ n * k \in Nat /\ d * k \in Nat
  BY <1>1
<1> QED BY <1>2

LEMMA BoundedAnswer ==
  ASSUME NEW p \in Answers
  PROVE  /\ Bounded(p) \in Answers
         /\ Bounded(p).width = p.width /\ Bounded(p).collection = p.collection
         /\ Bounded(p).meta = p.meta /\ Bounded(p).truncated = p.truncated
BY DEF Bounded, Answers, Least

\* The answer enters the loop as the payload, bounded, with an honest flag.
LEMMA ShapedDerived ==
  ASSUME NEW p \in Answers
  PROVE  Shaped(p) \in Answers /\ Derived(Shaped(p), p)
<1> DEFINE b == Bounded(p)
<1>1. b \in Answers /\ b.width = p.width /\ b.collection = p.collection
  BY BoundedAnswer
<1>2. Flagged(p) \in BOOLEAN
  BY DEF Flagged, Answers
<1>3. Shaped(p) = [b EXCEPT !.truncated = Flagged(p)]
  BY DEF Shaped
<1> HIDE DEF b
<1>4. Shaped(p) \in Answers
  BY <1>1, <1>2, <1>3 DEF Answers
<1>5. /\ Shaped(p).width = b.width /\ Shaped(p).len = b.len /\ Shaped(p).sources = b.sources
      /\ Shaped(p).collection = b.collection /\ Shaped(p).truncated = Flagged(p)
  BY <1>1, <1>2, <1>3 DEF Answers
<1>6. Shaped(p) = p \/ Shaped(p).truncated
  <2>1. CASE Flagged(p)
    BY <2>1, <1>5
  <2>2. CASE ~Flagged(p)
    <3>1. b = p /\ p.truncated = FALSE
      BY <2>2 DEF Flagged, b, Answers
    <3>2. Shaped(p) = [p EXCEPT !.truncated = FALSE]
      BY <3>1, <2>2, <1>2, <1>3, Zenon
    <3>3. [p EXCEPT !.truncated = FALSE] = p
      BY <3>1 DEF Answers
    <3> QED BY <3>2, <3>3
  <2> QED BY <2>1, <2>2
<1>7. b.len \in Nat /\ b.sources \in Nat /\ p.collection \in Nat
  BY <1>1 DEF Answers
<1> QED BY <1>1, <1>4, <1>5, <1>6, <1>7 DEF Derived, b

\* When only sources are left to cut, keeping them all would not have fitted.
LEMMA SourcesMustGo ==
  ASSUME NEW p \in Answers, NEW a \in Answers, Derived(a, p), TooBig(a),
         a.meta = 0, a.len <= Keep
  PROVE  ~WouldFit(Bounded(p))
<1> SUFFICES ASSUME WouldFit(Bounded(p)) PROVE FALSE
  OBVIOUS
<1> DEFINE b == Bounded(p)
           l == Least(b.len, Keep)
<1>1. b \in Answers /\ b.width = p.width /\ b.collection = p.collection
  BY BoundedAnswer
<1>2. a.width = p.width /\ a.len <= b.len /\ a.collection <= p.collection
  BY DEF Derived
<1>3. a.sources = b.sources
  BY DEF Derived
<1>4. Base + l * b.width + b.sources * SourceBytes + b.collection <= MaxBytes
  BY DEF WouldFit
<1> HIDE DEF b
<1>5. b.len \in Nat /\ b.width \in Nat /\ b.sources \in Nat /\ b.collection \in Nat
  BY <1>1 DEF Answers
<1>6. a.len \in Nat /\ a.collection \in Nat
  BY DEF Answers
<1>7. l \in Nat /\ a.len <= l
  BY <1>2, <1>5, <1>6 DEF Least
<1> HIDE DEF l
<1>8. a.len * b.width \in Nat /\ l * b.width \in Nat /\ a.len * b.width <= l * b.width
  BY <1>5, <1>6, <1>7, NoMoreBytes
<1>9. b.sources * SourceBytes \in Nat
  BY <1>5
<1>10. Size(a) = Base + a.len * b.width + b.sources * SourceBytes + a.collection
  <2>1. a.width = b.width
    BY <1>1, <1>2
  <2>2. Size(a) = Base + a.len * b.width + b.sources * SourceBytes + 0 + a.collection
    BY <2>1, <1>3 DEF Size
  <2> QED BY <2>2, <1>5, <1>6, <1>8, <1>9
<1>11. Size(a) <= MaxBytes
  <2> DEFINE x == a.len * b.width
             y == l * b.width
             z == b.sources * SourceBytes
  <2>1. x \in Nat /\ y \in Nat /\ z \in Nat /\ x <= y
    BY <1>8, <1>9
  <2>2. Size(a) = Base + x + z + a.collection
    BY <1>10
  <2>3. Base + y + z + b.collection <= MaxBytes
    BY <1>4
  <2>4. a.collection <= b.collection
    BY <1>1, <1>2
  <2> HIDE DEF x, y, z
  <2> QED BY <2>1, <2>2, <2>3, <2>4, <1>5, <1>6
<1>12. Size(a) \in Nat
  BY <1>5, <1>6, <1>8, <1>9, <1>10
<1> QED BY <1>11, <1>12 DEF TooBig

\* A turn of the loop.
LEMMA ShrunkDerived ==
  ASSUME NEW p \in Answers, NEW a \in Answers, Derived(a, p), TooBig(a)
  PROVE  Shrunk(a) \in Answers /\ Derived(Shrunk(a), p)
<1> DEFINE b == Bounded(p)
<1>1. b \in Answers
  BY BoundedAnswer
<1>2. /\ a.width = p.width /\ a.len <= b.len /\ a.sources <= b.sources
      /\ a.collection <= p.collection /\ (WouldFit(b) => a.sources = b.sources)
  BY DEF Derived
<1>3. /\ a.len \in Nat /\ a.width \in Nat /\ a.sources \in Nat /\ a.meta \in Nat
      /\ a.collection \in Nat /\ p.collection \in Nat /\ b.len \in Nat /\ b.sources \in Nat
  BY <1>1 DEF Answers
<1>4. SUFFICES /\ Shrunk(a) \in Answers
               /\ Shrunk(a).width = p.width
               /\ Shrunk(a).len <= b.len /\ Shrunk(a).sources <= b.sources
               /\ Shrunk(a).collection <= p.collection
               /\ Shrunk(a).truncated
               /\ WouldFit(b) => Shrunk(a).sources = b.sources
  BY DEF Derived
<1>5. a.len \div 2 \in Nat /\ a.len \div 2 <= b.len
  BY <1>2, <1>3
<1>6. ~WouldFit(b) \/ a.meta > 0 \/ a.len > Keep
  BY <1>3, SourcesMustGo
<1> HIDE DEF b
<1>7. CASE a.meta > 0
  BY <1>7, <1>2, <1>3 DEF Shrunk, Answers
<1>8. CASE ~(a.meta > 0) /\ a.len > Keep
  BY <1>8, <1>2, <1>3, <1>5 DEF Shrunk, Answers
<1>9. CASE ~(a.meta > 0) /\ ~(a.len > Keep) /\ a.sources > 0
  <2>1. ~WouldFit(b)
    BY <1>6, <1>9
  <2>2. a.sources - 1 \in Nat /\ a.sources - 1 <= b.sources
    BY <1>2, <1>3, <1>9
  <2> QED BY <1>9, <2>1, <2>2, <1>2, <1>3 DEF Shrunk, Answers
<1>10. CASE ~(a.meta > 0) /\ ~(a.len > Keep) /\ ~(a.sources > 0) /\ a.collection > 0
  <2> DEFINE c == [a EXCEPT !.truncated = TRUE]
  <2>1. c \in Answers /\ c.width = a.width /\ c.len = a.len /\ c.sources = a.sources /\ c.truncated
    BY DEF Answers
  <2>2. Shrunk(a) = [c EXCEPT !.collection = 0]
    BY <1>10 DEF Shrunk
  <2> HIDE DEF c
  <2>3. Shrunk(a) \in Answers
    BY <2>1, <2>2 DEF Answers
  <2>4. /\ Shrunk(a).width = a.width /\ Shrunk(a).len = a.len
        /\ Shrunk(a).sources = a.sources
        /\ Shrunk(a).collection = 0 /\ Shrunk(a).truncated
    BY <2>1, <2>2 DEF Answers
  <2> QED BY <2>3, <2>4, <1>2, <1>3
<1>11. CASE ~(a.meta > 0) /\ ~(a.len > Keep) /\ ~(a.sources > 0) /\ ~(a.collection > 0)
  <2>1. Shrunk(a) = [a EXCEPT !.truncated = TRUE, !.len = @ \div 2]
    BY <1>11 DEF Shrunk
  <2> QED BY <2>1, <1>2, <1>3, <1>5 DEF Answers
<1> QED BY <1>7, <1>8, <1>9, <1>10, <1>11

-----------------------------------------------------------------------------
(* The invariant.                                                          *)

\* What a task can do.
TaskMoves(t) ==
  \/ \E what \in {"connect", "close", "call", "list"} : Begin(t, what)
  \/ Turned(t) \/ Act(t) \/ Received(t) \/ Connects(t) \/ Closes(t)
  \/ Returns(t) \/ Answered(t) \/ Fails(t) \/ Retry(t) \/ Breaks(t)
  \/ Shrink(t) \/ Deliver(t)

LEMMA InitInv == Init => IndInv
<1> SUFFICES ASSUME Init PROVE IndInv
  OBVIOUS
<1>1. TypeOK
  <2>1. \A n \in {0} : n \in 0 .. MaxAttempts /\ n \in Nat
    OBVIOUS
  <2>2. /\ attempt \in [Tasks -> 0 .. MaxAttempts] /\ sent \in [Tasks -> Nat]
        /\ payload \in [Tasks -> Payloads \cup {None}]
        /\ answer \in [Tasks -> Answers \cup {None}]
    BY <2>1 DEF Init
  <2> QED BY <2>2 DEF Init, TypeOK
<1>2. LinkInv
  BY DEF Init, LinkInv, Holding
<1>3. AnswerInv
  BY DEF Init, AnswerInv
<1> QED BY <1>1, <1>2, <1>3 DEF Init, IndInv

LEMMA TypeStep ==
  ASSUME IndInv, NEW t \in Tasks, TaskMoves(t)
  PROVE  TypeOK'
<1> USE DEF TypeOK
<1>0. TypeOK
  BY DEF IndInv
<1>1. ASSUME NEW what \in {"connect", "close", "call", "list"}, Begin(t, what)
      PROVE TypeOK'
  BY <1>0, <1>1 DEF Begin, Go, link
<1>2. CASE Turned(t)
  BY <1>0, <1>2 DEF Turned, Go, link, asked
<1>3. CASE Act(t)
  BY <1>0, <1>3 DEF Act, Go, asked
<1>4. CASE Received(t)
  BY <1>0, <1>4 DEF Received, link, asked
<1>5. CASE Connects(t) \/ Closes(t) \/ Returns(t) \/ Deliver(t)
  BY <1>0, <1>5 DEF Connects, Closes, Returns, Deliver, Go, link, asked
<1>6. CASE Answered(t)
  <2>1. PICK p \in Payloads : /\ payload' = [payload EXCEPT ![t] = p]
                             /\ answer' = [answer EXCEPT ![t] = Shaped(p)]
    BY <1>6 DEF Answered
  <2>2. Shaped(p) \in Answers
    BY <2>1, ShapedDerived
  <2>3. payload' \in [Tasks -> Payloads \cup {None}] /\ answer' \in [Tasks -> Answers \cup {None}]
    BY <1>0, <2>1, <2>2
  <2> QED BY <1>0, <1>6, <2>3 DEF Answered, Go
<1>7. CASE Fails(t) \/ Breaks(t)
  BY <1>0, <1>7 DEF Fails, Breaks, Give, ConnectedAfter, Go, link, asked
<1>8. CASE Retry(t)
  <2>1. attempt[t] < MaxAttempts
    BY <1>8 DEF IndInv, LinkInv, Retry
  <2> QED BY <1>0, <1>8, <2>1 DEF Retry, Go, link, asked
<1>9. CASE Shrink(t)
  <2>1. answer[t] # None /\ answer[t] \in Answers
    BY <1>0, <1>9 DEF Shrink, IndInv
  <2>2. payload[t] \in Answers /\ Derived(answer[t], payload[t])
    BY <1>0, <2>1 DEF IndInv, AnswerInv
  <2>3. Shrunk(answer[t]) \in Answers
    BY <1>9, <2>1, <2>2, ShrunkDerived DEF Shrink
  <2> QED BY <1>0, <1>9, <2>3 DEF Shrink, link
<1> QED BY <1>1, <1>2, <1>3, <1>4, <1>5, <1>6, <1>7, <1>8, <1>9 DEF TaskMoves

\* The lock given back after a failure: the client stays in unless a connect
\* or a close broke off, and then it is not said to be connected.
LEMMA GiveStep ==
  ASSUME TypeOK, LinkInv, NEW t \in Tasks, Holding(t), Give(t), UNCHANGED <<op, attempt, sent>>
  PROVE  LinkInv'
<1> USE DEF TypeOK
<1>1. lock = t /\ \A u \in Tasks \ {t} : ~Holding(u)
  BY DEF LinkInv
<1>2. lock' = None /\ pc' = [pc EXCEPT ![t] = "idle"]
  BY DEF Give, Go
<1>3. \A u \in Tasks : pc'[u] = IF u = t THEN "idle" ELSE pc[u]
  BY <1>2
<1>4. \A u \in Tasks : ~Holding(u)' /\ pc'[u] # "sleeping"
  BY <1>1, <1>3 DEF Holding
<1>5. \A u \in Tasks : lock' # u
  BY <1>2
<1>6. connected' => client' = "in"
  <2>1. CASE Request(t)
    <3>1. client = "in"
      BY <2>1 DEF LinkInv
    <3> QED BY <2>1, <3>1 DEF Give
  <2>2. CASE op[t] = "connect"
    <3>1. ~connected
      BY <2>2 DEF LinkInv
    <3> QED BY <3>1 DEF Give, ConnectedAfter
  <2>3. CASE op[t] = "close"
    BY <2>3 DEF Give, ConnectedAfter
  <2>4. op[t] # None
    BY DEF LinkInv, Holding
  <2> QED BY <2>1, <2>2, <2>3, <2>4 DEF Request
<1>7. \A u \in Tasks : pc'[u] # "idle" => op'[u] # None
  BY <1>3 DEF LinkInv
<1>8. \A u \in Tasks : pc'[u] = "locking" => attempt'[u] = 0
  BY <1>3 DEF LinkInv
<1>9. \A u \in Tasks : sent'[u] <= attempt'[u] /\ (op'[u] # "list" => attempt'[u] <= 1)
  BY DEF LinkInv
<1> QED BY <1>4, <1>5, <1>6, <1>7, <1>8, <1>9 DEF LinkInv

\* The lock: who holds it, and how it left the client.
LEMMA LinkStep ==
  ASSUME IndInv, NEW t \in Tasks, TaskMoves(t)
  PROVE  LinkInv'
<1> USE DEF TypeOK, LinkInv, Holding, Request
<1>0. TypeOK /\ LinkInv
  BY DEF IndInv
<1>1. ASSUME NEW what \in {"connect", "close", "call", "list"}, Begin(t, what)
      PROVE LinkInv'
  BY <1>0, <1>1 DEF Begin, Go, link
<1>2. CASE Turned(t) \/ Deliver(t)
  BY <1>0, <1>2 DEF Turned, MayEnter, Deliver, Go, link, asked
<1>3. CASE Act(t)
  <2>1. /\ pc[t] = "locking" /\ lock' = t /\ connected = (op[t] # "connect")
        /\ pc' = [pc EXCEPT ![t] = "acting"] /\ attempt' = [attempt EXCEPT ![t] = 1]
        /\ UNCHANGED <<connected, op, sent>>
        /\ \A u \in Tasks : ~Holding(u)
    BY <1>0, <1>3 DEF Act, MayEnter, Go
  <2>2. \A u \in Tasks : Holding(u)' <=> u = t
    BY <1>0, <2>1
  <2>3. \A u \in Tasks : /\ pc'[u] # "sleeping" /\ (pc'[u] # "idle" => op'[u] # None)
                         /\ pc'[u] = "locking" => attempt'[u] = 0
    BY <1>0, <2>1
  <2>4. attempt'[t] = 1 /\ sent'[t] <= 1
    BY <1>0, <2>1
  <2>5. \A u \in Tasks : sent'[u] <= attempt'[u] /\ (op'[u] # "list" => attempt'[u] <= 1)
    BY <1>0, <2>1, <2>4
  <2>6. connected => client = "in"
    BY <1>0, <2>1
  <2>7. /\ connected' => client' = "in" \/ (op'[t] = "close" /\ client' = "exiting")
        /\ Request(t)' => client' = "in"
    <3>1. CASE op[t] = "connect"
      <4>1. connected = FALSE /\ connected' = connected /\ op'[t] = "connect"
        BY <2>1, <3>1
      <4> QED BY <4>1
    <3>2. CASE op[t] = "close"
      BY <1>3, <2>1, <3>2 DEF Act
    <3>3. CASE Request(t)
      <4>1. connected = TRUE /\ client' = client /\ UNCHANGED op
        BY <1>3, <2>1, <3>3 DEF Act
      <4>2. client = "in"
        BY <2>6, <4>1
      <4>3. client' = "in"
        BY <4>1, <4>2
      <4> QED BY <4>3
    <3> QED BY <1>3, <3>1, <3>2, <3>3 DEF Act
  <2>8. connected' = (op'[t] # "connect")
    BY <2>1
  <2>9. \A u \in Tasks : (lock' = u) <=> (u = t)
    BY <2>1
  <2> HIDE DEF Holding, Request
  <2> QED BY <2>2, <2>3, <2>4, <2>5, <2>7, <2>8, <2>9
<1>4. CASE Received(t)
  BY <1>0, <1>4 DEF Received, link, asked
<1>5. CASE Connects(t)
  BY <1>0, <1>5 DEF Connects, Go
<1>6. CASE Closes(t)
  BY <1>0, <1>6 DEF Closes, Go
<1>7. CASE Returns(t) \/ Answered(t)
  BY <1>0, <1>7 DEF Returns, Answered, Go
<1>8. CASE Fails(t)
  <2>1. Holding(t) /\ UNCHANGED <<op, attempt, sent>>
    BY <1>8 DEF Fails, Limited
  <2>2. CASE Retryable(t)
    <3>1. pc' = [pc EXCEPT ![t] = "sleeping"] /\ UNCHANGED <<lock, connected, client>>
      BY <1>8, <2>2 DEF Fails, Go, link
    <3> QED BY <1>0, <2>1, <2>2, <3>1 DEF Retryable
  <2>3. CASE ~Retryable(t)
    BY <1>0, <1>8, <2>1, <2>3, GiveStep DEF Fails
  <2> QED BY <2>2, <2>3
<1>9. CASE Breaks(t)
  <2>1. UNCHANGED <<op, attempt, sent>>
    BY <1>9 DEF Breaks
  <2>2. CASE Holding(t) /\ Give(t)
    BY <1>0, <2>1, <2>2, GiveStep
  <2>3. CASE pc[t] = "locking" /\ Go(t, "idle") /\ UNCHANGED link
    BY <1>0, <2>1, <2>3 DEF Go, link
  <2> QED BY <1>9, <2>2, <2>3 DEF Breaks
<1>10. CASE Retry(t)
  BY <1>0, <1>10 DEF Retry, Go, link
<1>11. CASE Shrink(t)
  BY <1>0, <1>11 DEF Shrink, link
<1> QED
  BY <1>1, <1>2, <1>3, <1>4, <1>5, <1>6, <1>7, <1>8, <1>9, <1>10, <1>11 DEF TaskMoves

\* Only Answered, Shrink and Deliver touch what a finished answer is made of.
LEMMA AnswerStep ==
  ASSUME IndInv, NEW t \in Tasks, TaskMoves(t)
  PROVE  AnswerInv' /\ \A u \in Tasks : pc'[u] = "shaping" => answer'[u] # None
<1> USE DEF TypeOK, AnswerInv
<1> DEFINE Goal == AnswerInv' /\ \A u \in Tasks : pc'[u] = "shaping" => answer'[u] # None
<1>0. TypeOK /\ AnswerInv /\ \A u \in Tasks : pc[u] = "shaping" => answer[u] # None
  BY DEF IndInv
<1>1. ASSUME NEW what \in {"connect", "close", "call", "list"}, Begin(t, what)
      PROVE Goal
  BY <1>0, <1>1 DEF Begin, Go
<1>2. CASE Turned(t) \/ Act(t) \/ Connects(t) \/ Closes(t) \/ Returns(t) \/ Breaks(t)
  <2>1. UNCHANGED <<payload, answer>> /\ pc[t] \in {"locking", "acting", "sleeping"}
    BY <1>2 DEF Turned, MayEnter, Act, Connects, Closes, Returns, Breaks, asked
  <2>2. \E l \in {"idle", "acting"} : pc' = [pc EXCEPT ![t] = l]
    BY <1>2 DEF Turned, Act, Connects, Closes, Returns, Breaks, Give, Go
  <2> QED BY <1>0, <2>1, <2>2
<1>3. CASE Fails(t) \/ Retry(t)
  <2>1. UNCHANGED <<payload, answer>> /\ pc[t] \in {"acting", "sleeping"}
    BY <1>3 DEF Fails, Limited, Retry, asked
  <2>2. \E l \in {"idle", "acting", "sleeping"} : pc' = [pc EXCEPT ![t] = l]
    BY <1>3 DEF Fails, Retry, Give, Go
  <2> QED BY <1>0, <2>1, <2>2
<1>4. CASE Received(t)
  BY <1>0, <1>4 DEF Received, asked
<1>5. CASE Answered(t)
  <2>1. PICK p \in Payloads : /\ payload' = [payload EXCEPT ![t] = p]
                             /\ answer' = [answer EXCEPT ![t] = Shaped(p)]
    BY <1>5 DEF Answered
  <2>2. p \in Answers /\ Shaped(p) \in Answers /\ Derived(Shaped(p), p)
    BY <2>1, ShapedDerived
  <2>3. p # None /\ Shaped(p) # None
    BY <2>2
  <2>4. pc' = [pc EXCEPT ![t] = "shaping"]
    BY <1>5 DEF Answered, Go
  <2> QED BY <1>0, <2>1, <2>2, <2>3, <2>4
<1>6. CASE Shrink(t)
  <2>1. answer[t] # None /\ answer[t] \in Answers /\ pc[t] = "shaping"
    BY <1>0, <1>6 DEF Shrink
  <2>2. payload[t] \in Answers /\ Derived(answer[t], payload[t])
    BY <1>0, <2>1
  <2>3. Shrunk(answer[t]) \in Answers /\ Derived(Shrunk(answer[t]), payload[t])
    BY <1>6, <2>1, <2>2, ShrunkDerived DEF Shrink
  <2>4. answer' = [answer EXCEPT ![t] = Shrunk(answer[t])] /\ UNCHANGED <<payload, pc>>
    BY <1>6 DEF Shrink
  <2>5. Shrunk(answer[t]) # None
    BY <2>3
  <2> QED BY <1>0, <2>1, <2>2, <2>3, <2>4, <2>5
<1>7. CASE Deliver(t)
  <2>1. answer[t] # None /\ answer[t] \in Answers /\ ~TooBig(answer[t])
    BY <1>0, <1>7 DEF Deliver
  <2>2. Size(answer[t]) <= MaxBytes
    <3>1. /\ answer[t].len * answer[t].width \in Nat
          /\ answer[t].sources * SourceBytes \in Nat
      BY <2>1 DEF Answers
    <3>2. Size(answer[t]) \in Nat
      BY <2>1, <3>1 DEF Size, Answers
    <3> QED BY <2>1, <3>2 DEF TooBig
  <2>3. pc' = [pc EXCEPT ![t] = "idle"] /\ UNCHANGED <<payload, answer>>
    BY <1>7 DEF Deliver, Go, asked
  <2> QED BY <1>0, <2>1, <2>2, <2>3
<1> QED BY <1>1, <1>2, <1>3, <1>4, <1>5, <1>6, <1>7 DEF TaskMoves

LEMMA NextInv == IndInv /\ [Next]_vars => IndInv'
<1> SUFFICES ASSUME IndInv, [Next]_vars PROVE IndInv'
  OBVIOUS
<1>1. CASE Next
  <2>1. PICK t \in Tasks : TaskMoves(t)
    BY <1>1 DEF Next, TaskMoves
  <2> QED BY <2>1, TypeStep, LinkStep, AnswerStep DEF IndInv
<1>2. CASE UNCHANGED vars
  BY <1>2 DEF IndInv, TypeOK, LinkInv, Holding, Request, AnswerInv, vars, link, asked
<1> QED BY <1>1, <1>2

\* The inductive invariant holds in every reachable state.
THEOREM InductiveInvariant == Spec => []IndInv
<1>1. Init => IndInv
  BY InitInv
<1>2. IndInv /\ [Next]_vars => IndInv'
  BY NextInv
<1> QED BY <1>1, <1>2, PTL DEF Spec

\* The variables keep their types in every reachable state.
THEOREM TypeCorrect == Spec => []TypeOK
BY InductiveInvariant, PTL DEF IndInv

\* Requests only meet a client that is in; a tool call reaches the hub once
\* at most and a list max_attempts times, for every number of tasks.
THEOREM RequestsMeetTheClient == Spec => []RequestsAreSafe
<1>1. IndInv => RequestsAreSafe
  <2> SUFFICES ASSUME IndInv, NEW t \in Tasks
               PROVE  /\ pc[t] \in {"acting", "sleeping"} /\ Request(t) => client = "in"
                      /\ sent[t] <= IF op[t] = "list" THEN MaxAttempts ELSE 1
    BY DEF RequestsAreSafe
  <2>1. sent[t] \in Nat /\ attempt[t] \in 0 .. MaxAttempts
    BY DEF IndInv, TypeOK
  <2>2. sent[t] <= attempt[t] /\ (op[t] # "list" => attempt[t] <= 1)
    BY DEF IndInv, LinkInv
  <2> QED BY <2>1, <2>2 DEF IndInv, LinkInv, Holding
<1> QED BY <1>1, InductiveInvariant, PTL

\* Every finished answer fits, is marked when something is missing, and has
\* kept its sources where that was possible, for every answer and budget.
THEOREM AnswersKeepTheirPromise == Spec => []AnswersAreHonest
<1>1. IndInv => AnswersAreHonest
  BY DEF IndInv, AnswerInv, Derived, AnswersAreHonest
<1> QED BY <1>1, InductiveInvariant, PTL

-----------------------------------------------------------------------------
(* The services of Saleor.  What a caller is about to write or has found   *)
(* depends on what was read or sent before, never on what Saleor is now.   *)

Places == {"idle", "authorizing", "asserting", "reading", "deciding", "writing", "paging"}
Ending == [what : {"disable_promotion"}, promotion : Promotions, dates : Schedules]
Values == Users \cup Schedules \cup Orders \cup Variants
SaleorAnswers == {NoAnswer, Denied, Failed} \cup {Ok(v) : v \in Values}

Searches == [matches : SUBSET Fitting, cursor : Cursors \cup {Nothing},
             seen : SUBSET Cursors, more : BOOLEAN]

SaleorTypes ==
  /\ clock \in 1 .. MaxClock
  /\ owner \in [Orders -> Users] /\ schedule \in [Promotions -> Schedules]
  /\ at \in [Callers -> Places]
  /\ call \in [Callers -> Requests \cup Ending \cup {Nothing}]
  /\ read \in [Callers -> Users \cup Schedules \cup {Nothing}]
  /\ search \in [Callers -> Searches]
  /\ delivered \in [Callers -> SUBSET Variants]
  /\ told \in [Callers -> SaleorAnswers]

\* What a caller's place says of its call.
UnderWay(c) ==
  /\ at[c] # "idle" => told[c] = NoAnswer
  /\ at[c] = "idle" /\ told[c] = NoAnswer => call[c] = Nothing
  /\ at[c] \in {"authorizing", "asserting"} => call[c].what = "get_my_order"
  /\ at[c] = "reading" => call[c].what \in {"get_my_order", "disable_promotion"}
  /\ at[c] = "deciding" =>
       /\ call[c].what = "disable_promotion" /\ call[c].promotion \in Promotions
       /\ read[c] \in Schedules
  /\ at[c] = "writing" => call[c].what \in {"update_promotion", "disable_promotion"}
  /\ at[c] = "paging" => call[c].what = "resolve_variant"

\* What is about to be written is a schedule, and if it shall end a promotion it
\* is one that has ended.
ToBeWritten(c) ==
  at[c] = "writing" =>
    /\ call[c].dates \in Schedules /\ call[c].promotion \in Promotions
    /\ call[c].what = "disable_promotion" =>
         call[c].dates.end # Nothing /\ call[c].dates.end <= clock

\* The matches are all that fits of what was delivered.
Searched(c) == search[c].matches = delivered[c] \cap Fitting

Selected(c) ==
  Asks(c, "resolve_variant") /\ told[c].kind = "ok" =>
    delivered[c] \cap Fitting = {told[c].value} /\ ~search[c].more

CallerInv(c) == UnderWay(c) /\ ToBeWritten(c) /\ Searched(c) /\ Selected(c)

SaleorInv == SaleorTypes /\ \A c \in Callers : CallerInv(c)

-----------------------------------------------------------------------------
\* A caller nothing happens to.
LEMMA Untouched ==
  ASSUME NEW c, CallerInv(c), SaleorTypes, SaleorTypes', clock' >= clock,
         at'[c] = at[c], call'[c] = call[c], read'[c] = read[c], search'[c] = search[c],
         delivered'[c] = delivered[c], told'[c] = told[c]
  PROVE  CallerInv(c)'
<1>1. UnderWay(c)' /\ Searched(c)' /\ Selected(c)'
  BY DEF CallerInv, UnderWay, Searched, Selected, Asks
<1>2. ToBeWritten(c)'
  <2> SUFFICES ASSUME at[c] = "writing", call[c].what = "disable_promotion"
               PROVE  call[c].dates.end <= clock'
    BY DEF CallerInv, ToBeWritten
  <2>1. call[c].dates.end # Nothing /\ call[c].dates.end <= clock /\ call[c].dates \in Schedules
    BY DEF CallerInv, ToBeWritten
  <2>2. call[c].dates.end \in Int
    BY <2>1 DEF Schedules
  <2> QED BY <2>1, <2>2 DEF SaleorTypes
<1> QED BY <1>1, <1>2 DEF CallerInv

\* A step of c, which leaves the others and the clock alone.
LEMMA StepOf ==
  ASSUME SaleorInv, SaleorTypes', NEW c \in Callers, clock' = clock, CallerInv(c)',
         \A d \in Callers : d # c =>
           /\ at'[d] = at[d] /\ call'[d] = call[d] /\ read'[d] = read[d] /\ search'[d] = search[d]
           /\ delivered'[d] = delivered[d] /\ told'[d] = told[d]
  PROVE  SaleorInv'
<1> SUFFICES ASSUME NEW d \in Callers, d # c PROVE CallerInv(d)'
  BY DEF SaleorInv
<1>1. clock' >= clock /\ CallerInv(d) /\ SaleorTypes
  BY DEF SaleorInv, SaleorTypes
<1> QED BY <1>1, Untouched

LEMMA AnswersDiffer ==
  /\ NoAnswer.kind = "none" /\ Denied.kind = "denied" /\ Failed.kind = "error"
  /\ \A v : Ok(v).kind = "ok" /\ Ok(v).value = v
  /\ {NoAnswer, Denied, Failed} \subseteq SaleorAnswers /\ \A v \in Values : Ok(v) \in SaleorAnswers
  /\ NoAnswer # Denied /\ NoAnswer # Failed /\ \A v : NoAnswer # Ok(v)
<1>1. /\ NoAnswer.kind = "none" /\ Denied.kind = "denied" /\ Failed.kind = "error"
      /\ \A v : Ok(v).kind = "ok" /\ Ok(v).value = v
  BY DEF NoAnswer, Denied, Failed, Ok
<1>2. {NoAnswer, Denied, Failed} \subseteq SaleorAnswers /\ \A v \in Values : Ok(v) \in SaleorAnswers
  BY DEF SaleorAnswers
<1>3. NoAnswer # Denied /\ NoAnswer # Failed
  BY <1>1
<1>4. \A v : NoAnswer # Ok(v)
  <2> SUFFICES ASSUME NEW v PROVE NoAnswer # Ok(v)
    OBVIOUS
  <2>1. NoAnswer.kind # Ok(v).kind
    BY <1>1
  <2> QED BY <2>1
<1> QED BY <1>1, <1>2, <1>3, <1>4

\* What a step of c that only moves and answers it keeps.
LEMMA MovesOnly ==
  ASSUME SaleorInv, NEW c \in Callers, UNCHANGED <<clock, owner, search, delivered>>,
         schedule' \in [Promotions -> Schedules],
         NEW to \in Places, at' = [at EXCEPT ![c] = to],
         NEW a \in SaleorAnswers, told' = [told EXCEPT ![c] = a],
         NEW r \in Requests \cup Ending \cup {Nothing}, call' = [call EXCEPT ![c] = r],
         NEW x \in Users \cup Schedules \cup {Nothing}, read' = [read EXCEPT ![c] = x],
         UnderWay(c)', ToBeWritten(c)', Selected(c)'
  PROVE  SaleorInv'
<1>1. SaleorTypes'
  BY DEF SaleorInv, SaleorTypes
<1>2. CallerInv(c)'
  BY DEF SaleorInv, CallerInv, Searched
<1>3. \A d \in Callers : d # c =>
           /\ at'[d] = at[d] /\ call'[d] = call[d] /\ read'[d] = read[d] /\ search'[d] = search[d]
           /\ delivered'[d] = delivered[d] /\ told'[d] = told[d]
  BY DEF SaleorInv, SaleorTypes
<1> QED BY <1>1, <1>2, <1>3, StepOf

LEMMA CallStep ==
  ASSUME SaleorInv, NEW c \in Callers, NEW r \in Requests, Call(c, r)
  PROVE  SaleorInv'
<1> USE AnswersDiffer
<1>1. /\ at[c] = "idle" /\ told[c] = NoAnswer /\ call' = [call EXCEPT ![c] = r]
      /\ UNCHANGED <<clock, owner, schedule, read, search, delivered>>
      /\ \/ FirstStep(r) = "denied" /\ told' = [told EXCEPT ![c] = Denied] /\ UNCHANGED at
         \/ FirstStep(r) # "denied" /\ at' = [at EXCEPT ![c] = FirstStep(r)] /\ UNCHANGED told
  BY DEF Call, saleor
<1>2. /\ at \in [Callers -> Places] /\ told \in [Callers -> SaleorAnswers]
      /\ read[c] \in Users \cup Schedules \cup {Nothing}
      /\ read \in [Callers -> Users \cup Schedules \cup {Nothing}]
      /\ call \in [Callers -> Requests \cup Ending \cup {Nothing}]
      /\ schedule' \in [Promotions -> Schedules]
  BY <1>1 DEF SaleorInv, SaleorTypes
<1>3. /\ FirstStep(r) \in {"denied", "authorizing"} => r.what = "get_my_order"
      /\ FirstStep(r) = "reading" => r.what = "disable_promotion"
      /\ FirstStep(r) = "writing" => /\ r.what = "update_promotion" /\ r.dates \in Schedules
                                     /\ r.promotion \in Promotions
      /\ FirstStep(r) = "paging" => r.what = "resolve_variant"
      /\ FirstStep(r) \in {"denied", "authorizing", "reading", "writing", "paging"}
  BY DEF FirstStep, Requests
<1>4. read' = [read EXCEPT ![c] = read[c]] /\ call'[c] = r
  BY <1>1, <1>2
<1>5. CASE FirstStep(r) = "denied"
  <2>1. told' = [told EXCEPT ![c] = Denied] /\ at' = [at EXCEPT ![c] = "idle"]
    BY <1>1, <1>2, <1>5
  <2>2. told'[c] = Denied /\ at'[c] = "idle"
    BY <1>2, <2>1
  <2>3. UnderWay(c)' /\ ToBeWritten(c)' /\ Selected(c)'
    BY <2>2 DEF UnderWay, ToBeWritten, Selected
  <2> QED BY <1>1, <1>2, <1>4, <2>1, <2>3, MovesOnly DEF Places
<1>6. CASE FirstStep(r) # "denied"
  <2>1. told' = [told EXCEPT ![c] = NoAnswer] /\ at' = [at EXCEPT ![c] = FirstStep(r)]
    BY <1>1, <1>2, <1>6
  <2>2. told'[c] = NoAnswer /\ at'[c] = FirstStep(r)
    BY <1>2, <2>1
  <2>3. UnderWay(c)' /\ ToBeWritten(c)' /\ Selected(c)'
    BY <1>3, <1>4, <1>6, <2>2 DEF UnderWay, ToBeWritten, Selected
  <2>4. FirstStep(r) \in Places
    BY <1>3, <1>6 DEF Places
  <2> QED BY <1>1, <1>2, <1>4, <2>1, <2>3, <2>4, MovesOnly
<1> QED BY <1>5, <1>6

\* The call returns, with nothing selected, or goes on.
LEMMA ReturnStep ==
  ASSUME SaleorInv, NEW c \in Callers, NEW a \in SaleorAnswers, Return(c, a), a # NoAnswer,
         UNCHANGED <<clock, owner, call, search, delivered>>,
         schedule' \in [Promotions -> Schedules],
         NEW x \in Users \cup Schedules \cup {Nothing}, read' = [read EXCEPT ![c] = x],
         a.kind = "ok" => call[c].what # "resolve_variant"
  PROVE  SaleorInv'
<1>1. /\ at \in [Callers -> Places] /\ told \in [Callers -> SaleorAnswers]
      /\ call \in [Callers -> Requests \cup Ending \cup {Nothing}]
  BY DEF SaleorInv, SaleorTypes
<1>2. at' = [at EXCEPT ![c] = "idle"] /\ told' = [told EXCEPT ![c] = a]
  BY DEF Return
<1>3. at'[c] = "idle" /\ told'[c] = a
  BY <1>1, <1>2
<1>4. UnderWay(c)' /\ ToBeWritten(c)' /\ Selected(c)'
  BY <1>3 DEF UnderWay, ToBeWritten, Selected, Asks
<1>5. call' = [call EXCEPT ![c] = call[c]] /\ call[c] \in Requests \cup Ending \cup {Nothing}
  BY <1>1
<1>6. "idle" \in Places
  BY DEF Places
<1> QED BY <1>2, <1>4, <1>5, <1>6, MovesOnly

LEMMA GoOnStep ==
  ASSUME SaleorInv, NEW c \in Callers, NEW to \in Places, GoOn(c, to), to # "idle", at[c] # "idle",
         UNCHANGED <<clock, owner, schedule, search, delivered>>,
         NEW r \in Requests \cup Ending \cup {Nothing}, call' = [call EXCEPT ![c] = r],
         NEW x \in Users \cup Schedules \cup {Nothing}, read' = [read EXCEPT ![c] = x],
         UnderWay(c)', ToBeWritten(c)'
  PROVE  SaleorInv'
<1>1. /\ at \in [Callers -> Places] /\ told \in [Callers -> SaleorAnswers]
      /\ schedule \in [Promotions -> Schedules]
  BY DEF SaleorInv, SaleorTypes
<1>2. at' = [at EXCEPT ![c] = to] /\ told' = told /\ told[c] = NoAnswer
  BY DEF GoOn, SaleorInv, CallerInv, UnderWay
<1>3. told' = [told EXCEPT ![c] = NoAnswer] /\ told'[c] = NoAnswer
  BY <1>1, <1>2
<1>4. Selected(c)' /\ UnderWay(c)'
  BY <1>3, AnswersDiffer DEF Selected
<1> QED BY <1>1, <1>2, <1>3, <1>4, AnswersDiffer, MovesOnly

LEMMA RequestFailsStep ==
  ASSUME SaleorInv, NEW c \in Callers, RequestFails(c)
  PROVE  SaleorInv'
<1>1. /\ Return(c, Failed) /\ UNCHANGED <<clock, owner, schedule, call, read, search, delivered>>
  BY DEF RequestFails, saleor
<1>2. read[c] \in Users \cup Schedules \cup {Nothing} /\ read' = [read EXCEPT ![c] = read[c]]
      /\ schedule \in [Promotions -> Schedules]
  BY <1>1 DEF SaleorInv, SaleorTypes
<1> QED BY <1>1, <1>2, ReturnStep, AnswersDiffer

LEMMA AssertOwnershipStep ==
  ASSUME SaleorInv, NEW c \in Callers, RequireToolAccess(c) \/ GetCustomerOrder(c)
  PROVE  SaleorInv'
<1>1. PICK to \in {"asserting", "reading"} :
        /\ Asks(c, "get_my_order") /\ at[c] # "idle"
        /\ GoOn(c, to) \/ Return(c, Denied)
        /\ UNCHANGED <<clock, owner, schedule, call, read, search, delivered>>
  BY DEF RequireToolAccess, GetCustomerOrder, AssertOwnership, saleor
<1>2. /\ read[c] \in Users \cup Schedules \cup {Nothing} /\ read' = [read EXCEPT ![c] = read[c]]
      /\ call[c] \in Requests \cup Ending \cup {Nothing} /\ call' = [call EXCEPT ![c] = call[c]]
      /\ schedule \in [Promotions -> Schedules] /\ at \in [Callers -> Places]
  BY <1>1 DEF SaleorInv, SaleorTypes
<1>3. CASE GoOn(c, to)
  <2>1. at'[c] = to /\ call'[c] = call[c]
    BY <1>1, <1>2, <1>3 DEF GoOn
  <2>2. told'[c] = NoAnswer
    BY <1>1, <1>3 DEF GoOn, SaleorInv, CallerInv, UnderWay
  <2>3. UnderWay(c)' /\ ToBeWritten(c)'
    BY <1>1, <2>1, <2>2 DEF UnderWay, ToBeWritten, Asks
  <2>4. to \in Places
    BY DEF Places
  <2> QED BY <1>1, <1>2, <1>3, <2>3, <2>4, GoOnStep
<1>4. CASE Return(c, Denied)
  BY <1>1, <1>2, <1>4, ReturnStep, AnswersDiffer
<1> QED BY <1>1, <1>3, <1>4

LEMMA ReadOrderStep ==
  ASSUME SaleorInv, NEW c \in Callers, ReadOrder(c)
  PROVE  SaleorInv'
<1> DEFINE user == owner[call[c].order]
           a == IF BelongsTo(c, user) THEN Ok(call[c].order) ELSE Denied
<1>1. /\ Asks(c, "get_my_order") /\ read' = [read EXCEPT ![c] = user] /\ Return(c, a)
      /\ UNCHANGED <<clock, owner, schedule, call, search, delivered>>
  BY DEF ReadOrder, saleor
<1>2. call[c].order \in Orders
  BY <1>1 DEF Asks, SaleorInv, SaleorTypes, Requests, Ending
<1>3. user \in Users /\ schedule \in [Promotions -> Schedules]
  BY <1>2 DEF SaleorInv, SaleorTypes
<1>4. a \in SaleorAnswers /\ a # NoAnswer
  BY <1>2, AnswersDiffer DEF Values
<1>5. call[c].what # "resolve_variant"
  BY <1>1 DEF Asks
<1> HIDE DEF user, a
<1> QED BY <1>1, <1>3, <1>4, <1>5, ReturnStep

LEMMA ReadPromotionStep ==
  ASSUME SaleorInv, NEW c \in Callers, ReadPromotion(c)
  PROVE  SaleorInv'
<1> DEFINE s == schedule[call[c].promotion]
<1>1. /\ Asks(c, "disable_promotion") /\ at[c] = "reading"
      /\ read' = [read EXCEPT ![c] = s] /\ GoOn(c, "deciding")
      /\ UNCHANGED <<clock, owner, schedule, call, search, delivered>>
  BY DEF ReadPromotion, saleor
<1>2. call[c].promotion \in Promotions
  BY <1>1 DEF Asks, SaleorInv, SaleorTypes, Requests, Ending
<1>3. s \in Schedules /\ at \in [Callers -> Places]
  BY <1>2 DEF SaleorInv, SaleorTypes
<1>4. /\ call[c] \in Requests \cup Ending \cup {Nothing} /\ call' = [call EXCEPT ![c] = call[c]]
      /\ at'[c] = "deciding" /\ told'[c] = NoAnswer /\ read'[c] = s /\ call'[c] = call[c]
  BY <1>1 DEF GoOn, SaleorInv, SaleorTypes, CallerInv, UnderWay
<1>5. UnderWay(c)' /\ ToBeWritten(c)'
  BY <1>1, <1>2, <1>3, <1>4 DEF UnderWay, ToBeWritten, Asks
<1> HIDE DEF s
<1> QED BY <1>1, <1>3, <1>4, <1>5, GoOnStep DEF Places

\* What disable_promotion sends ends after it starts, and has ended.
LEMMA DisabledEnds ==
  ASSUME SaleorTypes, NEW s \in Schedules
  PROVE  /\ Disabled(s) \in Schedules /\ Disabled(s).end # Nothing /\ Disabled(s).end = clock
         /\ Valid(Disabled(s))
<1>1. clock \in 1 .. MaxClock /\ MaxClock \in Nat /\ clock # Nothing
  BY SaleorAssumption DEF SaleorTypes
<1>2. s.start \in 0 .. MaxClock + 1
  BY DEF Schedules
<1>3. Earlier(s.start, clock - 1) \in 0 .. MaxClock + 1 /\ Earlier(s.start, clock - 1) < clock
  BY <1>1, <1>2 DEF Earlier
<1>4. clock \in 1 .. MaxClock + 2
  BY <1>1
<1> QED BY <1>1, <1>3, <1>4 DEF Disabled, Schedules, Valid

LEMMA DecideStep ==
  ASSUME SaleorInv, NEW c \in Callers, Decide(c)
  PROVE  SaleorInv'
<1>1. at[c] = "deciding" /\ UNCHANGED <<clock, owner, schedule, read, search, delivered>>
  BY DEF Decide, saleor
<1>2. /\ call[c].what = "disable_promotion" /\ call[c].promotion \in Promotions
      /\ read[c] \in Schedules /\ told[c] = NoAnswer
  BY <1>1 DEF SaleorInv, CallerInv, UnderWay
<1>3. read' = [read EXCEPT ![c] = read[c]] /\ at \in [Callers -> Places]
      /\ schedule \in [Promotions -> Schedules] /\ SaleorTypes
      /\ call \in [Callers -> Requests \cup Ending \cup {Nothing}]
  BY <1>1 DEF SaleorInv, SaleorTypes
<1>4. CASE Return(c, Ok(read[c])) /\ UNCHANGED call
  <2>1. Ok(read[c]) \in SaleorAnswers /\ Ok(read[c]) # NoAnswer
    BY <1>2, AnswersDiffer DEF Values
  <2> QED BY <1>1, <1>2, <1>3, <1>4, <2>1, ReturnStep
<1> DEFINE r == [what |-> "disable_promotion", promotion |-> call[c].promotion,
                 dates |-> Disabled(read[c])]
<1>5. CASE call' = [call EXCEPT ![c] = r] /\ GoOn(c, "writing")
  <2>1. /\ Disabled(read[c]) \in Schedules /\ Disabled(read[c]).end # Nothing
        /\ Disabled(read[c]).end <= clock
    <3>1. clock <= clock
      BY <1>3 DEF SaleorTypes
    <3> QED BY <1>2, <1>3, <3>1, DisabledEnds
  <2>2. r \in Ending /\ call'[c] = r
    BY <1>2, <1>3, <1>5, <2>1 DEF Ending
  <2>3. at'[c] = "writing" /\ told'[c] = NoAnswer
    BY <1>2, <1>3, <1>5 DEF GoOn
  <2>4. UnderWay(c)' /\ ToBeWritten(c)'
    BY <1>1, <1>2, <2>1, <2>2, <2>3 DEF UnderWay, ToBeWritten
  <2>5. "writing" \in Places
    BY DEF Places
  <2> HIDE DEF r
  <2> QED BY <1>1, <1>2, <1>3, <1>5, <2>2, <2>4, <2>5, GoOnStep
<1> QED BY <1>4, <1>5 DEF Decide

LEMMA WritePromotionStep ==
  ASSUME SaleorInv, NEW c \in Callers, WritePromotion(c)
  PROVE  SaleorInv'
<1>1. at[c] = "writing" /\ UNCHANGED <<clock, owner, call, read, search, delivered>>
  BY DEF WritePromotion
<1>2. call[c].dates \in Schedules /\ call[c].promotion \in Promotions
  BY <1>1 DEF SaleorInv, CallerInv, ToBeWritten
<1>3. Valid(call[c].dates)
  BY <1>2 DEF Valid, Schedules
<1>4. PICK a \in {Ok(call[c].dates), Failed} :
        Return(c, a) /\ schedule' = [schedule EXCEPT ![call[c].promotion] = call[c].dates]
  BY <1>3 DEF WritePromotion
<1>5. a \in SaleorAnswers /\ a # NoAnswer
  BY <1>2, AnswersDiffer DEF Values
<1>6. schedule' \in [Promotions -> Schedules]
  BY <1>2, <1>4 DEF SaleorInv, SaleorTypes
<1>7. call[c].what # "resolve_variant"
  BY <1>1 DEF SaleorInv, CallerInv, UnderWay
<1>8. read[c] \in Users \cup Schedules \cup {Nothing} /\ read' = [read EXCEPT ![c] = read[c]]
  BY <1>1 DEF SaleorInv, SaleorTypes
<1> QED BY <1>1, <1>4, <1>5, <1>6, <1>7, <1>8, ReturnStep

\* A set of at most one variant that is not empty has the one.
LEMMA OnlyOne ==
  ASSUME NEW S \in SUBSET Variants, ~(Cardinality(S) > 1), S # {}
  PROVE  S = {CHOOSE v \in S : TRUE}
<1>1. IsFiniteSet(Variants)
  BY SaleorAssumption
<1>2. IsFiniteSet(S)
  BY <1>1, FS_Subset
<1> DEFINE v == CHOOSE x \in S : TRUE
<1>3. v \in S
  OBVIOUS
<1> HIDE DEF v
<1>4. ASSUME NEW w \in S, w # v
      PROVE  FALSE
  <2>1. {v, w} \subseteq S
    BY <1>3
  <2>2. Cardinality({v, w}) <= Cardinality(S)
    BY <1>2, <2>1, FS_Subset
  <2>3. IsFiniteSet({v}) /\ Cardinality({v}) = 1
    BY FS_Singleton
  <2>4. Cardinality({v} \cup {w}) = Cardinality({v}) + 1
    BY <1>4, <2>3, FS_AddElement
  <2>5. {v} \cup {w} = {v, w}
    OBVIOUS
  <2>6. Cardinality(S) \in Nat
    BY <1>2, FS_CardinalityType
  <2> QED BY <2>2, <2>3, <2>4, <2>5, <2>6
<1>5. S = {v}
  BY <1>3, <1>4
<1> QED BY <1>5 DEF v

\* A search that succeeds has had one match and no further page.
LEMMA Verdicts ==
  ASSUME NEW c, NEW page, NEW matches
  PROVE  \/ Verdict(c, page, matches) \in {Failed, NoAnswer}
         \/ /\ Verdict(c, page, matches) = Ok(CHOOSE v \in matches : TRUE)
            /\ ~(Cardinality(matches) > 1) /\ matches # {} /\ ~page.next
BY DEF Verdict, Match

LEMMA PageStep ==
  ASSUME SaleorInv, NEW c \in Callers, Page(c)
  PROVE  SaleorInv'
<1>1. at[c] = "paging" /\ UNCHANGED <<clock, owner, schedule, call, read>>
  BY DEF Page, saleor
<1> DEFINE M(page) == search[c].matches \cup (page.items \cap Fitting)
<1>2. PICK page \in Pages :
        /\ search' = [search EXCEPT ![c] =
                        [matches |-> M(page), more |-> page.next, cursor |-> page.cursor,
                         seen |-> search[c].seen \cup ({page.cursor} \ {Nothing})]]
        /\ delivered' = [delivered EXCEPT ![c] = delivered[c] \cup page.items]
        /\ IF Verdict(c, page, M(page)) = NoAnswer THEN GoOn(c, "paging")
           ELSE Return(c, Verdict(c, page, M(page)))
  BY DEF Page
<1> DEFINE matches == M(page)
           verdict == Verdict(c, page, matches)
<1>3. /\ page.items \subseteq Variants /\ page.cursor \in Cursors \cup {Nothing} /\ page.next \in BOOLEAN
  BY DEF Pages
<1>4. /\ search[c] \in Searches
      /\ delivered[c] \subseteq Variants /\ Fitting \subseteq Variants
      /\ at \in [Callers -> Places] /\ told \in [Callers -> SaleorAnswers]
      /\ search[c].matches = delivered[c] \cap Fitting /\ told[c] = NoAnswer
      /\ search \in [Callers -> Searches]
      /\ delivered \in [Callers -> SUBSET Variants]
      /\ call[c].what = "resolve_variant"
  BY <1>1, SaleorAssumption DEF SaleorInv, SaleorTypes, CallerInv, Searched, UnderWay
<1>5. matches = (delivered[c] \cup page.items) \cap Fitting /\ matches \subseteq Fitting
      /\ matches \subseteq Variants
  BY <1>4
<1>6. \/ verdict \in {Failed, NoAnswer}
      \/ /\ verdict = Ok(CHOOSE v \in matches : TRUE)
         /\ ~(Cardinality(matches) > 1) /\ matches # {} /\ ~page.next
  BY Verdicts
<1>7. /\ search'[c].matches = matches /\ search'[c].more = page.next
      /\ delivered'[c] = delivered[c] \cup page.items
      /\ search' \in [Callers -> Searches]
      /\ delivered' \in [Callers -> SUBSET Variants]
      /\ \A d \in Callers : d # c => search'[d] = search[d] /\ delivered'[d] = delivered[d]
  BY <1>2, <1>3, <1>4, <1>5 DEF Searches
<1>8. verdict \in SaleorAnswers
  <2>1. (CHOOSE v \in matches : TRUE) \in Variants \/ matches = {}
    BY <1>5
  <2> QED BY <1>6, <2>1, AnswersDiffer DEF Values
<1>9. verdict.kind = "ok" => matches = {verdict.value} /\ ~page.next
  <2>1. SUFFICES ASSUME verdict.kind = "ok" PROVE matches = {verdict.value} /\ ~page.next
    OBVIOUS
  <2> HIDE DEF M, matches, verdict
  <2>2. /\ verdict = Ok(CHOOSE v \in matches : TRUE)
        /\ ~(Cardinality(matches) > 1) /\ matches # {} /\ ~page.next
    BY <1>6, <2>1, AnswersDiffer
  <2>3. matches = {CHOOSE v \in matches : TRUE}
    BY <1>5, <2>2, OnlyOne
  <2> QED BY <2>2, <2>3, AnswersDiffer
<1>10. /\ at' = [at EXCEPT ![c] = IF verdict = NoAnswer THEN "paging" ELSE "idle"]
       /\ told' = [told EXCEPT ![c] = verdict]
  BY <1>2, <1>4 DEF GoOn, Return
<1> HIDE DEF M, matches, verdict
<1>11. /\ at'[c] = IF verdict = NoAnswer THEN "paging" ELSE "idle"
       /\ told'[c] = verdict /\ at' \in [Callers -> Places] /\ told' \in [Callers -> SaleorAnswers]
       /\ \A d \in Callers : d # c => at'[d] = at[d] /\ told'[d] = told[d]
  BY <1>4, <1>8, <1>10 DEF Places
<1>12. SaleorTypes'
  BY <1>1, <1>7, <1>11 DEF SaleorInv, SaleorTypes
<1>13. CallerInv(c)'
  <2>1. UnderWay(c)'
    BY <1>1, <1>4, <1>11 DEF UnderWay
  <2>2. ToBeWritten(c)' /\ Searched(c)'
    BY <1>5, <1>7, <1>11 DEF ToBeWritten, Searched
  <2>3. Selected(c)'
    BY <1>5, <1>7, <1>9, <1>11 DEF Selected
  <2> QED BY <2>1, <2>2, <2>3 DEF CallerInv
<1> QED BY <1>1, <1>7, <1>11, <1>12, <1>13, StepOf

LEMMA ForgetStep ==
  ASSUME SaleorInv, NEW c \in Callers, Forget(c)
  PROVE  SaleorInv'
<1>1. /\ at[c] = "idle" /\ call' = [call EXCEPT ![c] = Nothing]
      /\ told' = [told EXCEPT ![c] = NoAnswer]
      /\ read' = [read EXCEPT ![c] = Nothing] /\ search' = [search EXCEPT ![c] = NoSearch]
      /\ delivered' = [delivered EXCEPT ![c] = {}]
      /\ UNCHANGED <<clock, owner, schedule, at>>
  BY DEF Forget, saleor
<1>2. NoSearch \in Searches
      /\ NoSearch.matches = {}
  BY DEF NoSearch, Searches
<1>3. SaleorTypes'
  BY <1>1, <1>2, AnswersDiffer DEF SaleorInv, SaleorTypes
<1>4. /\ call'[c] = Nothing /\ told'[c] = NoAnswer /\ at'[c] = "idle"
      /\ search'[c] = NoSearch /\ delivered'[c] = {}
  BY <1>1 DEF SaleorInv, SaleorTypes
<1>5. CallerInv(c)'
  BY <1>2, <1>4 DEF CallerInv, UnderWay, ToBeWritten, Searched, Selected, Asks
<1>6. \A d \in Callers : d # c =>
           /\ at'[d] = at[d] /\ call'[d] = call[d] /\ read'[d] = read[d] /\ search'[d] = search[d]
           /\ delivered'[d] = delivered[d] /\ told'[d] = told[d]
  BY <1>1 DEF SaleorInv, SaleorTypes
<1> QED BY <1>1, <1>3, <1>5, <1>6, StepOf

LEMMA SaleorStep ==
  ASSUME SaleorInv,
         \/ \E o \in Orders, u \in Users : Reassign(o, u)
         \/ \E p \in Promotions, s \in Schedules : Reschedule(p, s)
         \/ Tick
         \/ UNCHANGED saleorVars
  PROVE  SaleorInv'
<1>1. UNCHANGED <<at, call, read, search, delivered, told>>
  BY DEF Reassign, Reschedule, Tick, saleorVars, calls
<1>2. owner' \in [Orders -> Users] /\ schedule' \in [Promotions -> Schedules]
  BY DEF SaleorInv, SaleorTypes, Reassign, Reschedule, Tick, saleorVars, saleor
<1>3. clock' \in 1 .. MaxClock /\ clock' >= clock
  BY SaleorAssumption DEF SaleorInv, SaleorTypes, Reassign, Reschedule, Tick, saleorVars, saleor
<1>4. SaleorTypes'
  BY <1>1, <1>2, <1>3 DEF SaleorInv, SaleorTypes
<1>5. \A c \in Callers : CallerInv(c)'
  BY <1>1, <1>3, <1>4, Untouched DEF SaleorInv
<1> QED BY <1>4, <1>5 DEF SaleorInv

LEMMA SaleorInvInit == SaleorInit => SaleorInv
<1> SUFFICES ASSUME SaleorInit PROVE SaleorInv
  OBVIOUS
<1>1. NoSearch \in Searches
      /\ NoSearch.matches = {}
  BY DEF NoSearch, Searches
<1>2. clock \in 1 .. MaxClock
  BY SaleorAssumption DEF SaleorInit
<1>3. SaleorTypes
  BY <1>1, <1>2, AnswersDiffer DEF SaleorInit, SaleorTypes, Places
<1>4. \A c \in Callers : CallerInv(c)
  BY <1>1 DEF SaleorInit, CallerInv, UnderWay, ToBeWritten, Searched, Selected, Asks
<1> QED BY <1>3, <1>4 DEF SaleorInv

LEMMA SaleorInvNext == SaleorInv /\ [SaleorNext]_saleorVars => SaleorInv'
BY RequestFailsStep, AssertOwnershipStep, ReadOrderStep, ReadPromotionStep, DecideStep,
   WritePromotionStep, PageStep, ForgetStep, CallStep, SaleorStep DEF SaleorNext, Step

\* What a caller has read, is about to write and has collected of a search agrees
\* with its place in the service and with what it was sent.
THEOREM SaleorInvariant == SaleorSpec => []SaleorInv
<1>1. SaleorInit => SaleorInv
  BY SaleorInvInit
<1>2. SaleorInv /\ [SaleorNext]_saleorVars => SaleorInv'
  BY SaleorInvNext
<1> QED BY <1>1, <1>2, PTL DEF SaleorSpec

\* resolve_variant returns a variant only if it was sent the last page and no other
\* one fits of all pages, whatever they are and however many (OnlyMatchIsSelected).
THEOREM OnlyMatchIsEverSelected == SaleorSpec => []OnlyMatchIsSelected
<1>1. SaleorInv => OnlyMatchIsSelected
  BY DEF SaleorInv, CallerInv, Selected, OnlyMatchIsSelected
<1> QED BY <1>1, SaleorInvariant, PTL

LEMMA HasEndedStep ==
  ASSUME SaleorInv, [SaleorNext]_saleorVars, NEW c \in Callers
  PROVE  HasEnded(c)
<1> USE AnswersDiffer
<1> SUFFICES ASSUME Asks(c, "disable_promotion"), told[c] = NoAnswer, told'[c] # told[c]
             PROVE  /\ told'[c].kind # "refused"
                    /\ told'[c].kind = "ok" =>
                         \/ Ended(schedule[call[c].promotion])'
                         \/ schedule[call[c].promotion] # read[c]
  BY DEF HasEnded
<1>1. /\ told \in [Callers -> SaleorAnswers] /\ SaleorTypes /\ UnderWay(c) /\ ToBeWritten(c)
      /\ call[c] # Nothing /\ call[c].what = "disable_promotion" /\ at[c] # "idle"
  BY DEF SaleorInv, SaleorTypes, CallerInv, Asks, UnderWay
<1>2. Step(c)
  <2>1. ~UNCHANGED saleorVars
    BY DEF saleorVars, calls
  <2>2. ASSUME NEW d \in Callers, d # c, Step(d) \/ Forget(d) \/ \E r \in Requests : Call(d, r)
        PROVE  FALSE
    BY <1>1, <2>2 DEF Step, Forget, Call, RequestFails, RequireToolAccess, GetCustomerOrder, AssertOwnership,
       ReadOrder, ReadPromotion, Decide, WritePromotion, Page, Return, GoOn
  <2>3. ~Forget(c) /\ \A r \in Requests : ~Call(c, r)
    BY <1>1 DEF Forget, Call
  <2>4. /\ \A o \in Orders, u \in Users : ~Reassign(o, u)
        /\ \A p \in Promotions, s \in Schedules : ~Reschedule(p, s)
        /\ ~Tick
    BY DEF Reassign, Reschedule, Tick, calls
  <2> QED BY <2>1, <2>2, <2>3, <2>4 DEF SaleorNext
<1>3. CASE RequestFails(c)
  BY <1>1, <1>3 DEF RequestFails, Return
<1>4. CASE RequireToolAccess(c) \/ GetCustomerOrder(c) \/ ReadOrder(c)
  BY <1>1, <1>4 DEF RequireToolAccess, GetCustomerOrder, AssertOwnership, ReadOrder, Asks
<1>5. CASE ReadPromotion(c)
  BY <1>1, <1>5 DEF ReadPromotion, GoOn
<1>6. CASE Page(c)
  BY <1>1, <1>6 DEF Page, UnderWay
<1>7. CASE Decide(c)
  <2>1. /\ Ended(read[c]) /\ told'[c] = Ok(read[c]) /\ UNCHANGED <<schedule, clock, call>>
    BY <1>1, <1>7 DEF Decide, GoOn, Return, saleor
  <2>2. schedule[call[c].promotion] = read[c] => Ended(schedule[call[c].promotion])'
    BY <2>1 DEF Ended
  <2> QED BY <2>1, <2>2
<1>8. CASE WritePromotion(c)
  <2>1. /\ call[c].dates \in Schedules /\ call[c].promotion \in Promotions
        /\ call[c].dates.end # Nothing /\ call[c].dates.end <= clock
    BY <1>1, <1>8 DEF WritePromotion, ToBeWritten
  <2>2. Valid(call[c].dates)
    BY <2>1 DEF Valid, Schedules
  <2>3. /\ schedule' = [schedule EXCEPT ![call[c].promotion] = call[c].dates]
        /\ told'[c] \in {Ok(call[c].dates), Failed} /\ UNCHANGED <<clock, call>>
    BY <1>1, <1>8, <2>2 DEF WritePromotion, Return
  <2>4. schedule'[call[c].promotion] = call[c].dates
    BY <1>1, <2>1, <2>3 DEF SaleorTypes
  <2>5. Ended(schedule[call[c].promotion])'
    BY <2>1, <2>3, <2>4 DEF Ended
  <2> QED BY <2>3, <2>5
<1> QED BY <1>2, <1>3, <1>4, <1>5, <1>6, <1>7, <1>8 DEF Step

\* Saleor never refuses the dates disable_promotion computes, however the promotion
\* was scheduled, and a success means that it has ended or was given other dates
\* meanwhile (DisablingEnds).
THEOREM DisablingAlwaysEnds == SaleorSpec => DisablingEnds
<1>1. SaleorInv /\ [SaleorNext]_saleorVars => [\A c \in Callers : HasEnded(c)]_saleorVars
  BY HasEndedStep
<1> QED BY <1>1, SaleorInvariant, PTL DEF SaleorSpec, DisablingEnds

=============================================================================
