--------------------------- MODULE OwnershipProofs ---------------------------
(***************************************************************************)
(* Theorems about Ownership: one customer per user, admission only of the  *)
(* owner and of everyone entitled, and a state that any interruption       *)
(* leaves repairable.                                                      *)
(***************************************************************************)
EXTENDS Ownership, TLAPS

\* A run knows the identity it was started with.
LEMMA IdentityOf ==
  ASSUME TypeOK, RunsOK, NEW t \in Threads, pc[t] # "idle"
  PROVE  who[t] \in Identities /\ who[t].visitor \in Visitors
BY DEF TypeOK, RunsOK, Identities

\* The repository returns a binding for every visitor.
LEMMA StoredType ==
  ASSUME TypeOK, NEW v \in Visitors
  PROVE  Stored(v) \in Bindings
BY DEF TypeOK, Stored, Bindings

\* A run that starts holds no binding yet.
LEMMA StartInv ==
  ASSUME IndInv, NEW t \in Threads, NEW i \in Identities, Start(t, i)
  PROVE  IndInv'
<1>0. TypeOK /\ RowsOK /\ RunsOK /\ ThreadsOK
  BY DEF IndInv
<1>a. /\ pc[t] = "idle" /\ pc' = [pc EXCEPT ![t] = "resolving"] /\ who' = [who EXCEPT ![t] = i]
      /\ UNCHANGED <<user, known, points, owner, customers, session, mine, target, attempt>>
  BY DEF Start, Go, database, remote
<1>b. mine[t] = None /\ target[t] = None
  BY <1>a, <1>0 DEF RunsOK
<1>1. TypeOK' /\ RowsOK' /\ OneCustomerPerUser' /\ AdmittedOwns' /\ Repairable'
  BY <1>a DEF IndInv, TypeOK, RowsOK, OneCustomerPerUser, AdmittedOwns, Repairable
<1>2. RunsOK'
  BY <1>0, <1>a, <1>b, ConstantsAssumption DEF RunsOK, TypeOK, Stored
<1>3. ThreadsOK'
  BY <1>0, <1>a, <1>b, ConstantsAssumption DEF ThreadsOK, TypeOK
<1>4. QED
  BY <1>1, <1>2, <1>3 DEF IndInv

\* The binding a run takes is the stored one, and its thread was checked
\* against it.
LEMMA FindVisitorInv ==
  ASSUME IndInv, NEW t \in Threads, FindVisitor(t)
  PROVE  IndInv'
<1> DEFINE b == Stored(who[t].visitor)
<1>0. TypeOK /\ RowsOK /\ RunsOK /\ ThreadsOK
  BY DEF IndInv
<1>1. /\ pc[t] = "resolving" /\ who[t] \in Identities /\ who[t].visitor \in Visitors
      /\ UNCHANGED <<user, known, points, owner, customers, session, who, target, attempt>>
  BY <1>0, IdentityOf DEF FindVisitor, database, remote, locals
<1>2. CASE pc' = [pc EXCEPT ![t] = "allocate"] /\ MayAllocate(t) /\ UNCHANGED mine
  <2>1. TypeOK' /\ RowsOK' /\ RunsOK' /\ OneCustomerPerUser' /\ AdmittedOwns' /\ Repairable'
    BY <1>1, <1>2
    DEF IndInv, TypeOK, RowsOK, RunsOK, OneCustomerPerUser, AdmittedOwns, Repairable, Stored
  <2>2. ThreadsOK'
    BY <1>0, <1>1, <1>2 DEF ThreadsOK, TypeOK, MayAllocate
  <2>3. QED
    BY <2>1, <2>2 DEF IndInv
<1>3. CASE /\ who[t].visitor \in known /\ Admissible(t, b)
           /\ mine' = [mine EXCEPT ![t] = b] /\ pc' = [pc EXCEPT ![t] = AfterBinding(t)]
  <2>1. b \in Bindings /\ b # None
    BY <1>0, <1>1, StoredType, ConstantsAssumption
  <2>2. /\ AfterBinding(t) \in {"ensure", "bind", "check"}
        /\ AfterBinding(t) = "bind" <=> who[t].status = "authenticated"
        /\ AfterBinding(t) = "check" <=> who[t].status = "unavailable"
    BY <1>1 DEF AfterBinding, Identities, Statuses
  <2>3. TypeOK'
    BY <1>0, <1>1, <1>3, <2>1, <2>2 DEF TypeOK
  <2>4. RowsOK' /\ OneCustomerPerUser' /\ AdmittedOwns' /\ Repairable'
    BY <1>1, <1>3, <2>2 DEF IndInv, TypeOK, RowsOK, OneCustomerPerUser, AdmittedOwns, Repairable
  <2>5. b.user = None => b.customer = who[t].visitor
    BY <1>0, <1>1 DEF RowsOK, Stored
  <2>6. RunsOK'
    BY <1>0, <1>1, <1>3, <2>1, <2>2, <2>5, ConstantsAssumption DEF RunsOK, TypeOK, Stored
  <2>7. who[t].status = "authenticated" /\ owner[t] # None =>
          owner[t] \in {b.customer, who[t].visitor}
    BY <1>3 DEF Admissible, Claimable
  <2>8. ThreadsOK'
    BY <1>0, <1>1, <1>3, <2>1, <2>2, <2>7 DEF ThreadsOK, TypeOK
  <2>9. QED
    BY <2>3, <2>4, <2>6, <2>8 DEF IndInv
<1>4. QED
  BY <1>1, <1>2, <1>3 DEF FindVisitor, Take, Go, locals

\* The allocated row is the visitor's own unless the visitor was bound
\* meanwhile.
LEMMA AllocateInv ==
  ASSUME IndInv, NEW t \in Threads, Allocate(t)
  PROVE  IndInv'
<1>1. TypeOK'
  <2> DEFINE b == Stored(who[t].visitor)
  <2>0. TypeOK /\ RowsOK /\ RunsOK /\ ThreadsOK
    BY DEF IndInv
  <2>1. /\ pc[t] = "allocate" /\ who[t] \in Identities /\ who[t].visitor \in Visitors
        /\ known' = known \cup {who[t].visitor}
        /\ UNCHANGED <<user, points, owner, customers, session>>
    BY <2>0, IdentityOf DEF Allocate, remote
  <2>2. /\ points \in [Visitors -> Visitors] /\ known' \subseteq Visitors
        /\ \A v \in known' : points[v] \in known'
    BY <2>0, <2>1 DEF TypeOK, RowsOK
  <2>3. CASE Leave(t)
    BY <2>0, <2>1, <2>2, <2>3, ConstantsAssumption DEF TypeOK, Leave, Go, MaxAttempts
  <2>4. CASE Take(t, b, AfterBinding(t)) /\ UNCHANGED <<who, target, attempt>>
    <3>1. b \in Bindings /\ AfterBinding(t) \in {"ensure", "bind", "check"}
      BY <2>0, <2>1, StoredType DEF AfterBinding, Identities, Statuses
    <3>2. QED
      BY <2>0, <2>1, <2>2, <2>4, <3>1 DEF TypeOK, Take, Go
  <2>5. QED
    BY <2>3, <2>4 DEF Allocate
<1>2. RowsOK'
  BY DEF IndInv, Allocate, Leave, Take, Go, AfterBinding, RunsOK, TypeOK, RowsOK, Identities,
         Statuses
<1>3. RunsOK'
  BY ConstantsAssumption
  DEF IndInv, Allocate, Leave, Take, Go, AfterBinding, Stored, RowsOK, TypeOK, RunsOK,
      Identities, Bindings, Statuses
<1>4. ThreadsOK'
  BY DEF IndInv, Allocate, Leave, Take, Go, AfterBinding, RunsOK, TypeOK, ThreadsOK, Identities,
         Statuses, remote
<1>5. OneCustomerPerUser'
  BY DEF IndInv, Allocate, RowsOK, RunsOK, TypeOK, OneCustomerPerUser, Identities
<1>6. AdmittedOwns'
  BY DEF IndInv, Allocate, Leave, Take, Go, AfterBinding, RunsOK, TypeOK, AdmittedOwns,
         Identities, Statuses, remote
<1>7. Repairable'
  BY DEF IndInv, Allocate, Repairable, remote
<1>8. QED
  BY <1>1, <1>2, <1>3, <1>4, <1>5, <1>6, <1>7 DEF IndInv

\* What is read under the row lock is the visitor's own, anonymous row.
LEMMA BindReadInv ==
  ASSUME IndInv, NEW t \in Threads, BindRead(t)
  PROVE  IndInv'
<1>1. TypeOK'
  <2> DEFINE v == who[t].visitor
             b == Stored(v)
  <2>0. TypeOK /\ RowsOK /\ RunsOK /\ ThreadsOK
    BY DEF IndInv
  <2>1. /\ pc[t] = "bind" /\ v \in Visitors /\ b \in Bindings
        /\ UNCHANGED <<user, known, points, owner, customers, session>>
    BY <2>0, IdentityOf, StoredType DEF BindRead, database, remote
  <2>2. CASE Take(t, b, "ensure") /\ UNCHANGED <<who, target, attempt>>
    BY <2>0, <2>1, <2>2 DEF TypeOK, Take, Go
  <2>3. CASE Leave(t)
    BY <2>0, <2>1, <2>3 DEF TypeOK, Leave, Go, MaxAttempts
  <2>4. ASSUME NEW r \in Visitors \cup {None}, Go(t, "flush"), target' = [target EXCEPT ![t] = r],
               UNCHANGED <<who, mine, attempt>>
        PROVE  TypeOK'
    BY <2>0, <2>1, <2>4 DEF TypeOK, Go
  <2>5. (IF RowOf(who[t].user) = {} THEN None ELSE CHOOSE r \in RowOf(who[t].user) : TRUE)
          \in Visitors \cup {None}
    BY <2>0 DEF RowOf, TypeOK
  <2>6. QED
    BY <2>2, <2>3, <2>4, <2>5 DEF BindRead
<1>2. RowsOK'
  BY SMTT(20)
  DEF IndInv, BindRead, VisitorLocked, Bindable, Take, Go, Leave, Stored, TypeOK, RowsOK,
      database
<1>3. RunsOK'
  BY ConstantsAssumption
  DEF IndInv, BindRead, Take, Go, Leave, Stored, RowOf, TypeOK, RunsOK, Identities, Bindings,
      database
<1>4. ThreadsOK'
  BY DEF IndInv, BindRead, Take, Go, Leave, RunsOK, TypeOK, ThreadsOK, database, remote
<1>5. OneCustomerPerUser'
  BY DEF IndInv, BindRead, OneCustomerPerUser, database
<1>6. AdmittedOwns'
  BY DEF IndInv, BindRead, Take, Go, Leave, TypeOK, AdmittedOwns, database, remote
<1>7. Repairable'
  BY DEF IndInv, BindRead, Repairable, database, remote
<1>8. QED
  BY <1>1, <1>2, <1>3, <1>4, <1>5, <1>6, <1>7 DEF IndInv

\* The flush gives the visitor the one row of the user.
LEMMA BindFlushInv ==
  ASSUME IndInv, NEW t \in Threads, BindFlush(t)
  PROVE  IndInv'
<1>1. TypeOK'
  BY DEF IndInv, BindFlush, BoundRow, Take, Go, RunsOK, TypeOK, Identities, Bindings, remote
<1>2. RowsOK'
  BY DEF IndInv, BindFlush, BoundRow, Take, Go, RunsOK, TypeOK, RowsOK
<1>3. RunsOK'
  <2> DEFINE v == who[t].visitor
             r == BoundRow(t)
  <2>0. TypeOK /\ RowsOK /\ RunsOK /\ ThreadsOK
    BY DEF IndInv
  <2>1. /\ pc[t] = "flush" /\ v \in Visitors /\ r \in Visitors /\ who[t] \in Identities
        /\ who[t].status = "authenticated" /\ who[t].user # None
        /\ user[points[v]] = None /\ points[v] = v
        /\ v \in known
    BY <2>0, IdentityOf DEF BindFlush, RunsOK, RowsOK, TypeOK, BoundRow, Identities
  <2>2. /\ user' = [user EXCEPT ![r] = who[t].user]
        /\ points' = [points EXCEPT ![v] = r]
        /\ pc' = [pc EXCEPT ![t] = "ensure"]
        /\ mine' = [mine EXCEPT ![t] = [user |-> who[t].user, customer |-> r]]
        /\ UNCHANGED <<known, who, target, attempt>>
    <3>1. CASE target[t] = None
      BY <3>1 DEF BindFlush, Take, Go
    <3>2. CASE target[t] # None
      <4>1. user[r] = who[t].user /\ user' = user
        BY <2>0, <3>2 DEF BindFlush, BoundRow, RunsOK
      <4>2. QED
        BY <2>0, <2>1, <4>1 DEF BindFlush, TypeOK, Take, Go
    <3>3. QED
      BY <3>1, <3>2
  <2>3. r = v \/ user[r] = who[t].user
    BY <2>0, <2>1 DEF BoundRow, RunsOK
  <2>4. SUFFICES ASSUME NEW s \in Threads PROVE RunsOK!(s)'
    BY DEF RunsOK
  <2>5. CASE s = t
    <3>1. Stored(v)' = [user |-> who[t].user, customer |-> r]
      BY <2>0, <2>1, <2>2 DEF Stored, TypeOK
    <3>2. user[r] # None => user[r] = who[t].user
      BY <2>1, <2>3
    <3>3. mine'[t] = [user |-> who[t].user, customer |-> r] /\ mine'[t] # None
      BY <2>0, <2>1, <2>2, ConstantsAssumption DEF TypeOK, Bindings, Identities
    <3>4. pc'[t] = "ensure" /\ user'[r] = who[t].user
      BY <2>0, <2>1, <2>2 DEF TypeOK
    <3>5. target[t] # None => target[t] = r /\ r \in known
      BY <2>0, <2>2 DEF BoundRow, RunsOK
    <3>6. QED
      BY <2>1, <2>2, <2>5, <3>1, <3>3, <3>4, <3>5, ConstantsAssumption
  <2>6. CASE s # t
    <3>1. mine[s] # None /\ mine[s].user # None =>
            Stored(who[s].visitor)' = Stored(who[s].visitor)
      BY <2>0, <2>1, <2>2, <2>3 DEF RunsOK, TypeOK, Stored, Identities
    <3>2. target[s] # None => user'[target[s]] = who[s].user
      BY <2>0, <2>1, <2>2, <2>3 DEF RunsOK, TypeOK, Identities
    <3>3. QED
      BY <2>0, <2>2, <2>6, <3>1, <3>2 DEF RunsOK, TypeOK
  <2>7. QED
    BY <2>5, <2>6
<1>4. ThreadsOK'
  BY DEF IndInv, BindFlush, Take, Go, Stored, RowsOK, RunsOK, TypeOK, ThreadsOK, remote
<1>5. OneCustomerPerUser'
  BY DEF IndInv, BindFlush, UserTaken, RowOf, OneCustomerPerUser
<1>6. AdmittedOwns'
  BY DEF IndInv, BindFlush, Take, Go, AdmittedOwns, remote
<1>7. Repairable'
  BY DEF IndInv, BindFlush, BoundRow, RowsOK, Repairable, remote
<1>8. QED
  BY <1>1, <1>2, <1>3, <1>4, <1>5, <1>6, <1>7 DEF IndInv

\* A retry starts from what the first attempt started from.
LEMMA BindConflictInv ==
  ASSUME IndInv, NEW t \in Threads, BindConflict(t)
  PROVE  IndInv'
<1>1. TypeOK'
  <2>1. CASE Leave(t)
    BY <2>1 DEF IndInv, TypeOK, Leave, Go, MaxAttempts, BindConflict, database, remote
  <2>2. CASE attempt[t] + 1 # MaxAttempts
    <3>1. attempt[t] \in 0..2 /\ attempt[t] + 1 \in 0..2
      BY <2>2 DEF IndInv, TypeOK, MaxAttempts
    <3>2. QED
      BY <2>2, <3>1 DEF IndInv, TypeOK, Go, MaxAttempts, BindConflict, database, remote
  <2>3. QED
    BY <2>1, <2>2 DEF BindConflict
<1>2. RowsOK'
  BY SMTT(20) DEF IndInv, BindConflict, Leave, Go, TypeOK, RowsOK, database
<1>3. RunsOK'
  BY DEF IndInv, BindConflict, Leave, Go, TypeOK, Stored, RunsOK, database
<1>4. ThreadsOK'
  BY DEF IndInv, BindConflict, Leave, Go, TypeOK, ThreadsOK, database, remote
<1>5. OneCustomerPerUser'
  BY DEF IndInv, BindConflict, OneCustomerPerUser, database
<1>6. AdmittedOwns'
  BY DEF IndInv, BindConflict, Leave, Go, TypeOK, AdmittedOwns, database, remote
<1>7. Repairable'
  BY DEF IndInv, BindConflict, Repairable, database, remote
<1>8. QED
  BY <1>1, <1>2, <1>3, <1>4, <1>5, <1>6, <1>7 DEF IndInv

\* A run past this point has a customer in Parlant.
LEMMA EnsureCustomerInv ==
  ASSUME IndInv, NEW t \in Threads, EnsureCustomer(t)
  PROVE  IndInv'
<1>1. TypeOK'
  BY DEF IndInv, EnsureCustomer, Provisioned, Go, RunsOK, TypeOK, Bindings, database, locals
<1>2. RowsOK'
  BY DEF IndInv, EnsureCustomer, Go, RowsOK, database, locals
<1>3. RunsOK'
  BY DEF IndInv, EnsureCustomer, Go, Stored, RunsOK, database, locals
<1>4. ThreadsOK'
  BY DEF IndInv, EnsureCustomer, Provisioned, Go, ThreadsOK, database, locals
<1>5. OneCustomerPerUser'
  BY DEF IndInv, EnsureCustomer, OneCustomerPerUser, database
<1>6. AdmittedOwns'
  BY DEF IndInv, EnsureCustomer, Go, AdmittedOwns, database, locals
<1>7. Repairable'
  BY DEF IndInv, EnsureCustomer, Repairable, database
<1>8. QED
  BY <1>1, <1>2, <1>3, <1>4, <1>5, <1>6, <1>7 DEF IndInv

\* The session moves from the visitor to the user it became.
LEMMA MoveSessionInv ==
  ASSUME IndInv, NEW t \in Threads, MoveSession(t)
  PROVE  IndInv'
<1>1. TypeOK'
  BY DEF IndInv, MoveSession, Go, Stored, RunsOK, TypeOK, database, locals
<1>2. RowsOK'
  BY DEF IndInv, MoveSession, Go, RowsOK, database, locals
<1>3. RunsOK'
  BY DEF IndInv, MoveSession, Go, Stored, RunsOK, database, locals
<1>4. ThreadsOK'
  BY ConstantsAssumption
  DEF IndInv, MoveSession, Go, RunsOK, TypeOK, ThreadsOK, database, locals
<1>5. OneCustomerPerUser'
  BY DEF IndInv, MoveSession, OneCustomerPerUser, database
<1>6. AdmittedOwns'
  BY DEF IndInv, MoveSession, Go, AdmittedOwns, database, locals
<1>7. Repairable'
  BY DEF IndInv, MoveSession, Stored, RunsOK, ThreadsOK, TypeOK, Repairable, database
<1>8. QED
  BY <1>1, <1>2, <1>3, <1>4, <1>5, <1>6, <1>7 DEF IndInv

\* The binding follows a session that has moved.
LEMMA SaveThreadInv ==
  ASSUME IndInv, NEW t \in Threads, SaveThread(t)
  PROVE  IndInv'
<1>1. TypeOK'
  BY DEF IndInv, SaveThread, Go, Stored, RunsOK, TypeOK, remote, locals
<1>2. RowsOK'
  BY DEF IndInv, SaveThread, Go, RowsOK, locals
<1>3. RunsOK'
  BY DEF IndInv, SaveThread, Go, Stored, RunsOK, locals
<1>4. ThreadsOK'
  BY DEF IndInv, SaveThread, Go, RunsOK, ThreadsOK, remote, locals
<1>5. OneCustomerPerUser'
  BY DEF IndInv, SaveThread, OneCustomerPerUser
<1>6. AdmittedOwns'
  BY DEF IndInv, SaveThread, Go, RunsOK, ThreadsOK, TypeOK, AdmittedOwns, remote, locals
<1>7. Repairable'
  BY DEF IndInv, SaveThread, ThreadsOK, Repairable, remote
<1>8. QED
  BY <1>1, <1>2, <1>3, <1>4, <1>5, <1>6, <1>7 DEF IndInv

\* A run that passes the check knows whether its thread is bound.
LEMMA CheckIdentityInv ==
  ASSUME IndInv, NEW t \in Threads, CheckIdentity(t)
  PROVE  IndInv'
<1>1. TypeOK'
  BY DEF IndInv, CheckIdentity, Go, TypeOK, database, remote, locals
<1>2. RowsOK'
  BY DEF IndInv, CheckIdentity, Go, RowsOK, database, locals
<1>3. RunsOK'
  BY DEF IndInv, CheckIdentity, Go, Stored, RunsOK, database, locals
<1>4. ThreadsOK'
  BY DEF IndInv, CheckIdentity, Go, ThreadsOK, database, remote, locals
<1>5. OneCustomerPerUser'
  BY DEF IndInv, CheckIdentity, OneCustomerPerUser, database
<1>6. AdmittedOwns'
  BY DEF IndInv, CheckIdentity, Go, AdmittedOwns, database, remote, locals
<1>7. Repairable'
  BY DEF IndInv, CheckIdentity, Repairable, database, remote
<1>8. QED
  BY <1>1, <1>2, <1>3, <1>4, <1>5, <1>6, <1>7 DEF IndInv

\* A new session belongs to the customer of the run.
LEMMA OpenSessionInv ==
  ASSUME IndInv, NEW t \in Threads, OpenSession(t)
  PROVE  IndInv'
<1>1. TypeOK'
  BY DEF IndInv, OpenSession, Go, RunsOK, TypeOK, Bindings, database, locals
<1>2. RowsOK'
  BY DEF IndInv, OpenSession, Go, RowsOK, database, locals
<1>3. RunsOK'
  BY DEF IndInv, OpenSession, Go, Stored, RunsOK, database, locals
<1>4. ThreadsOK'
  BY DEF IndInv, OpenSession, Go, TypeOK, ThreadsOK, database, locals
<1>5. OneCustomerPerUser'
  BY DEF IndInv, OpenSession, OneCustomerPerUser, database
<1>6. AdmittedOwns'
  BY DEF IndInv, OpenSession, Go, AdmittedOwns, database, locals
<1>7. Repairable'
  BY DEF IndInv, OpenSession, ThreadsOK, Repairable, database
<1>8. QED
  BY <1>1, <1>2, <1>3, <1>4, <1>5, <1>6, <1>7 DEF IndInv

\* A binding is stored for a session of the same customer.
LEMMA StoreBindingInv ==
  ASSUME IndInv, NEW t \in Threads, StoreBinding(t)
  PROVE  IndInv'
<1>1. TypeOK'
  BY DEF IndInv, StoreBinding, Go, RunsOK, TypeOK, Bindings, remote, locals
<1>2. RowsOK'
  BY DEF IndInv, StoreBinding, Go, RowsOK, locals
<1>3. RunsOK'
  BY DEF IndInv, StoreBinding, Go, Stored, RunsOK, locals
<1>4. ThreadsOK'
  BY ConstantsAssumption DEF IndInv, StoreBinding, Go, TypeOK, ThreadsOK, remote, locals
<1>5. OneCustomerPerUser'
  BY DEF IndInv, StoreBinding, OneCustomerPerUser
<1>6. AdmittedOwns'
  BY DEF IndInv, StoreBinding, Go, AdmittedOwns, remote, locals
<1>7. Repairable'
  BY DEF IndInv, StoreBinding, ThreadsOK, Repairable, remote
<1>8. QED
  BY <1>1, <1>2, <1>3, <1>4, <1>5, <1>6, <1>7 DEF IndInv

\* Admission follows from agreement of the two stores.
LEMMA ReconcileInv ==
  ASSUME IndInv, NEW t \in Threads, Reconcile(t)
  PROVE  IndInv'
<1>1. TypeOK'
  BY DEF IndInv, Reconcile, Go, Stored, RunsOK, TypeOK, database, locals
<1>2. RowsOK'
  BY DEF IndInv, Reconcile, Go, RowsOK, database, locals
<1>3. RunsOK'
  BY DEF IndInv, Reconcile, Reconcilable, MayUpgrade, Go, Stored, RunsOK, database, locals
<1>4. ThreadsOK'
  BY ConstantsAssumption
  DEF IndInv, Reconcile, Go, Stored, RunsOK, TypeOK, ThreadsOK, database, locals
<1>5. OneCustomerPerUser'
  BY DEF IndInv, Reconcile, OneCustomerPerUser, database
<1>6. AdmittedOwns'
  BY DEF IndInv, Reconcile, Go, ThreadsOK, TypeOK, AdmittedOwns, database, locals
<1>7. Repairable'
  BY DEF IndInv, Reconcile, Reconcilable, MayUpgrade, Stored, RunsOK, TypeOK, Repairable,
         database
<1>8. QED
  BY <1>1, <1>2, <1>3, <1>4, <1>5, <1>6, <1>7 DEF IndInv

\* A run that ends, wherever it was, leaves the stores as they are.
LEMMA RefuseInv ==
  ASSUME IndInv, NEW t \in Threads, Refuse(t)
  PROVE  IndInv'
<1>1. TypeOK'
  BY ConstantsAssumption DEF IndInv, TypeOK, Refuse, Leave, Go, MaxAttempts, database, remote
<1>2. RowsOK'
  BY DEF IndInv, Refuse, Leave, Go, TypeOK, RowsOK, database
<1>3. RunsOK'
  BY DEF IndInv, Refuse, Leave, Go, TypeOK, Stored, RunsOK, database
<1>4. ThreadsOK'
  BY DEF IndInv, Refuse, Leave, Go, TypeOK, ThreadsOK, database, remote
<1>5. OneCustomerPerUser'
  BY DEF IndInv, Refuse, OneCustomerPerUser, database
<1>6. AdmittedOwns'
  BY DEF IndInv, Refuse, Leave, Go, TypeOK, AdmittedOwns, database, remote
<1>7. Repairable'
  BY DEF IndInv, Refuse, Repairable, database, remote
<1>8. QED
  BY <1>1, <1>2, <1>3, <1>4, <1>5, <1>6, <1>7 DEF IndInv

\* In the initial states nothing is stored and no run is under way.
LEMMA InitInv == Init => IndInv
BY ConstantsAssumption
DEF Init, IndInv, TypeOK, RowsOK, RunsOK, ThreadsOK, OneCustomerPerUser, AdmittedOwns,
    Repairable, MaxAttempts

\* Steps that change nothing keep the inductive invariant.
LEMMA StutterInv == ASSUME IndInv, UNCHANGED vars PROVE IndInv'
BY DEF IndInv, TypeOK, RowsOK, RunsOK, ThreadsOK, OneCustomerPerUser, AdmittedOwns,
       Repairable, Stored, vars, database, remote, locals

\* The inductive step: no action of a run, and no way it may end, leaves the
\* inductive invariant.
LEMMA StepInv == ASSUME IndInv, Next PROVE IndInv'
<1>1. PICK t \in Threads :
        (\E i \in Identities : Start(t, i)) \/ Step(t) \/ Refusal(t) \/ Finish(t) \/ Abort(t)
  BY DEF Next
<1>2. CASE \E i \in Identities : Start(t, i)
  BY <1>2, StartInv
<1>3. CASE Step(t)
  BY <1>3, FindVisitorInv, AllocateInv, BindReadInv, BindFlushInv, BindConflictInv,
     EnsureCustomerInv, MoveSessionInv, SaveThreadInv, CheckIdentityInv, OpenSessionInv,
     StoreBindingInv, ReconcileInv
  DEF Step
<1>4. CASE Refusal(t) \/ Finish(t) \/ Abort(t)
  BY <1>4, RefuseInv DEF Refusal, Finish, Abort
<1>5. QED
  BY <1>1, <1>2, <1>3, <1>4

\* IndInv, and with it each of the invariants below, holds in every state.
THEOREM InductiveInvariant == Spec => []IndInv
<1>1. Init => IndInv
  BY InitInv
<1>2. IndInv /\ [Next]_vars => IndInv'
  BY StepInv, StutterInv
<1>3. QED
  BY <1>1, <1>2, PTL DEF Spec

\* All variables keep their types, and visitors point to rows that exist.
THEOREM TypeCorrect == Spec => []TypeOK
<1>1. IndInv => TypeOK
  BY DEF IndInv
<1>2. QED
  BY <1>1, InductiveInvariant, PTL

\* However many visitors bind one user at once, the user has one customer.
THEOREM UsersHaveOneCustomer == Spec => []OneCustomerPerUser
<1>1. IndInv => OneCustomerPerUser
  BY DEF IndInv
<1>2. QED
  BY <1>1, InductiveInvariant, PTL

\* An admitted run owns its thread in the database and in Parlant.
THEOREM AdmissionMeansOwnership == Spec => []AdmittedOwns
<1>1. IndInv => AdmittedOwns
  BY DEF IndInv
<1>2. QED
  BY <1>1, InductiveInvariant, PTL

\* A run interrupted at any await leaves the two stores at most one move of
\* a visitor's thread to its user apart.
THEOREM InterruptionsAreRepairable == Spec => []Repairable
<1>1. IndInv => Repairable
  BY DEF IndInv
<1>2. QED
  BY <1>1, InductiveInvariant, PTL

\* Identity rows and visitor rows are written by BindFlush alone.
LEMMA OnlyFlushBinds ==
  ASSUME Next
  PROVE  (\E t \in Threads : BindFlush(t)) \/ UNCHANGED <<user, points>>
BY DEF Next, Step, Refusal, Finish, Abort, Refuse, Start, FindVisitor, Allocate, BindRead,
       BindConflict, EnsureCustomer, MoveSession, SaveThread, CheckIdentity, OpenSession,
       StoreBinding, Reconcile, database

\* The row written has no user before and has the run's user after.
LEMMA FlushSticks ==
  ASSUME IndInv, NEW t \in Threads, BindFlush(t), NEW v \in Visitors
  PROVE  /\ user[v] # None => user'[v] = user[v]
         /\ points'[v] # points[v] => user[points[v]] = None /\ user'[points'[v]] # None
<1>0. TypeOK /\ RowsOK /\ RunsOK
  BY DEF IndInv
<1>1. /\ user[points[who[t].visitor]] = None
      /\ who[t] \in Identities /\ who[t].user # None
  BY <1>0, IdentityOf DEF BindFlush, RowsOK, RunsOK, Identities
<1>2. CASE target[t] = None
  <2>1. /\ user' = [user EXCEPT ![points[who[t].visitor]] = who[t].user]
        /\ points' = [points EXCEPT ![who[t].visitor] = points[who[t].visitor]]
    BY <1>2 DEF BindFlush, BoundRow
  <2>2. QED
    BY <1>0, <1>1, <2>1 DEF TypeOK
<1>3. CASE target[t] # None
  <2>1. user' = user /\ points' = [points EXCEPT ![who[t].visitor] = target[t]]
    BY <1>3 DEF BindFlush, BoundRow
  <2>2. user[target[t]] # None
    BY <1>0, <1>3 DEF RunsOK
  <2>3. QED
    BY <1>0, <1>1, <2>1, <2>2 DEF TypeOK
<1>4. QED
  BY <1>2, <1>3

\* No step takes an identity away from its user or its visitor.
THEOREM IdentitiesStick == Spec => IdentityIsSticky
<1>1. ASSUME IndInv, [Next]_vars
      PROVE  [\A v \in Visitors :
                /\ user[v] # None => user'[v] = user[v]
                /\ points'[v] # points[v] =>
                     user[points[v]] = None /\ user'[points'[v]] # None]_database
  <2>1. CASE Next
    BY <1>1, <2>1, OnlyFlushBinds, FlushSticks
  <2>2. CASE UNCHANGED vars
    BY <2>2 DEF vars
  <2>3. QED
    BY <1>1, <2>1, <2>2
<1>2. QED
  BY <1>1, InductiveInvariant, PTL DEF Spec, IdentityIsSticky

\* Who has moved a thread, or is about to, holds the stored binding of a user.
LEMMA MoverIsBound ==
  ASSUME IndInv, NEW t \in Threads, who[t] # None, mine[t] # None, mine[t].user # None
  PROVE  points[who[t].visitor] = mine[t].customer /\ user[mine[t].customer] # None
<1>1. mine[t] = Stored(who[t].visitor)
  BY DEF IndInv, RunsOK
<1>2. /\ mine[t].customer = points[who[t].visitor]
      /\ mine[t].user = user[points[who[t].visitor]]
  BY <1>1 DEF Stored
<1>3. QED
  BY <1>2

\* A step of a run changes the owner of its thread, or of its session, only
\* if the visitor it belonged to is that of the run, and gives it to the
\* user this visitor has become.
LEMMA StepFollows ==
  ASSUME IndInv, Next, NEW t \in Threads, owner[t] # None
  PROVE  /\ owner'[t] # owner[t] => Follows(owner, t)
         /\ session'[t] # session[t] => Follows(session, t)
<1>0. TypeOK /\ RowsOK /\ RunsOK /\ ThreadsOK /\ Repairable
  BY DEF IndInv
<1> DEFINE c == mine[t].customer
<1>1. CASE SaveThread(t)
  <2>1. /\ owner' = [owner EXCEPT ![t] = c] /\ UNCHANGED <<user, points, session>>
        /\ pc[t] \in {"save", "relabel"}
    BY <1>1 DEF SaveThread, remote
  <2>2. /\ who[t] # None /\ mine[t] # None /\ who[t].status = "authenticated"
        /\ mine[t].user # None
    BY <1>0, <2>1 DEF RunsOK, TypeOK, Identities
  <2>3. owner[t] \in {c, who[t].visitor}
    BY <1>0, <2>2 DEF ThreadsOK
  <2>4. QED
    BY <1>0, <2>1, <2>2, <2>3, MoverIsBound DEF TypeOK, Follows
<1>2. CASE MoveSession(t) \/ Reconcile(t)
  <2>1. /\ session' = [session EXCEPT ![t] = c] /\ UNCHANGED <<user, points, owner>>
        /\ session[t] \in {owner[t], c}
        /\ pc[t] \in {"move", "reconcile"}
    BY <1>2 DEF MoveSession, Reconcile, Reconcilable, database
  <2>2. who[t] # None /\ mine[t] # None
    BY <1>0, <2>1 DEF RunsOK
  <2>3. CASE session[t] # c
    <3>1. session[t] = owner[t] /\ owner[t] # c
      BY <2>1, <2>3
    <3>2. owner[t] = who[t].visitor /\ mine[t].user # None
      BY <1>0, <1>2, <2>1, <2>2, <3>1
      DEF MoveSession, Claimable, Reconcile, Reconcilable, MayUpgrade, RunsOK, TypeOK,
          Identities
    <3>3. QED
      BY <1>0, <2>1, <2>2, <3>1, <3>2, MoverIsBound DEF TypeOK, Follows
  <2>4. QED
    BY <1>0, <2>1, <2>3 DEF TypeOK
<1>3. CASE ~SaveThread(t) /\ ~MoveSession(t) /\ ~Reconcile(t)
  <2>1. owner'[t] = owner[t] /\ session'[t] = session[t]
    BY <1>0, <1>3
    DEF Next, Step, Refusal, Finish, Abort, Refuse, Start, FindVisitor, Allocate, BindRead,
        BindFlush, BindConflict, EnsureCustomer, MoveSession, SaveThread, CheckIdentity,
        OpenSession, StoreBinding, Reconcile, ThreadsOK, TypeOK, database, remote
  <2>2. QED
    BY <2>1
<1>4. QED
  BY <1>1, <1>2, <1>3

\* Threads change hands only from a visitor to the user it became.
THEOREM ThreadsMoveOnlyToTheirUser == Spec => MovesOnlyToItsUser
<1>1. ASSUME IndInv, [Next]_vars
      PROVE  [\A t \in Threads : owner[t] # None =>
                /\ owner'[t] # owner[t] => Follows(owner, t)
                /\ session'[t] # session[t] => Follows(session, t)]_vars
  BY <1>1, StepFollows
<1>2. QED
  BY <1>1, InductiveInvariant, PTL DEF Spec, MovesOnlyToItsUser

\* A session that is not with the owner of its thread is with the customer of
\* an entitled run.
LEMMA SessionAgrees ==
  ASSUME IndInv, NEW t \in Threads, owner[t] # None, who[t] # None, mine[t] # None,
         mine[t] = Stored(who[t].visitor),
         owner[t] \in {mine[t].customer, who[t].visitor}
  PROVE  session[t] \in {owner[t], mine[t].customer}
<1>0. TypeOK /\ RowsOK /\ Repairable /\ who[t].visitor \in Visitors
  BY DEF IndInv, TypeOK, Identities
<1>1. points[points[who[t].visitor]] = points[who[t].visitor]
  BY <1>0 DEF RowsOK, TypeOK
<1>2. mine[t].customer = points[who[t].visitor]
  BY DEF Stored
<1>3. QED
  BY <1>0, <1>1, <1>2 DEF Repairable

\* A refusal of a run that has not found its identity changed is deserved.
LEMMA RefusalIsDeserved ==
  ASSUME IndInv, NEW t \in Threads, Refusable(t), Entitled(t, who[t]),
         mine[t] # None => mine[t] = Stored(who[t].visitor)
  PROVE  FALSE
<1>0. TypeOK /\ RowsOK /\ RunsOK /\ ThreadsOK
  BY DEF IndInv
<1>1. who[t] \in Identities /\ who[t].visitor \in Visitors
  BY <1>0, IdentityOf DEF Refusable
<1>2. CASE /\ pc[t] = "resolving"
           /\ IF who[t].visitor \in known THEN ~Admissible(t, Stored(who[t].visitor))
              ELSE ~MayAllocate(t)
  BY <1>1, <1>2 DEF Entitled, Admissible, Claimable, MayAllocate, Identities, Statuses
<1>3. CASE /\ pc[t] = "move"
           /\ Claimable(t, mine[t]) => session[t] \notin {owner[t], mine[t].customer}
  <2>1. /\ who[t].status = "authenticated" /\ owner[t] # None /\ mine[t] # None
        /\ owner[t] \in {mine[t].customer, who[t].visitor}
    BY <1>0, <1>3 DEF RunsOK, ThreadsOK
  <2>2. QED
    BY <1>1, <1>3, <2>1, SessionAgrees, ConstantsAssumption DEF Claimable
<1>4. CASE /\ pc[t] = "check"
           /\ SameIdentity(t) => owner[t] = None /\ who[t].status = "unavailable"
  <2>1. mine[t] # None /\ owner[t] = None /\ who[t].status = "unavailable"
    BY <1>0, <1>4 DEF RunsOK, SameIdentity
  <2>2. QED
    BY <1>0, <1>1, <2>1, StoredType, ConstantsAssumption DEF Entitled, Bindings
<1>5. CASE pc[t] = "reconcile" /\ ~Reconcilable(t)
  <2>1. mine[t] # None /\ who[t].visitor \in known /\ owner[t] # None
    BY <1>0, <1>5 DEF RunsOK, ThreadsOK
  <2>2. owner[t] = mine[t].customer \/ MayUpgrade(t)
    BY <1>0, <1>1, <1>5, <2>1 DEF Entitled, MayUpgrade, RunsOK, ThreadsOK, Identities, Statuses
  <2>3. session[t] \in {owner[t], mine[t].customer}
    BY <1>1, <2>1, <2>2, SessionAgrees, ConstantsAssumption DEF MayUpgrade
  <2>4. QED
    BY <1>5, <2>2, <2>3 DEF Reconcilable
<1>6. QED
  BY <1>2, <1>3, <1>4, <1>5 DEF Refusable

\* Nobody who is entitled to a thread is refused, whatever was interrupted.
THEOREM TheEntitledGetIn == Spec => EntitledGetIn
<1>1. ASSUME IndInv
      PROVE  [\A t \in Threads : Refusal(t) =>
                \/ ~Entitled(t, who[t])
                \/ mine[t] # None /\ mine[t] # Stored(who[t].visitor)]_vars
  BY <1>1, RefusalIsDeserved DEF Refusal
<1>2. QED
  BY <1>1, InductiveInvariant, PTL DEF Spec, EntitledGetIn
=============================================================================
