----------------------------- MODULE Ownership ------------------------------
(***************************************************************************)
(* Who owns a conversation.  A run of AguiRunRunner first resolves the     *)
(* visitor's identity (CustomerIdentityResolver, CustomerIdentityService   *)
(* over SqlCustomerIdentityRepository) and then its conversation           *)
(* (ConversationService, ConversationBindingManager).  Ownership is stored *)
(* twice, in the database and in Parlant's sessions, with no transaction   *)
(* over both.                                                              *)
(*                                                                         *)
(* A thread has one run at a time (AguiRunRunner reserves it); runs of     *)
(* different threads interleave at every await.  Abort is whatever ends a  *)
(* run early: an exception of a store or of Parlant, a cancellation, the   *)
(* run's timeout, a crash of the process.  A call that fails may have had  *)
(* its effect: that is the call followed by Abort.                         *)
(*                                                                         *)
(* The identity row of a visitor and the customer allocated with it bear   *)
(* the name of the visitor.                                                *)
(***************************************************************************)
EXTENDS Naturals, FiniteSets

CONSTANTS Threads, Visitors, Users, None

MaxAttempts == 3

Statuses == {"anonymous", "authenticated", "unavailable"}
Identities == {i \in [visitor : Visitors, status : Statuses, user : Users \cup {None}] :
                 i.status = "authenticated" <=> i.user # None}
Bindings == [user : Users \cup {None}, customer : Visitors]

ASSUME ConstantsAssumption ==
  None \notin Visitors \cup Users \cup Identities \cup Bindings

VARIABLES
  user,       \* identity row: its Saleor user, or None; no row: not in known
  known,      \* visitors with an identity row and a visitor row
  points,     \* visitor row: binding_id
  customers,  \* customers that exist in Parlant
  owner,      \* conversation binding: its customer, None without a binding
  session,    \* Parlant: the customer of the thread's session
  pc,         \* where the run of the thread is
  who,        \* identity the run was started with
  mine,       \* the run's copy of the identity binding
  target,     \* bind_saleor_user: the row found for the user
  attempt     \* bind_saleor_user: failed attempts

database == <<user, known, points, owner>>
remote == <<customers, session>>
locals == <<who, mine, target, attempt>>
vars == <<database, remote, pc, locals>>

Init ==
  /\ user = [v \in Visitors |-> None]
  /\ known = {} /\ points = [v \in Visitors |-> v]
  /\ customers = {}
  /\ owner = [t \in Threads |-> None] /\ session = [t \in Threads |-> None]
  /\ pc = [t \in Threads |-> "idle"]
  /\ who = [t \in Threads |-> None] /\ mine = [t \in Threads |-> None]
  /\ target = [t \in Threads |-> None] /\ attempt = [t \in Threads |-> 0]

\* find_by_visitor: the row the visitor points to.  Its anonymous customer
\* is the one it was allocated with.
Stored(v) == [user |-> user[points[v]], customer |-> points[v]]

Go(t, l) == pc' = [pc EXCEPT ![t] = l]

Leave(t) ==
  /\ Go(t, "idle")
  /\ who' = [who EXCEPT ![t] = None] /\ mine' = [mine EXCEPT ![t] = None]
  /\ target' = [target EXCEPT ![t] = None] /\ attempt' = [attempt EXCEPT ![t] = 0]

\* The run ends with the error the code raises for this identity.
Refuse(t) == Leave(t) /\ UNCHANGED <<database, remote>>

Start(t, i) ==
  /\ pc[t] = "idle"
  /\ Go(t, "resolving")
  /\ who' = [who EXCEPT ![t] = i]
  /\ UNCHANGED <<database, remote, mine, target, attempt>>

-----------------------------------------------------------------------------
(* Identity.                                                               *)

\* Slip: any thread may be claimed.
ClaimAny(t, b) == TRUE

\* _check_thread: the thread belongs to the customer or was the visitor's own.
Claimable(t, b) == owner[t] \in {b.customer, who[t].visitor}

\* Whether the binding that was read lets the identity go on.
Admissible(t, b) ==
  CASE who[t].status = "anonymous" -> b.user = None
    [] who[t].status = "authenticated" ->
         b.user \in {None, who[t].user} /\ (owner[t] # None => Claimable(t, b))
    [] who[t].status = "unavailable" -> TRUE

Take(t, b, l) == mine' = [mine EXCEPT ![t] = b] /\ Go(t, l)

AfterBinding(t) ==
  CASE who[t].status = "anonymous" -> "ensure"
    [] who[t].status = "authenticated" -> "bind"
    [] who[t].status = "unavailable" -> "check"

\* An unknown visitor gets a binding, unless authentication is unavailable
\* or it claims a thread.
MayAllocate(t) == \/ who[t].status = "anonymous"
                  \/ who[t].status = "authenticated" /\ owner[t] = None

FindVisitor(t) ==
  LET v == who[t].visitor
  IN /\ pc[t] = "resolving"
     /\ \/ /\ v \in known /\ Admissible(t, Stored(v))
           /\ Take(t, Stored(v), AfterBinding(t))
           /\ UNCHANGED <<who, target, attempt>>
        \/ /\ v \notin known /\ MayAllocate(t)
           /\ Go(t, "allocate")
           /\ UNCHANGED locals
     /\ UNCHANGED <<database, remote>>

\* create: insert the rows if they are absent, and return what is stored.
\* An anonymous visitor that was bound meanwhile is refused.
Allocate(t) ==
  LET v == who[t].visitor
  IN /\ pc[t] = "allocate"
     /\ known' = known \cup {v}
     /\ IF who[t].status = "anonymous" /\ Stored(v).user # None
        THEN Leave(t)
        ELSE Take(t, Stored(v), AfterBinding(t)) /\ UNCHANGED <<who, target, attempt>>
     /\ UNCHANGED <<user, points, owner, remote>>

RowOf(u) == {v \in known : user[v] = u}

\* The update of the visitor row locks it until the transaction ends.
VisitorLocked(v) == \E t \in Threads : pc[t] = "flush" /\ who[t].visitor = v

Bindable(b, t) == b.user = None /\ b.customer = mine[t].customer

\* bind_saleor_user: read the visitor's row and look for one of the user.
BindRead(t) ==
  LET v == who[t].visitor
      b == Stored(v)
      u == who[t].user
  IN /\ pc[t] = "bind" /\ ~VisitorLocked(v)
     /\ \/ /\ b.user = u
           /\ Take(t, b, "ensure") /\ UNCHANGED <<who, target, attempt>>
        \/ /\ b.user # u /\ Bindable(b, t)
           /\ Go(t, "flush")
           /\ target' = [target EXCEPT ![t] = IF RowOf(u) = {} THEN None ELSE CHOOSE r \in RowOf(u) : TRUE]
           /\ UNCHANGED <<who, mine, attempt>>
        \/ /\ b.user # u /\ ~Bindable(b, t)
           /\ Leave(t)
     /\ UNCHANGED <<database, remote>>

\* Slip: no unique constraint.
NoConstraint(t) == FALSE

\* uq_identity_saleor, checked by the flush.
UserTaken(t) == target[t] = None /\ RowOf(who[t].user) # {}

\* The row the visitor points to from now on.
BoundRow(t) == IF target[t] = None THEN points[who[t].visitor] ELSE target[t]

BindFlush(t) ==
  LET v == who[t].visitor
      r == BoundRow(t)
  IN /\ pc[t] = "flush" /\ ~UserTaken(t)
     /\ user' = IF target[t] = None THEN [user EXCEPT ![r] = who[t].user] ELSE user
     /\ points' = [points EXCEPT ![v] = r]
     /\ Take(t, [user |-> who[t].user, customer |-> r], "ensure")
     /\ UNCHANGED <<known, owner, remote, who, target, attempt>>

\* Another visitor bound the user first: roll back and try again.
BindConflict(t) ==
  /\ pc[t] = "flush" /\ UserTaken(t)
  /\ IF attempt[t] + 1 = MaxAttempts
     THEN Leave(t)
     ELSE /\ Go(t, "bind")
          /\ attempt' = [attempt EXCEPT ![t] = @ + 1]
          /\ target' = [target EXCEPT ![t] = None]
          /\ UNCHANGED <<who, mine>>
  /\ UNCHANGED <<database, remote>>

\* Slip: a customer is provisioned for anonymous visitors only.
ProvisionedForVisitors(t) ==
  IF who[t].status = "anonymous" THEN {mine[t].customer} ELSE {}

Provisioned(t) == {mine[t].customer}

\* ensure_customer: one at a time in the process, create if absent.
EnsureCustomer(t) ==
  /\ pc[t] = "ensure"
  /\ customers' = customers \cup Provisioned(t)
  /\ Go(t, IF who[t].status = "authenticated" /\ owner[t] # None THEN "move" ELSE "check")
  /\ UNCHANGED <<database, session, locals>>

\* Slip: the database is written first.
MoveThreadFirst(t) ==
  /\ pc[t] = "move" /\ Claimable(t, mine[t])
  /\ owner' = [owner EXCEPT ![t] = mine[t].customer]
  /\ Go(t, "save")
  /\ UNCHANGED <<user, known, points, remote, locals>>

\* _upgrade_session: Parlant first ...
MoveSession(t) ==
  LET c == mine[t].customer
  IN /\ pc[t] = "move" /\ Claimable(t, mine[t])
     /\ session[t] \in {owner[t], c}
     /\ session' = [session EXCEPT ![t] = c]
     /\ Go(t, IF owner[t] = c THEN "check" ELSE "save")
     /\ UNCHANGED <<database, customers, locals>>

\* ... then the compare-and-set of the binding, here and in _reconcile.
SaveThread(t) ==
  /\ pc[t] \in {"save", "relabel"}
  /\ owner' = [owner EXCEPT ![t] = mine[t].customer]
  /\ Go(t, IF pc[t] = "save" THEN "check" ELSE "admitted")
  /\ UNCHANGED <<user, known, points, remote, locals>>

-----------------------------------------------------------------------------
(* Conversation.                                                           *)

\* ConversationService._lock.
Conversing(t) == pc[t] \in {"open", "store", "reconcile", "relabel"}
LockFree == ~ \E t \in Threads : Conversing(t)

\* The stored identity still is what the run resolved.
SameIdentity(t) == mine[t] = Stored(who[t].visitor)

CheckIdentity(t) ==
  /\ pc[t] = "check" /\ LockFree
  /\ SameIdentity(t)
  /\ owner[t] = None => who[t].status # "unavailable"
  /\ Go(t, IF owner[t] = None THEN "open" ELSE "reconcile")
  /\ UNCHANGED <<database, remote, locals>>

\* A session is created; if the run ends here it stays behind, unbound.
OpenSession(t) ==
  /\ pc[t] = "open"
  /\ session' = [session EXCEPT ![t] = mine[t].customer]
  /\ Go(t, "store")
  /\ UNCHANGED <<database, customers, locals>>

StoreBinding(t) ==
  /\ pc[t] = "store"
  /\ owner' = [owner EXCEPT ![t] = mine[t].customer]
  /\ Go(t, "reconcile")
  /\ UNCHANGED <<user, known, points, remote, locals>>

\* A thread of the visitor from before it was authenticated.
MayUpgrade(t) ==
  who[t].status = "authenticated" /\ mine[t].user # None /\ owner[t] = who[t].visitor

Reconcilable(t) ==
  /\ owner[t] = mine[t].customer \/ MayUpgrade(t)
  /\ session[t] \in {owner[t], mine[t].customer}

Reconcile(t) ==
  /\ pc[t] = "reconcile" /\ Reconcilable(t)
  /\ session' = [session EXCEPT ![t] = mine[t].customer]
  /\ Go(t, IF owner[t] = mine[t].customer THEN "admitted" ELSE "relabel")
  /\ UNCHANGED <<database, customers, locals>>

\* The conditions under which the four checks raise.
Refusable(t) ==
  \/ /\ pc[t] = "resolving"
     /\ IF who[t].visitor \in known THEN ~Admissible(t, Stored(who[t].visitor)) ELSE ~MayAllocate(t)
  \/ /\ pc[t] = "move"
     /\ Claimable(t, mine[t]) => session[t] \notin {owner[t], mine[t].customer}
  \/ /\ pc[t] = "check" /\ LockFree
     /\ SameIdentity(t) => owner[t] = None /\ who[t].status = "unavailable"
  \/ pc[t] = "reconcile" /\ ~Reconcilable(t)

Refusal(t) == Refusable(t) /\ Refuse(t)

Finish(t) == pc[t] = "admitted" /\ Refuse(t)

Abort(t) == pc[t] \notin {"idle", "admitted"} /\ Refuse(t)

Step(t) == \/ FindVisitor(t) \/ Allocate(t) \/ BindRead(t) \/ BindFlush(t) \/ BindConflict(t)
           \/ EnsureCustomer(t) \/ MoveSession(t) \/ SaveThread(t)
           \/ CheckIdentity(t) \/ OpenSession(t) \/ StoreBinding(t)
           \/ Reconcile(t)

Next == \E t \in Threads :
          \/ \E i \in Identities : Start(t, i)
          \/ Step(t) \/ Refusal(t) \/ Finish(t) \/ Abort(t)

Spec == Init /\ [][Next]_vars

-----------------------------------------------------------------------------
(* Properties.                                                             *)

\* Every variable has its type, and visitors point to rows that exist.
TypeOK ==
  /\ user \in [Visitors -> Users \cup {None}] /\ known \subseteq Visitors
  /\ points \in [Visitors -> Visitors]
  /\ \A v \in known : points[v] \in known
  /\ customers \subseteq Visitors
  /\ owner \in [Threads -> Visitors \cup {None}] /\ session \in [Threads -> Visitors \cup {None}]
  /\ pc \in [Threads -> {"idle", "resolving", "allocate", "bind", "flush", "ensure", "move",
                         "save", "check", "open", "store", "reconcile", "relabel", "admitted"}]
  /\ who \in [Threads -> Identities \cup {None}] /\ mine \in [Threads -> Bindings \cup {None}]
  /\ target \in [Threads -> Visitors \cup {None}] /\ attempt \in [Threads -> 0..(MaxAttempts - 1)]

\* A user has one customer, whichever visitors bind it at the same time.
OneCustomerPerUser ==
  \A v, w \in known : user[v] # None /\ user[v] = user[w] => v = w

\* Accounts do not change hands: a bound row keeps its user, and a visitor
\* leaves its row only from anonymous to the row of a user.
IdentityIsSticky ==
  [][\A v \in Visitors :
       /\ user[v] # None => user'[v] = user[v]
       /\ points'[v] # points[v] => user[points[v]] = None /\ user'[points'[v]] # None]_database

\* While a run is admitted, the database, Parlant and the run agree on the
\* owner of its thread, and Parlant knows this customer.
AdmittedOwns ==
  \A t \in Threads : pc[t] = "admitted" =>
    owner[t] = mine[t].customer /\ session[t] = owner[t] /\ owner[t] \in customers

\* The new value of f, at t, is the user the visitor at f[t] became.
Follows(f, t) == points'[f[t]] = f'[t] /\ user'[f'[t]] # None

\* A thread changes its owner only from a visitor to the user this visitor
\* became, in the database and in Parlant alike.
MovesOnlyToItsUser ==
  [][\A t \in Threads : owner[t] # None =>
       /\ owner'[t] # owner[t] => Follows(owner, t)
       /\ session'[t] # session[t] => Follows(session, t)]_vars

\* However a run was interrupted, the two stores are at most one move of
\* this kind apart, and Parlant is ahead: "if the local write fails, the next
\* call repairs it".
Repairable ==
  \A t \in Threads : owner[t] # None =>
    \/ session[t] = owner[t]
    \/ points[owner[t]] = session[t] /\ user[session[t]] # None

\* The identity i may use the thread, as things stand.
Entitled(t, i) ==
  LET b == Stored(i.visitor)
  IN CASE i.status = "anonymous" ->
            IF i.visitor \in known THEN b.user = None /\ owner[t] \in {None, b.customer}
                                   ELSE owner[t] = None
       [] i.status = "authenticated" ->
            IF i.visitor \in known THEN /\ b.user \in {None, i.user}
                                        /\ owner[t] \in {None, b.customer, i.visitor}
                                   ELSE owner[t] = None
       [] i.status = "unavailable" -> i.visitor \in known /\ owner[t] = b.customer

\* Who is entitled to a thread is not refused by any of the four checks,
\* whatever was interrupted before, unless its identity changed under the run.
\* A run that loses the race for its rows, in Allocate, BindRead or
\* BindConflict, is not refused by these.
EntitledGetIn ==
  [][\A t \in Threads : Refusal(t) =>
       \/ ~Entitled(t, who[t])
       \/ mine[t] # None /\ mine[t] # Stored(who[t].visitor)]_vars

-----------------------------------------------------------------------------
(* Why the invariants hold: what OwnershipProofs needs besides them.       *)

\* A visitor leaves its own row for the row of a user, whose visitor stays;
\* the row lock keeps what bind_saleor_user has read until it commits.
RowsOK ==
  /\ \A v \in Visitors : user[points[v]] = None => points[v] = v
  /\ \A v \in Visitors : user[v] # None => points[v] = v
  /\ \A v \in Visitors \ known : user[v] = None /\ points[v] = v
  /\ \A t \in Threads : pc[t] = "flush" => user[points[who[t].visitor]] = None
  /\ \A s, t \in Threads :
       pc[s] = "flush" /\ pc[t] = "flush" /\ who[s].visitor = who[t].visitor => s = t

\* A binding that a run holds is still what is stored, unless it was that of
\* an anonymous visitor.
RunsOK == \A t \in Threads :
  /\ pc[t] # "idle" <=> who[t] # None
  /\ pc[t] \in {"bind", "flush", "move", "save", "relabel"} => who[t].status = "authenticated"
  /\ pc[t] \notin {"idle", "resolving", "allocate"} => mine[t] # None
  /\ mine[t] # None =>
       /\ who[t] # None /\ who[t].visitor \in known
       /\ IF mine[t].user = None THEN mine[t].customer = who[t].visitor
                                 ELSE mine[t] = Stored(who[t].visitor)
       /\ pc[t] \notin {"bind", "flush"} /\ who[t].status = "authenticated" =>
            mine[t].user = who[t].user
  /\ target[t] # None =>
       /\ who[t] # None /\ who[t].user # None
       /\ target[t] \in known /\ user[target[t]] = who[t].user

\* What a run knows of its thread at each point.
ThreadsOK == \A t \in Threads :
  /\ owner[t] # None => session[t] # None /\ owner[t] \in customers
  /\ who[t] # None /\ who[t].status = "authenticated" /\ owner[t] # None =>
       /\ pc[t] # "allocate"
       /\ mine[t] # None => owner[t] \in {mine[t].customer, who[t].visitor}
  /\ pc[t] \in {"move", "save", "reconcile", "relabel"} => owner[t] # None
  /\ pc[t] \in {"open", "store"} => owner[t] = None /\ who[t].status # "unavailable"
  /\ pc[t] \in {"move", "save", "check", "open", "store", "reconcile", "relabel"} =>
       who[t].status = "unavailable" \/ mine[t].customer \in customers
  /\ pc[t] \in {"save", "store", "relabel"} => session[t] = mine[t].customer

\* The inductive invariant: the properties with what they rest on.
IndInv == /\ TypeOK /\ RowsOK /\ RunsOK /\ ThreadsOK
          /\ OneCustomerPerUser /\ AdmittedOwns /\ Repairable

=============================================================================
