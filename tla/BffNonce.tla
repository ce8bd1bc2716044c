------------------------------ MODULE BffNonce ------------------------------
(***************************************************************************)
(* Single use of a signed request of the storefront's backend:             *)
(* StorefrontBffVerifier.verify over SqlBffNonceRepository.  A request may *)
(* be delivered several times, to several workers.  The claims are checked *)
(* against the clock in one step; the nonce is inserted after an await, in *)
(* one statement of the database, and the database may fail before or      *)
(* after it.  purge_expired is the maintenance of the table.               *)
(***************************************************************************)
EXTENDS Naturals

CONSTANTS Deliveries,  \* requests that reach a worker
          Nonces,      \* jti of the signed requests
          Jti,         \* which signed request a delivery is
          Iat, Exp,    \* their claims
          ClockSkew,   \* clock_skew
          MaxTime      \* bound: the clock stops here

ASSUME NonceAssumption ==
  /\ Jti \in [Deliveries -> Nonces]
  /\ Iat \in [Nonces -> Nat] /\ Exp \in [Nonces -> Nat]
  /\ ClockSkew \in Nat /\ MaxTime \in Nat

VARIABLES now,      \* the clock of the service
          nonces,   \* rows of the nonce table, by jti
          check,    \* where verify() of a delivery is
          inTime    \* its nonce was inserted while the request was valid

nonceVars == <<now, nonces, check, inTime>>

NonceInit ==
  /\ now = 0 /\ nonces = {}
  /\ check = [d \in Deliveries |-> "arriving"]
  /\ inTime = [d \in Deliveries |-> FALSE]

Tick == now < MaxTime /\ now' = now + 1 /\ UNCHANGED <<nonces, check, inTime>>

\* Slip: the row may go at the end of the claims, without the skew.
ExpiresAtClaim(n) == Exp[n]

\* expires_at of the row.
ExpiresAt(n) == Exp[n] + ClockSkew

Valid(n) == Iat[n] <= now + ClockSkew /\ now < Exp[n] + ClockSkew

\* verify: the claims, up to the await of consume_once.
CheckClaims(d) ==
  /\ check[d] = "arriving"
  /\ check' = [check EXCEPT ![d] = IF Valid(Jti[d]) THEN "consuming" ELSE "rejected"]
  /\ UNCHANGED <<now, nonces, inTime>>

Unused(n) == n \notin nonces

\* consume_once: the insert does nothing on a conflict, which is a replay.
ConsumeOnce(d) ==
  LET n == Jti[d]
  IN /\ check[d] = "consuming"
     /\ nonces' = nonces \cup {n}
     /\ IF Unused(n)
        THEN /\ check' = [check EXCEPT ![d] = "accepted"]
             /\ inTime' = [inTime EXCEPT ![d] = Valid(n)]
        ELSE check' = [check EXCEPT ![d] = "replay"] /\ UNCHANGED inTime
     /\ UNCHANGED now

\* The database fails, or the request is cancelled; the row may be there.
ConsumeFails(d) ==
  /\ check[d] = "consuming"
  /\ nonces' \in {nonces, nonces \cup {Jti[d]}}
  /\ check' = [check EXCEPT ![d] = "failed"]
  /\ UNCHANGED <<now, inTime>>

PurgeExpired ==
  /\ nonces' = {n \in nonces : ExpiresAt(n) > now}
  /\ UNCHANGED <<now, check, inTime>>

NonceNext ==
  \/ Tick \/ PurgeExpired
  \/ \E d \in Deliveries : CheckClaims(d) \/ ConsumeOnce(d) \/ ConsumeFails(d)

\* A signed request is accepted at most once as long as its claims are valid,
\* whatever the deliveries, the database's failures and the purge of expired
\* rows do.  (A delivery that stalls between the check of its claims and its
\* insert until after the purge is accepted again: nothing checks the claims
\* a second time.)
NonceOnce ==
  \A d, e \in Deliveries :
    Jti[d] = Jti[e] /\ inTime[d] /\ inTime[e] => d = e
=============================================================================
