------------------------------- MODULE Guards -------------------------------
(***************************************************************************)
(* From a signed request to a protected action: an invocation on the       *)
(* browser's or the agent's surface belongs to a run, and the run to a     *)
(* delivery that verify() accepted; the approvals it can present are those *)
(* of that delivery's context.  Administrators come another way.           *)
(***************************************************************************)
EXTENDS BffNonce, ToolAudit

\* TrustedStorefrontContext.approvals of a delivery.  The signed claims have no
\* approvals: a confirmation integration outside the repository attaches them.
CONSTANT Carries

ASSUME GuardsAssumption ==
  Carries \in [Deliveries -> SUBSET Approvals] /\ None \notin Deliveries

VARIABLE origin     \* the delivery whose run an invocation belongs to

vars == <<nonceVars, auditVars, origin>>

Init == NonceInit /\ AuditInit /\ origin = [k \in Invocations |-> None]

Admitted(d) == check[d] = "accepted"

Begin(k) ==
  /\ \/ \E d \in Deliveries : \E s \in {"frontend", "agent"}, a \in Carries[d] \cup {None} :
          /\ Admitted(d) /\ Invoke(k, s, a)
          /\ origin' = [origin EXCEPT ![k] = d]
     \/ Invoke(k, "admin", None) /\ UNCHANGED origin
  /\ UNCHANGED nonceVars

Progress(k) ==
  /\ \/ Access(k) \/ AccessFails(k) \/ Recorded(k) \/ RecordFails(k)
     \/ Happen(k) \/ Returns(k) \/ Raises(k) \/ Cancel(k)
  /\ UNCHANGED <<nonceVars, origin>>

\* The process ends: so do the requests it was checking.
Stop ==
  /\ Crash
  /\ check' = [d \in Deliveries |-> IF check[d] = "consuming" THEN "failed" ELSE check[d]]
  /\ UNCHANGED <<now, nonces, inTime, origin>>

Next ==
  \/ NonceNext /\ UNCHANGED <<auditVars, origin>>
  \/ \E k \in Invocations : Begin(k) \/ Progress(k)
  \/ Stop

Spec == Init /\ [][Next]_vars

-----------------------------------------------------------------------------
TypeOK ==
  /\ now \in 0 .. MaxTime /\ nonces \subseteq Nonces
  /\ check \in [Deliveries -> {"arriving", "consuming", "accepted", "rejected",
                               "replay", "failed"}]
  /\ inTime \in [Deliveries -> BOOLEAN]
  /\ origin \in [Invocations -> Deliveries \cup {None}]
  /\ surface \in [Invocations -> Surfaces \cup {None}]
  /\ wants \in [Invocations -> Approvals \cup {None}]
  /\ step \in [Invocations -> {"idle", "access", "acting", "over"} \cup Recording]
  /\ verdict \in [Invocations -> {"success", "failure", "answered", "abandoned", None}]
  /\ spent \subseteq Approvals
  /\ trail \in [Invocations -> SUBSET {"denied", "pending", "success", "failure"}]
  /\ effect \in [Invocations -> BOOLEAN]
  /\ reply \in [Invocations -> {"none", "ok", "unknown", "failed", "error"}]

\* What the browser or the agent of a visitor did goes back to a request the
\* backend signed: an invocation that left a row or an effect there belongs to
\* an accepted delivery, and the approval it spent is one of that delivery.
EveryActionSigned ==
  \A k \in Invocations :
    surface[k] \in {"frontend", "agent"} /\ (trail[k] # {} \/ effect[k]) =>
      /\ origin[k] # None /\ check[origin[k]] = "accepted"
      /\ wants[k] # None => wants[k] \in Carries[origin[k]]
=============================================================================
