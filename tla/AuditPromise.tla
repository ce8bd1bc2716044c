---------------------------- MODULE AuditPromise ----------------------------
(***************************************************************************)
(* What the audit log promises whoever reconciles it with the world: no    *)
(* protected action happens without a durable record of the intent, an     *)
(* invocation has one outcome at most, and the caller is told of a success *)
(* only when the action happened and the log says so.                      *)
(*                                                                         *)
(* The log does not vouch for the outcome on every surface.  Where it does *)
(* success is written only about what happened, and a caller who is told   *)
(* of a failure finds no success in the log.  Where it does not, success   *)
(* says that the invocation came to its end.  ToolAudit implements this    *)
(* specification.                                                          *)
(***************************************************************************)
EXTENDS Naturals

CONSTANT Invocations

VARIABLES vouched, \* the log vouches for the outcome of these invocations
          trail,   \* result_status of the rows of each invocation
          effect,  \* the protected action has happened
          reply    \* what the caller was told, "none" before

vars == <<trail, effect, reply>>

Init == /\ trail = [k \in Invocations |-> {}]
        /\ effect = [k \in Invocations |-> FALSE]
        /\ reply = [k \in Invocations |-> "none"]

Write(k, status) ==
  /\ \/ status \in {"denied", "pending"} /\ trail[k] = {}
     \/ status = "success" /\ trail[k] = {"pending"} /\ (k \in vouched => effect[k])
     \/ status = "failure" /\ trail[k] \subseteq {"pending"}
  /\ trail' = [trail EXCEPT ![k] = @ \cup {status}]

Answer(k, r) ==
  /\ reply[k] = "none"
  /\ \/ r = "ok" /\ effect[k] /\ "success" \in trail'[k]
     \/ r = "unknown" /\ effect[k]
     \/ r = "failed" /\ (k \in vouched => "success" \notin trail'[k])
     \/ r = "error"
  /\ reply' = [reply EXCEPT ![k] = r]

Report(k) ==
  /\ \/ \E s \in {"denied", "pending", "success", "failure"} : Write(k, s)
     \/ UNCHANGED trail
  /\ \/ \E r \in {"ok", "unknown", "failed", "error"} : Answer(k, r)
     \/ UNCHANGED reply
  /\ UNCHANGED effect

\* The action may happen late: after it was reported as a failure.
Happen(k) ==
  /\ "pending" \in trail[k] /\ ~effect[k]
  /\ effect' = [effect EXCEPT ![k] = TRUE]
  /\ UNCHANGED <<trail, reply>>

Next == \E k \in Invocations : Report(k) \/ Happen(k)

Spec == Init /\ [][Next]_vars
=============================================================================
