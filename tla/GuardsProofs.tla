---------------------------- MODULE GuardsProofs ----------------------------
(***************************************************************************)
(* Theorems about Guards: a signed request is accepted once, an approval   *)
(* lets one invocation act, every action goes back to an accepted request, *)
(* and the audit log keeps AuditPromise.                                   *)
(***************************************************************************)
EXTENDS Guards, TLAPS

\* A nonce that was consumed in time stays in the table until its request has
\* expired: PurgeExpired does not reach it before.
NonceKept ==
  \A d \in Deliveries : inTime[d] =>
    check[d] = "accepted" /\ (Jti[d] \in nonces \/ now >= ExpiresAt(Jti[d]))

\* Rows, effect and answer follow from where the invocation is.
AuditOK(k) ==
  /\ step[k] = "idle" => verdict[k] = None
  /\ step[k] \in {"idle", "access", "denying", "pending"} => trail[k] = {}
  /\ step[k] \in {"acting", "recording"} => trail[k] = {"pending"}
  /\ step[k] = "recording" =>
       \/ verdict[k] = "success" /\ effect[k]
       \/ verdict[k] = "failure" /\ surface[k] = "frontend"
       \/ verdict[k] = "answered" /\ surface[k] = "agent"
  /\ step[k] = "failing" => trail[k] \subseteq {"pending"}
  /\ step[k] # "over" => reply[k] = "none"
  /\ verdict[k] \in {"failure", "answered", "abandoned"} \/ effect[k] => "pending" \in trail[k]

\* The invocation got past the consumption of its approval.
Passed(k) == step[k] \in {"pending", "acting", "recording", "failing"} \/ Acted(k)

Exclusive ==
  \A j, k \in Invocations : wants[k] # None /\ Passed(k) =>
    /\ wants[k] \in spent
    /\ wants[j] = wants[k] /\ Passed(j) => j = k

\* Every invocation on the browser's or the agent's surface has its origin.
Signed(k) ==
  step[k] # "idle" /\ surface[k] \in {"frontend", "agent"} =>
    /\ origin[k] \in Deliveries /\ check[origin[k]] = "accepted"
    /\ wants[k] # None => wants[k] \in Carries[origin[k]]

AuditInv == (\A k \in Invocations : AuditOK(k)) /\ Exclusive

IndInv == /\ TypeOK /\ NonceKept /\ NonceOnce /\ AuditInv
          /\ \A k \in Invocations : Signed(k)

-----------------------------------------------------------------------------
(* Steps.                                                                  *)

\* What a step of invocation k leaves alone.
Others(k) ==
  /\ \A j \in Invocations \ {k} :
       /\ step'[j] = step[j] /\ wants'[j] = wants[j] /\ surface'[j] = surface[j]
       /\ verdict'[j] = verdict[j] /\ trail'[j] = trail[j]
       /\ effect'[j] = effect[j] /\ reply'[j] = reply[j]
  /\ spent \subseteq spent'

AuditStep(k) ==
  \/ \E s \in Surfaces, a \in Approvals \cup {None} : Invoke(k, s, a)
  \/ Access(k) \/ AccessFails(k) \/ Recorded(k) \/ RecordFails(k)
  \/ Happen(k) \/ Returns(k) \/ Raises(k) \/ Cancel(k)

\* The types of what the invocations change.
AuditTypes ==
  /\ surface \in [Invocations -> Surfaces \cup {None}]
  /\ wants \in [Invocations -> Approvals \cup {None}]
  /\ step \in [Invocations -> {"idle", "access", "acting", "over"} \cup Recording]
  /\ verdict \in [Invocations -> {"success", "failure", "answered", "abandoned", None}]
  /\ spent \subseteq Approvals
  /\ trail \in [Invocations -> SUBSET {"denied", "pending", "success", "failure"}]
  /\ effect \in [Invocations -> BOOLEAN]
  /\ reply \in [Invocations -> {"none", "ok", "unknown", "failed", "error"}]

\* A step of an invocation keeps the types.
LEMMA StepTypes ==
  ASSUME AuditTypes, NEW k \in Invocations, AuditStep(k), AuditOK(k)
  PROVE  AuditTypes'
<1> USE DEF AuditTypes, Recording, promised, Go, Tell
<1>1. ASSUME NEW s \in Surfaces, NEW a \in Approvals \cup {None}, Invoke(k, s, a)
      PROVE  AuditTypes'
  BY <1>1 DEF Invoke
<1>2. CASE Access(k)
  BY <1>2 DEF Access
<1>3. CASE AccessFails(k)
  BY <1>3 DEF AccessFails, Raised
<1>4. CASE Recorded(k)
  BY <1>4 DEF Recorded, Append, Row, Raised, AuditOK
<1>5. CASE RecordFails(k)
  BY <1>5 DEF RecordFails, Append, Row, Unrecorded, Raised, AuditOK
<1>6. CASE Happen(k)
  BY <1>6 DEF Happen
<1>7. CASE Returns(k)
  BY <1>7 DEF Returns, BrowserFails
<1>8. CASE Raises(k)
  BY <1>8 DEF Raises
<1>9. CASE Cancel(k)
  BY <1>9 DEF Cancel, Append, Row, AuditOK
<1>10. QED
  BY <1>1, <1>2, <1>3, <1>4, <1>5, <1>6, <1>7, <1>8, <1>9 DEF AuditStep

\* A step of an invocation leaves the others alone and takes no approval back.
LEMMA StepOthers ==
  ASSUME AuditTypes, NEW k \in Invocations, AuditStep(k)
  PROVE  Others(k)
<1> USE DEF AuditTypes, Others, promised, Go, Tell
<1>1. ASSUME NEW s \in Surfaces, NEW a \in Approvals \cup {None}, Invoke(k, s, a)
      PROVE  Others(k)
  BY <1>1 DEF Invoke
<1>2. CASE Access(k)
  BY <1>2 DEF Access
<1>3. CASE AccessFails(k)
  BY <1>3 DEF AccessFails
<1>4. CASE Recorded(k)
  BY <1>4 DEF Recorded, Append
<1>5. CASE RecordFails(k)
  BY <1>5 DEF RecordFails, Append, Unrecorded
<1>6. CASE Happen(k)
  BY <1>6 DEF Happen
<1>7. CASE Returns(k)
  BY <1>7 DEF Returns, BrowserFails
<1>8. CASE Raises(k)
  BY <1>8 DEF Raises
<1>9. CASE Cancel(k)
  BY <1>9 DEF Cancel, Append
<1>10. QED
  BY <1>1, <1>2, <1>3, <1>4, <1>5, <1>6, <1>7, <1>8, <1>9 DEF AuditStep

\* A step keeps what is known of the invocation that takes it.
LEMMA StepOwn ==
  ASSUME AuditTypes, NEW k \in Invocations, AuditStep(k), AuditOK(k)
  PROVE  AuditOK(k)'
<1> USE DEF AuditTypes, AuditOK, promised, Go, Tell
<1>1. ASSUME NEW s \in Surfaces, NEW a \in Approvals \cup {None}, Invoke(k, s, a)
      PROVE  AuditOK(k)'
  BY <1>1 DEF Invoke
<1>2. CASE Access(k)
  BY <1>2 DEF Access
<1>3. CASE AccessFails(k)
  BY <1>3 DEF AccessFails
<1>4. CASE Recorded(k)
  BY <1>4 DEF Recorded, Append, Row, Recording
<1>5. CASE RecordFails(k)
  BY <1>5 DEF RecordFails, Append, Row, Unrecorded, Recording
<1>6. CASE Happen(k)
  BY <1>6 DEF Happen
<1>7. CASE Returns(k)
  BY <1>7 DEF Returns, BrowserFails
<1>8. CASE Raises(k)
  BY <1>8 DEF Raises
<1>9. CASE Cancel(k)
  BY <1>9 DEF Cancel, Append, Row, Recording
<1>10. QED
  BY <1>1, <1>2, <1>3, <1>4, <1>5, <1>6, <1>7, <1>8, <1>9 DEF AuditStep

\* Only Access lets an invocation pass, and only if nobody spent its approval.
LEMMA StepPasses ==
  ASSUME AuditTypes, NEW k \in Invocations, AuditStep(k), AuditOK(k)
  PROVE  /\ Passed(k)' => \/ Passed(k) /\ wants'[k] = wants[k]
                          \/ /\ wants'[k] = wants[k]
                             /\ wants[k] # None => wants[k] \notin spent /\ wants[k] \in spent'
<1> USE DEF AuditTypes, AuditOK, promised, Go, Tell, Passed, Acted
<1>1. ASSUME NEW s \in Surfaces, NEW a \in Approvals \cup {None}, Invoke(k, s, a)
      PROVE  ~Passed(k)'
  BY <1>1 DEF Invoke
<1>2. CASE Access(k)
  BY <1>2 DEF Access, Consumable
<1>3. CASE AccessFails(k)
  BY <1>3 DEF AccessFails
<1>4. CASE Recorded(k)
  BY <1>4 DEF Recorded, Append, Row, Recording
<1>5. CASE RecordFails(k)
  BY <1>5 DEF RecordFails, Append, Row, Unrecorded, Recording
<1>6. CASE Happen(k)
  BY <1>6 DEF Happen
<1>7. CASE Returns(k)
  BY <1>7 DEF Returns, BrowserFails
<1>8. CASE Raises(k)
  BY <1>8 DEF Raises
<1>9. CASE Cancel(k)
  BY <1>9 DEF Cancel, Append, Row, Recording
<1>10. QED
  BY <1>1, <1>2, <1>3, <1>4, <1>5, <1>6, <1>7, <1>8, <1>9 DEF AuditStep

\* A step of an invocation keeps the invariant of all of them.
LEMMA StepKeepsAudit ==
  ASSUME AuditTypes, AuditInv, NEW k \in Invocations, AuditStep(k)
  PROVE  AuditInv'
<1>1. AuditOK(k) /\ Others(k) /\ AuditOK(k)'
  BY StepOthers, StepOwn DEF AuditInv
<1>2. ASSUME NEW j \in Invocations PROVE AuditOK(j)'
  <2>1. CASE j = k
    BY <1>1, <2>1
  <2>2. CASE j # k
    BY <1>1, <2>2 DEF Others, AuditOK, AuditInv
  <2>3. QED
    BY <2>1, <2>2
<1>3. \A j \in Invocations \ {k} : (Passed(j)' <=> Passed(j)) /\ wants'[j] = wants[j]
  BY <1>1 DEF Others, Passed, Acted
<1>4. Exclusive'
  BY <1>1, <1>3, StepPasses DEF Others, Exclusive, AuditInv
<1>5. QED
  BY <1>2, <1>4 DEF AuditInv

\* The end of the process leaves what happened and what was spent.
LEMMA CrashKeepsAudit ==
  ASSUME AuditTypes, AuditInv, Crash
  PROVE  AuditInv' /\ AuditTypes'
<1>1. \A k \in Invocations :
        /\ step'[k] = IF step[k] = "idle" THEN "idle" ELSE "over"
        /\ verdict'[k] = IF step[k] = "acting" THEN "abandoned" ELSE verdict[k]
  BY DEF Crash
<1>2. AuditTypes'
  BY DEF AuditTypes, Crash, promised, Recording
<1>3. ASSUME NEW k \in Invocations PROVE AuditOK(k)'
  BY <1>1 DEF AuditInv, AuditOK, Crash, promised
<1>4. \A k \in Invocations : Passed(k)' => Passed(k)
  BY <1>1 DEF Crash, promised, Passed, Acted
<1>5. Exclusive'
  BY <1>4 DEF AuditInv, Exclusive, Crash
<1>6. QED
  BY <1>2, <1>3, <1>5 DEF AuditInv

\* A step of the verification keeps a nonce once.
LEMMA NonceStep ==
  ASSUME TypeOK, NonceKept, NonceOnce, NonceNext, UNCHANGED <<auditVars, origin>>
  PROVE  /\ TypeOK' /\ NonceKept' /\ NonceOnce'
         /\ \A d \in Deliveries : check[d] = "accepted" => check'[d] = "accepted"
<1>1. /\ \A d \in Deliveries : Jti[d] \in Nonces
      /\ \A n \in Nonces : ExpiresAt(n) \in Nat
  BY NonceAssumption DEF ExpiresAt
<1> USE DEF ExpiresAt
<1> DEFINE Results == {"arriving", "consuming", "accepted", "rejected", "replay", "failed"}
           Types == /\ now \in 0 .. MaxTime /\ nonces \subseteq Nonces
                    /\ check \in [Deliveries -> Results] /\ inTime \in [Deliveries -> BOOLEAN]
<1>2. Types /\ now \in Nat
  BY NonceAssumption DEF TypeOK
<1>3. ASSUME Tick PROVE Types' /\ NonceKept' /\ NonceOnce' /\ check' = check
  <2>1. now' = now + 1 /\ now' \in 0 .. MaxTime /\ UNCHANGED <<nonces, check, inTime>>
    BY <1>2, <1>3, NonceAssumption DEF Tick
  <2>2. Types'
    BY <1>2, <2>1
  <2>3. NonceKept' /\ NonceOnce'
    BY <1>1, <1>2, <2>1 DEF NonceKept, NonceOnce
  <2>4. QED
    BY <2>1, <2>2, <2>3
<1>4. ASSUME PurgeExpired PROVE Types' /\ NonceKept' /\ NonceOnce' /\ check' = check
  <2>1. Types'
    BY <1>2, <1>4 DEF PurgeExpired
  <2>2. NonceKept' /\ NonceOnce'
    BY <1>1, <1>2, <1>4 DEF PurgeExpired, NonceKept, NonceOnce
  <2>3. QED
    BY <1>4, <2>1, <2>2 DEF PurgeExpired
<1>5. ASSUME NEW d \in Deliveries, CheckClaims(d)
      PROVE  /\ Types' /\ NonceKept' /\ NonceOnce'
             /\ \A e \in Deliveries : check[e] = "accepted" => check'[e] = "accepted"
  BY <1>2, <1>5 DEF CheckClaims, NonceKept, NonceOnce
<1>6. ASSUME NEW d \in Deliveries, ConsumeFails(d)
      PROVE  /\ Types' /\ NonceKept' /\ NonceOnce'
             /\ \A e \in Deliveries : check[e] = "accepted" => check'[e] = "accepted"
  BY <1>1, <1>2, <1>6 DEF ConsumeFails, NonceKept, NonceOnce
<1>7. ASSUME NEW d \in Deliveries, ConsumeOnce(d)
      PROVE  /\ Types' /\ NonceKept' /\ NonceOnce'
             /\ \A e \in Deliveries : check[e] = "accepted" => check'[e] = "accepted"
  <2>1. CASE Unused(Jti[d])
    <3>1. /\ inTime' = [inTime EXCEPT ![d] = Valid(Jti[d])]
          /\ check' = [check EXCEPT ![d] = "accepted"]
          /\ nonces' = nonces \cup {Jti[d]} /\ now' = now
      BY <1>7, <2>1 DEF ConsumeOnce
    <3>2. \* An earlier acceptance would still have its row, or be expired.
          ASSUME Valid(Jti[d]), NEW e \in Deliveries, inTime[e]
          PROVE  Jti[e] # Jti[d]
      BY <1>1, <1>2, <2>1, <3>2 DEF Unused, Valid, NonceKept
    <3>3. Valid(Jti[d]) \in BOOLEAN
      BY DEF Valid
    <3>4. Types'
      BY <1>1, <1>2, <3>1, <3>3
    <3>5. NonceKept'
      BY <1>2, <3>1, <3>3 DEF NonceKept
    <3>6. NonceOnce'
      BY <1>2, <3>1, <3>2, <3>3 DEF NonceOnce
    <3>7. QED
      BY <1>2, <3>1, <3>4, <3>5, <3>6
  <2>2. CASE ~Unused(Jti[d])
    BY <1>1, <1>2, <1>7, <2>2 DEF ConsumeOnce, NonceKept, NonceOnce
  <2>3. QED
    BY <2>1, <2>2
<1>8. Types' => TypeOK'
  BY DEF TypeOK, auditVars, promised
<1>9. QED
  BY <1>3, <1>4, <1>5, <1>6, <1>7, <1>8 DEF NonceNext

\* The beginning of an invocation or one of its steps.
LEMMA InvocationStep ==
  ASSUME IndInv, NEW k \in Invocations, Begin(k) \/ Progress(k)
  PROVE  IndInv'
<1>1. AuditStep(k) /\ UNCHANGED nonceVars
  <2>1. \A d \in Deliveries : Carries[d] \subseteq Approvals
    BY NonceAssumption, GuardsAssumption
  <2>2. QED
    BY <2>1 DEF Begin, Progress, AuditStep, Surfaces
<1>2. AuditTypes /\ AuditInv /\ AuditOK(k)
  BY DEF IndInv, TypeOK, AuditTypes, AuditInv
<1>3. AuditTypes' /\ AuditInv' /\ Others(k)
  BY <1>1, <1>2, StepTypes, StepKeepsAudit, StepOthers
<1>4. origin' \in [Invocations -> Deliveries \cup {None}]
  BY DEF IndInv, TypeOK, Begin, Progress
<1>5. TypeOK'
  BY <1>1, <1>3, <1>4 DEF IndInv, TypeOK, AuditTypes, nonceVars
<1>6. NonceKept' /\ NonceOnce'
  BY <1>1 DEF IndInv, NonceKept, NonceOnce, nonceVars
<1>7. ASSUME NEW j \in Invocations PROVE Signed(j)'
  <2>1. CASE j # k
    <3>1. origin'[j] = origin[j]
      BY <2>1 DEF Begin, Progress, IndInv, TypeOK
    <3>2. QED
      BY <1>1, <1>3, <2>1, <3>1 DEF Others, Signed, IndInv, nonceVars
  <2>2. CASE j = k /\ Progress(k)
    <3>1. step[k] # "idle" /\ surface'[k] = surface[k] /\ wants'[k] = wants[k]
      BY <1>2, <2>2 DEF Progress, Access, AccessFails, Recorded, RecordFails, Happen,
         Returns, Raises, Cancel, AuditOK, Recording
    <3>2. QED
      BY <2>2, <3>1 DEF Progress, Signed, IndInv, nonceVars
  <2>3. CASE j = k /\ Begin(k)
    <3>1. ASSUME NEW d \in Deliveries, NEW s \in {"frontend", "agent"},
                 NEW a \in Carries[d] \cup {None}, Admitted(d), Invoke(k, s, a),
                 origin' = [origin EXCEPT ![k] = d]
          PROVE  Signed(k)'
      BY <1>1, <3>1 DEF Admitted, Invoke, Signed, IndInv, TypeOK, nonceVars
    <3>2. ASSUME Invoke(k, "admin", None) PROVE Signed(k)'
      BY <3>2 DEF Invoke, Signed, IndInv, TypeOK
    <3>3. QED
      BY <2>3, <3>1, <3>2 DEF Begin
  <2>4. QED
    BY <2>1, <2>2, <2>3
<1>8. QED
  BY <1>3, <1>5, <1>6, <1>7 DEF IndInv

\* The invariant is inductive.
LEMMA Inductive ==
  ASSUME IndInv, [Next]_vars
  PROVE  IndInv'
<1>1. CASE NonceNext /\ UNCHANGED <<auditVars, origin>>
  <2>1. /\ TypeOK' /\ NonceKept' /\ NonceOnce'
        /\ \A d \in Deliveries : check[d] = "accepted" => check'[d] = "accepted"
    BY <1>1, NonceStep DEF IndInv
  <2>2. AuditInv'
    BY <1>1 DEF IndInv, AuditInv, AuditOK, Exclusive, Passed, Acted, auditVars, promised
  <2>3. \A k \in Invocations : Signed(k)'
    BY <1>1, <2>1 DEF IndInv, Signed, auditVars
  <2>4. QED
    BY <2>1, <2>2, <2>3 DEF IndInv
<1>2. ASSUME NEW k \in Invocations, Begin(k) \/ Progress(k) PROVE IndInv'
  BY <1>2, InvocationStep
<1>3. CASE Stop
  <2>1. AuditInv' /\ AuditTypes'
    BY <1>3, CrashKeepsAudit DEF Stop, IndInv, TypeOK, AuditTypes
  <2>2. /\ \A d \in Deliveries : check[d] = "accepted" <=> check'[d] = "accepted"
        /\ UNCHANGED <<now, nonces, inTime, origin, surface, wants>>
        /\ \A k \in Invocations : step'[k] # "idle" => step[k] # "idle"
    BY <1>3 DEF Stop, Crash
  <2>3. TypeOK'
    BY <1>3, <2>1, <2>2 DEF Stop, IndInv, TypeOK, AuditTypes
  <2>4. NonceKept' /\ NonceOnce'
    BY <2>2 DEF IndInv, NonceKept, NonceOnce
  <2>5. \A k \in Invocations : Signed(k)'
    BY <2>2 DEF IndInv, Signed
  <2>6. QED
    BY <2>1, <2>3, <2>4, <2>5 DEF IndInv
<1>4. CASE UNCHANGED vars
  BY <1>4 DEF vars, nonceVars, auditVars, promised, IndInv, TypeOK, NonceKept, NonceOnce,
     AuditInv, AuditOK, Exclusive, Passed, Acted, Signed
<1>5. QED
  BY <1>1, <1>2, <1>3, <1>4 DEF Next

\* The invariant holds at the start.
LEMMA Initially ==
  ASSUME Init
  PROVE  IndInv
<1>1. TypeOK
  BY NonceAssumption DEF Init, NonceInit, AuditInit, TypeOK
<1>2. NonceKept /\ NonceOnce
  BY DEF Init, NonceInit, NonceKept, NonceOnce
<1>3. \A k \in Invocations : AuditOK(k) /\ ~Passed(k) /\ Signed(k)
  BY AuditAssumption DEF Init, AuditInit, AuditOK, Passed, Acted, Signed
<1>4. QED
  BY <1>1, <1>2, <1>3 DEF IndInv, AuditInv, Exclusive

\* Every step of an invocation is one the audit promise allows.
LEMMA StepKeepsPromise ==
  ASSUME AuditTypes, NEW k \in Invocations, AuditStep(k), AuditOK(k), Exclusive
  PROVE  [Promise!Next]_promised
<1> USE DEF AuditTypes, promised, Go, Tell
<1> DEFINE Allowed == Promise!Report(k) \/ Promise!Happen(k) \/ UNCHANGED promised
<1> SUFFICES Allowed
  BY DEF Promise!Next
<1>1. ASSUME NEW s \in Surfaces, NEW a \in Approvals \cup {None}, Invoke(k, s, a)
      PROVE  Allowed
  BY <1>1 DEF Invoke
<1>2. CASE Access(k)
  BY <1>2 DEF Access
<1>3. CASE AccessFails(k)
  BY <1>3 DEF AccessFails, AuditOK, Raised, Promise!Report, Promise!Answer
<1>4. CASE Recorded(k)
  <2>1. Promise!Write(k, Row(k)) /\ Row(k) \in {"denied", "pending", "success", "failure"}
    BY <1>4 DEF Recorded, Append, Row, AuditOK, Recording, Promise!Write
  <2>2. \/ UNCHANGED reply
        \/ \E r \in {"ok", "unknown", "failed", "error"} : Promise!Answer(k, r)
    BY <1>4 DEF Recorded, Append, Row, Raised, AuditOK, Recording, Promise!Answer
  <2>3. QED
    BY <1>4, <2>1, <2>2 DEF Recorded, Promise!Report
<1>5. CASE RecordFails(k)
  <2>1. \/ UNCHANGED trail
        \/ Promise!Write(k, Row(k)) /\ Row(k) \in {"denied", "pending", "success", "failure"}
    BY <1>5 DEF RecordFails, Append, Row, AuditOK, Recording, Promise!Write
  <2>2. \/ UNCHANGED reply
        \/ \E r \in {"ok", "unknown", "failed", "error"} : Promise!Answer(k, r)
    BY <1>5 DEF RecordFails, Append, Row, Unrecorded, Raised, AuditOK, Recording, Promise!Answer
  <2>3. QED
    BY <1>5, <2>1, <2>2 DEF RecordFails, Promise!Report
<1>6. CASE Happen(k)
  BY <1>6 DEF Happen, AuditOK, Promise!Happen
<1>7. CASE Returns(k)
  BY <1>7 DEF Returns, BrowserFails
<1>8. CASE Raises(k)
  BY <1>8 DEF Raises
<1>9. CASE Cancel(k)
  BY <1>9 DEF Cancel, Append, Row, AuditOK, Recording, Promise!Report, Promise!Write
<1>10. QED
  BY <1>1, <1>2, <1>3, <1>4, <1>5, <1>6, <1>7, <1>8, <1>9 DEF AuditStep

-----------------------------------------------------------------------------
(* Theorems.                                                               *)

\* The inductive invariant of nonces, approvals, rows and origins holds in
\* every reachable state.
THEOREM InductiveInvariant == Spec => []IndInv
<1>1. Init => IndInv
  BY Initially
<1>2. IndInv /\ [Next]_vars => IndInv'
  BY Inductive
<1>3. QED
  BY <1>1, <1>2, PTL DEF Spec

\* Every variable keeps its type.
THEOREM TypeCorrect == Spec => []TypeOK
<1>1. IndInv => TypeOK
  BY DEF IndInv
<1>2. QED
  BY <1>1, InductiveInvariant, PTL

\* StorefrontBffVerifier.verify accepts a signed request once while its claims
\* are valid, whatever deliveries, failures and purge_expired do between.
THEOREM NonceIsUsedOnce == Spec => []NonceOnce
<1>1. IndInv => NonceOnce
  BY DEF IndInv
<1>2. QED
  BY <1>1, InductiveInvariant, PTL

\* One approval lets one invocation of FrontendToolAuthorizationPolicy reach
\* the action it protects.
THEOREM ApprovalIsUsedOnce == Spec => []ApprovalOnce
<1>1. IndInv => ApprovalOnce
  BY DEF IndInv, AuditInv, Exclusive, ApprovalOnce, Passed
<1>2. QED
  BY <1>1, InductiveInvariant, PTL

\* What the browser's or the agent's tools did, or tried, goes back to an
\* accepted request, which carried the approval that was spent.
THEOREM ActionsAreSigned == Spec => []EveryActionSigned
<1>1. IndInv => EveryActionSigned
  BY GuardsAssumption DEF IndInv, AuditInv, AuditOK, TypeOK, Signed, EveryActionSigned
<1>2. QED
  BY <1>1, InductiveInvariant, PTL

\* The audit log of the three surfaces implements AuditPromise: no action
\* without a record of the intent, one outcome, nobody told of a success that
\* did not happen or is not recorded, and on the browser's and the
\* administrators' surface no recorded success without the action.
THEOREM TrailIsKept == Spec => KeepsTrail
<1>1. Init => Promise!Init
  BY DEF Init, AuditInit, Promise!Init
<1>2. IndInv /\ [Next]_vars => [Promise!Next]_promised
  <2> SUFFICES ASSUME IndInv, [Next]_vars PROVE [Promise!Next]_promised
    OBVIOUS
  <2>1. AuditTypes /\ AuditInv
    BY DEF IndInv, TypeOK, AuditTypes
  <2>2. ASSUME NEW k \in Invocations, Begin(k) \/ Progress(k)
        PROVE  [Promise!Next]_promised
    <3>1. AuditStep(k)
      <4>1. \A d \in Deliveries : Carries[d] \subseteq Approvals
        BY NonceAssumption, GuardsAssumption
      <4>2. QED
        BY <2>2, <4>1 DEF Begin, Progress, AuditStep, Surfaces
    <3>2. QED
      BY <2>1, <3>1, StepKeepsPromise DEF AuditInv
  <2>3. CASE Stop
    BY <2>3 DEF Stop, Crash
  <2>4. CASE (NonceNext /\ UNCHANGED <<auditVars, origin>>) \/ UNCHANGED vars
    BY <2>4 DEF vars, auditVars, promised
  <2>5. QED
    BY <2>2, <2>3, <2>4 DEF Next
<1>3. QED
  BY <1>1, <1>2, InductiveInvariant, PTL DEF Spec, KeepsTrail, Promise!Spec, Promise!vars,
     promised
=============================================================================
