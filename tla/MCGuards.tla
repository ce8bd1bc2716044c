------------------------------ MODULE MCGuards ------------------------------
(* One signed request, delivered twice with one approval, and two          *)
(* invocations, of one run or of two.  The request is valid before 2, and  *)
(* the clock reaches 2.                                                    *)
EXTENDS Guards, TLC

CONSTANTS d1, d2, k1, k2

MCJti == [d \in Deliveries |-> "jti"]
MCIat == [n \in Nonces |-> 0]
MCExp == [n \in Nonces |-> 1]
MCCarries == [d \in Deliveries |-> Approvals]
Symmetric == Permutations(Deliveries) \cup Permutations(Invocations)
=============================================================================
