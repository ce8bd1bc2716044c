----------------------------- MODULE RagAnswer ------------------------------
(***************************************************************************)
(* RagClient._answer: how an answer of the knowledge hub is cut down to    *)
(* max_payload_bytes.  An answer counts its bytes: a text of len           *)
(* characters of equal width, equal sources, and the bytes of all metadata *)
(* and of the collection's name.                                           *)
(***************************************************************************)
EXTENDS Naturals

CONSTANTS Payloads,    \* answers the hub gives
          MaxBytes,    \* max_payload_bytes
          Keep,        \* characters of text worth more than a source: 256
          MaxSources,  \* longest list that _bounded leaves: 100
          Base,        \* bytes of an empty answer
          SourceBytes  \* bytes of a source without its metadata

Answers == [len : Nat, width : Nat, sources : Nat, meta : Nat, collection : Nat,
            truncated : BOOLEAN]

ASSUME AnswerAssumption ==
  /\ Payloads \subseteq Answers
  /\ MaxBytes \in Nat /\ Keep \in Nat /\ MaxSources \in Nat
  /\ Base \in Nat /\ SourceBytes \in Nat

Size(a) == Base + a.len * a.width + a.sources * SourceBytes + a.meta + a.collection

TooBig(a) == Size(a) > MaxBytes

Least(m, n) == IF m <= n THEN m ELSE n

\* _bounded: a string and a list have their first part left.
Bounded(p) == [p EXCEPT !.len = Least(p.len, MaxBytes),
                        !.sources = Least(p.sources, MaxSources)]

\* Slip: what _bounded left out is not noted.
FlaggedIfBig(p) == p.truncated \/ TooBig(p)

Flagged(p) == p.truncated \/ Bounded(p) # p \/ TooBig(p)

\* The answer before the loop.
Shaped(p) == [Bounded(p) EXCEPT !.truncated = Flagged(p)]

\* One turn of the loop: what matters least goes first.
Shrunk(a) ==
  IF a.meta > 0 THEN [a EXCEPT !.truncated = TRUE, !.meta = 0]
  ELSE IF a.len > Keep THEN [a EXCEPT !.truncated = TRUE, !.len = @ \div 2]
  ELSE IF a.sources > 0 THEN [a EXCEPT !.truncated = TRUE, !.sources = @ - 1]
  ELSE IF a.collection > 0 THEN [a EXCEPT !.truncated = TRUE, !.collection = 0]
  ELSE [a EXCEPT !.truncated = TRUE, !.len = @ \div 2]
=============================================================================
