---------------------------- MODULE MCDispatcher ----------------------------
(* Receipts for the runs of Dispatcher. *)
EXTENDS Dispatcher, TLC

Upd(kind, base, version, wellFormed) ==
  [kind |-> kind, base |-> base, version |-> version, wellFormed |-> wellFormed]

Receipt(i, status, stated, upd) ==
  [id |-> i, status |-> status, stated |-> stated, update |-> upd]

\* Receipts of several tools that race for the same revisions, and one whose
\* state is malformed.
StateRequests == UNION {
  {Receipt(i, "success", 1, Upd("snapshot", 0, 1, TRUE)),
   Receipt(i, "success", 1, Upd("snapshot", 0, 1, FALSE)),
   Receipt(i, "success", 2, Upd("delta", 1, 2, TRUE))} : i \in Ids}

\* A receipt with state, one of a failure and a malformed one for one call of
\* a run that may have another.
OneCallsRequests ==
  LET i == CHOOSE j \in Ids : TRUE
  IN  {Receipt(i, "error", 0, None), Receipt(i, "timeout", 0, None),
       Receipt(i, "success", 1, Upd("snapshot", 0, 1, TRUE))}

Symmetry == Permutations(Tools) \cup Permutations(Ids) \cup Permutations(Resolvers)
=============================================================================
