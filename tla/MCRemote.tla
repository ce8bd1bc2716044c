------------------------------ MODULE MCRemote ------------------------------
(* The calls to the knowledge hub and to Saleor, which share no state: a   *)
(* behaviour is about one of them, and the other one rests.                *)
(*                                                                         *)
(* Three tasks; a list may be asked for twice.  Of the hub's answers the   *)
(* first fits, the second has a long text and sources, the third more      *)
(* sources than the list may have, the last needs every turn of the loop.  *)
EXTENDS Knowledge, SaleorServices, TLC

CONSTANTS u1, u2

Answer(len, width, sources, meta, collection) ==
  [len |-> len, width |-> width, sources |-> sources, meta |-> meta,
   collection |-> collection, truncated |-> FALSE]

MCPayloads == {Answer(2, 1, 1, 0, 0), Answer(9, 1, 2, 3, 0), Answer(1, 1, 3, 0, 0),
               Answer(5, 4, 1, 1, 2)}

VARIABLE about     \* "hub" or "saleor"

mcVars == <<vars, saleorVars, about>>

\* The data of a Saleor that rests do not matter.
MCInit ==
  /\ Init /\ SaleorInit
  /\ about \in {"hub", "saleor"}
  /\ about = "hub" =>
       /\ \A o \in Orders : owner[o] = u1
       /\ \A p \in Promotions : schedule[p] = [start |-> 0, end |-> Nothing]

MCNext ==
  \/ about = "hub" /\ Next /\ UNCHANGED <<saleorVars, about>>
  \/ about = "saleor" /\ SaleorNext /\ UNCHANGED <<vars, about>>

\* What rests enables none of its fair steps.
MCSpec == MCInit /\ [][MCNext]_mcVars /\ Fairness /\ SaleorFairness
=============================================================================
