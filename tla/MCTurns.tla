------------------------------ MODULE MCTurns -------------------------------
(* Two tabs, two tool calls, two revisions in a life of the process, two   *)
(* pages and a product with a variant; a delta changes one leaf.           *)
EXTENDS Turns, TLC

CONSTANTS t1, t2, c1, c2

MCPatches == {[page |-> "shop"], [variant |-> "red"], [id |-> None]}
Symmetric == Permutations({t1, t2}) \cup Permutations({c1, c2})
=============================================================================
