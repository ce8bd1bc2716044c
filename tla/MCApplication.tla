--------------------------- MODULE MCApplication ----------------------------
(* The agent runtime and the application around it, which share no state:  *)
(* a behaviour is about one of them, and the other one rests.              *)
(*                                                                         *)
(* Two runtimes in one process, two tasks that call them, two hosts; a     *)
(* configuration with one object and a journey whose transitions are out   *)
(* of order, make a cycle and reach END.                                   *)
EXTENDS Service, Assembly, TLC

CONSTANTS r1, r2, x1, x2

MCObjects == <<"journey">>
MCSource == [leave |-> "ask", enter |-> "START", repeat |-> "ask"]
MCTarget == [leave |-> "END", enter |-> "ask", repeat |-> "ask"]
MCRoots == {"START", "END"}

VARIABLE about     \* "runtime" or "assembly"

mcVars == <<vars, assemblyVars, about>>

\* The settings of an application that rests do not matter.
MCInit ==
  /\ Init /\ AssemblyInit
  /\ about \in {"runtime", "assembly"}
  /\ about = "runtime" => enabled = {} /\ ~bff

MCNext ==
  \/ about = "runtime" /\ Next /\ UNCHANGED <<assemblyVars, about>>
  \/ about = "assembly" /\ AssemblyNext /\ UNCHANGED <<vars, about>>

\* What rests enables none of its fair steps.
MCSpec == MCInit /\ [][MCNext]_mcVars /\ Fairness /\ AssemblyFairness
=============================================================================
