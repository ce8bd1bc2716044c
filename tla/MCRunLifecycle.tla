--------------------------- MODULE MCRunLifecycle ---------------------------
(***************************************************************************)
(* Instances of RunLifecycle: the threads of the runs.                     *)
(***************************************************************************)
EXTENDS RunLifecycle

CONSTANTS r1, r2, r3, t1, t2

\* Two runs compete for a thread, a third has its own.
TwoThreads == [r \in Runs |-> IF r = r3 THEN t2 ELSE t1]

=============================================================================
