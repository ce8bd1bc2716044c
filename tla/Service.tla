------------------------------- MODULE Service ------------------------------
(***************************************************************************)
(* The agent runtime with the configuration its host writes on the way     *)
(* up, and which is gone with its server.  The bootstrap of the runtime's  *)
(* configure() is Own; others are repetitions by whoever holds the         *)
(* runtime's bootstrapper.                                                 *)
(***************************************************************************)
EXTENDS AgentRuntime, ConfigSync

CONSTANT Own

ASSUME ServiceAssumption == Own \in Bootstraps

vars == <<runtimeVars, syncVars>>

Init == RuntimeInit /\ Blank

Callings ==
  /\ \E c \in Callers :
       \/ \E w \in {"start", "stop"}, r \in Runtimes : Call(c, w, r)
       \/ StartAgain(c) \/ StartHost(c) \/ StartReady(c) \/ StartFails(c)
       \/ Stop(c) \/ StopEnds(c) \/ GiveUp(c)
  /\ UNCHANGED syncVars

Serving(h) ==
  \/ ServerEntered(h) /\ Ask(Own)
  \/ Configured(h) /\ boot[Own] = "returned" /\ UNCHANGED syncVars
  \/ HostEnds(h) /\ Vanish
  \/ (HostBegins(h) \/ ServerUp(h) \/ HostFails(h)) /\ UNCHANGED syncVars

Configuring(b) ==
  /\ running # None /\ host[running] \in {"configuring", "configured", "serving"}
  /\ running \in doomed => b # Own
  /\ SyncStep(b)
  /\ UNCHANGED runtimeVars

Next ==
  \/ Callings
  \/ \E h \in Hosts : Serving(h)
  \/ \E b \in Bootstraps : Configuring(b)

Spec == Init /\ [][Next]_vars

-----------------------------------------------------------------------------
\* A cancelled or failed task ends, and a caller goes on when it can; the lock
\* is handed over in the order it was asked for, so that none waits for ever.
\* That a server comes up is not assumed: the startup's timeout is.
GoesIn(c) == (StartAgain(c) \/ StartHost(c) \/ Stop(c)) /\ UNCHANGED syncVars
GoesOn(c) == (StartFails(c) \/ StopEnds(c)) /\ UNCHANGED syncVars

Ending(h) ==
  \/ h \in doomed /\ (HostBegins(h) \/ HostFails(h)) /\ UNCHANGED syncVars
  \/ HostEnds(h) /\ Vanish

Fairness ==
  /\ \A c \in Callers : SF_vars(GoesIn(c)) /\ WF_vars(GoesOn(c))
  /\ \A h \in Hosts : WF_vars(Ending(h))

FairSpec == Spec /\ Fairness

\* Every start and every stop returns or raises, whatever the server does,
\* as long as it ends when cancelled.
CallsReturn == \A c \in Callers : caller[c] = "locking" ~> caller[c] = "idle"

\* Whoever gets the agent from get_agent gets one whose whole configuration
\* the server has, and the server is the one that runs.
ServedMeansConfigured ==
  \A r \in Runtimes : Served(r) =>
    /\ current[r] = running /\ Complete
    /\ {Agent} \cup ObjectIds \subseteq exists /\ \A e \in Edges : drawn[e] >= 1
=============================================================================
