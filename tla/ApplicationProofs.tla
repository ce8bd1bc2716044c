-------------------------- MODULE ApplicationProofs --------------------------
(***************************************************************************)
(* Theorems about Service: a runtime leaves no server behind, the process  *)
(* has one server at most, the configuration is written once, and whoever  *)
(* is served is served a configured agent; and about Assembly: nothing is  *)
(* used when what it is made from is not open, and nothing is left when    *)
(* the lifespan has ended.                                                 *)
(***************************************************************************)
EXTENDS Service, Assembly, SequenceTheorems, TLAPS

Servers == {"entering", "configuring", "configured", "serving", "exiting"}

RuntimeTypes ==
  /\ lock \in [Runtimes -> Callers \cup {None}]
  /\ current \in [Runtimes -> Hosts \cup {None}]
  /\ ready \in [Runtimes -> BOOLEAN] /\ agent \in [Runtimes -> BOOLEAN]
  /\ caller \in [Callers -> {"idle", "locking", "waiting", "stopping"}]
  /\ op \in [Callers -> [call : {"start", "stop"}, runtime : Runtimes] \cup {None}]
  /\ awaits \in [Callers -> Hosts \cup {None}]
  /\ host \in [Hosts -> {"unused", "created", "dead"} \cup Servers]
  /\ owner \in [Hosts -> Runtimes \cup {None}]
  /\ doomed \subseteq Hosts /\ running \in Hosts \cup {None}

\* A lock is held by a call of its runtime, and by one that awaits something.
Holding ==
  /\ \A c \in Callers : /\ caller[c] = "idle" <=> op[c] = None
                        /\ caller[c] \in {"waiting", "stopping"} => lock[Rt(c)] = c
  /\ \A r \in Runtimes : lock[r] # None =>
       caller[lock[r]] \in {"waiting", "stopping"} /\ Rt(lock[r]) = r

\* Hosts belong to the runtime that made them, which does not cancel its
\* current one.
Owned ==
  /\ \A r \in Runtimes : current[r] # None => owner[current[r]] = r /\ current[r] \notin doomed
  /\ \A h \in Hosts : /\ host[h] = "unused" <=> owner[h] = None
                      /\ h \in doomed => owner[h] # None

\* A task that has not ended is its runtime's, or is awaited by who cancelled it.
Attended ==
  \A h \in Hosts : owner[h] # None /\ host[h] # "dead" =>
    \/ current[owner[h]] = h
    \/ LET c == lock[owner[h]]
       IN c # None /\ caller[c] = "stopping" /\ awaits[c] = h /\ h \in doomed

Marked == \A h \in Hosts : host[h] \in Servers <=> running = h

RuntimeInv == RuntimeTypes /\ Holding /\ Owned /\ Attended /\ Marked

SyncTypes ==
  /\ exists \subseteq {Agent} \cup ObjectIds \cup StateIds
  /\ drawn \in [Edges -> Nat] /\ done \subseteq ObjectIds \cup Edges
  /\ states \subseteq StateIds \cup Roots
  /\ boot \in [Bootstraps -> {"idle", "waiting", "agent", "syncing", "returned", "failed"}]
  /\ asks \in [Bootstraps -> ObjectIds \cup Edges \cup {Nothing}]
  /\ lost \subseteq Edges

\* One bootstrap at a time writes, and it asks for what is not done.
Writing ==
  \A b \in Bootstraps :
    /\ boot[b] \in {"agent", "syncing"} =>
         \A a \in Bootstraps : boot[a] \in {"agent", "syncing"} => a = b
    /\ asks[b] # Nothing => boot[b] = "syncing" /\ asks[b] \notin done
    /\ asks[b] \in Edges => Source[asks[b]] \in states
    /\ boot[b] \in {"syncing", "returned"} => Agent \in exists
    /\ boot[b] = "returned" => Complete

\* What the gateway remembers is in the SDK.
Remembered ==
  /\ done \cap ObjectIds \subseteq exists
  /\ \A e \in done \cap Edges : drawn[e] >= 1 /\ Source[e] \in states /\ Target[e] \in states
  /\ states \subseteq exists \cup Roots

\* What it does not remember was not drawn, or its reply was lost.
DrawnOnce == \A e \in Edges \ lost : drawn[e] = IF e \in done THEN 1 ELSE 0

SyncInv == SyncTypes /\ Writing /\ Remembered /\ DrawnOnce

\* The agent is set by the current host, once the configuration is written.
AgentSet ==
  \A r \in Runtimes : agent[r] =>
    /\ current[r] # None
    /\ host[current[r]] # "dead" =>
         host[current[r]] \in {"configured", "serving", "exiting"} /\ boot[Own] = "returned"

IndInv == RuntimeInv /\ SyncInv /\ AgentSet

-----------------------------------------------------------------------------
(* Calls of the runtime.                                                   *)

\* The part of _stop that start and stop share: the caller holds the lock.
LEMMA StopBodyKeeps ==
  ASSUME RuntimeInv, NEW c \in Callers, caller[c] \in {"locking", "waiting"},
         lock[Rt(c)] \in {c, None}, StopBody(c), UNCHANGED <<op, host, owner, running>>
  PROVE  RuntimeInv'
<1>1. /\ Rt(c) \in Runtimes /\ op[c] # None
      /\ c # None
  BY RuntimeAssumption DEF RuntimeInv, RuntimeTypes, Holding, Rt
<1>2. /\ caller' = [caller EXCEPT ![c] = "stopping"]
      /\ lock' = [lock EXCEPT ![Rt(c)] = c]
      /\ awaits' = [awaits EXCEPT ![c] = current[Rt(c)]]
      /\ current' = [current EXCEPT ![Rt(c)] = None]
      /\ ready' = [ready EXCEPT ![Rt(c)] = FALSE] /\ agent' = [agent EXCEPT ![Rt(c)] = FALSE]
      /\ doomed' = doomed \cup ({current[Rt(c)]} \ {None})
  BY DEF StopBody, Unready, Cancelled
<1>3. RuntimeTypes'
  BY <1>1, <1>2 DEF RuntimeInv, RuntimeTypes
<1>4. Holding'
  BY <1>1, <1>2, RuntimeAssumption DEF RuntimeInv, RuntimeTypes, Holding, Rt
<1>5. Owned'
  BY <1>1, <1>2, RuntimeAssumption DEF RuntimeInv, RuntimeTypes, Owned
<1>6. Attended'
  <2>1. SUFFICES ASSUME NEW h \in Hosts, owner[h] # None, host[h] # "dead"
        PROVE  \/ current'[owner[h]] = h
               \/ /\ lock'[owner[h]] # None /\ caller'[lock'[owner[h]]] = "stopping"
                  /\ awaits'[lock'[owner[h]]] = h /\ h \in doomed'
    BY DEF Attended
  <2>2. owner[h] \in Runtimes /\ h # None
    BY <2>1, RuntimeAssumption DEF RuntimeInv, RuntimeTypes
  <2>3. CASE owner[h] = Rt(c)
    BY <1>1, <1>2, <2>1, <2>2, <2>3 DEF RuntimeInv, RuntimeTypes, Attended
  <2>4. CASE owner[h] # Rt(c)
    <3>1. lock'[owner[h]] = lock[owner[h]] /\ current'[owner[h]] = current[owner[h]]
      BY <1>1, <1>2, <2>2, <2>4 DEF RuntimeInv, RuntimeTypes
    <3>2. lock[owner[h]] # None => lock[owner[h]] \in Callers /\ lock[owner[h]] # c
      BY <2>2, <2>4 DEF RuntimeInv, RuntimeTypes, Holding
    <3>3. QED
      BY <1>2, <2>1, <3>1, <3>2 DEF RuntimeInv, RuntimeTypes, Attended
  <2>5. QED
    BY <2>3, <2>4
<1>7. Marked'
  BY DEF RuntimeInv, Marked
<1>8. QED
  BY <1>3, <1>4, <1>5, <1>6, <1>7 DEF RuntimeInv

\* A call that ends gives the lock back, if it held it; what it awaited ended.
LEMMA OverKeeps ==
  ASSUME RuntimeInv, NEW c \in Callers, caller[c] # "idle", Over(c),
         caller[c] = "stopping" => TaskEnded(c),
         UNCHANGED <<current, agent, host, owner, doomed, running>>,
         ready' \in [Runtimes -> BOOLEAN]
  PROVE  RuntimeInv'
<1>1. Rt(c) \in Runtimes /\ op[c] # None /\ c # None
  BY RuntimeAssumption DEF RuntimeInv, RuntimeTypes, Holding, Rt
<1>2. /\ caller' = [caller EXCEPT ![c] = "idle"] /\ op' = [op EXCEPT ![c] = None]
      /\ awaits' = [awaits EXCEPT ![c] = None]
      /\ lock' = IF lock[Rt(c)] = c THEN [lock EXCEPT ![Rt(c)] = None] ELSE lock
  BY DEF Over
<1>3. \A r \in Runtimes : lock'[r] # None => lock'[r] = lock[r] /\ lock[r] # c
  BY <1>1, <1>2 DEF RuntimeInv, RuntimeTypes, Holding
<1>4. RuntimeTypes'
  BY <1>1, <1>2 DEF RuntimeInv, RuntimeTypes
<1>5. Holding'
  <2>1. ASSUME NEW d \in Callers, d # c, caller[d] \in {"waiting", "stopping"}
        PROVE  lock'[Rt(d)] = d
    <3>1. lock[Rt(d)] = d /\ Rt(d) \in Runtimes
      BY <2>1, RuntimeAssumption DEF RuntimeInv, RuntimeTypes, Holding, Rt
    <3>2. QED
      BY <1>1, <1>2, <2>1, <3>1 DEF RuntimeInv, RuntimeTypes
  <2>2. QED
    BY <1>1, <1>2, <1>3, <2>1 DEF RuntimeInv, RuntimeTypes, Holding, Rt
<1>6. Attended'
  <2>1. SUFFICES ASSUME NEW h \in Hosts, owner[h] # None, host[h] # "dead",
                        current[owner[h]] # h
        PROVE  /\ lock'[owner[h]] # None /\ caller'[lock'[owner[h]]] = "stopping"
               /\ awaits'[lock'[owner[h]]] = h /\ h \in doomed'
    BY DEF Attended
  <2>2. /\ lock[owner[h]] # None /\ caller[lock[owner[h]]] = "stopping"
        /\ awaits[lock[owner[h]]] = h /\ h \in doomed
        /\ owner[h] \in Runtimes /\ h # None /\ lock[owner[h]] \in Callers
    BY <2>1, RuntimeAssumption DEF RuntimeInv, RuntimeTypes, Attended
  <2>3. lock[owner[h]] # c
    BY <2>1, <2>2 DEF TaskEnded
  <2>4. lock'[owner[h]] = lock[owner[h]]
    BY <1>1, <1>2, <2>2, <2>3 DEF RuntimeInv, RuntimeTypes
  <2>5. QED
    BY <1>2, <2>2, <2>3, <2>4 DEF RuntimeInv, RuntimeTypes
<1>7. Owned' /\ Marked'
  BY DEF RuntimeInv, Owned, Marked
<1>8. QED
  BY <1>4, <1>5, <1>6, <1>7 DEF RuntimeInv

\* A start makes its host under the lock.
LEMMA StartHostKeeps ==
  ASSUME RuntimeInv, NEW c \in Callers, StartHost(c)
  PROVE  RuntimeInv'
<1>1. /\ caller[c] = "locking" /\ lock[Rt(c)] = None /\ current[Rt(c)] = None
      /\ Rt(c) \in Runtimes /\ op[c] # None /\ c # None
  BY RuntimeAssumption DEF RuntimeInv, RuntimeTypes, Holding, Rt, StartHost, CanEnter
<1>2. CASE Over(c) /\ UNCHANGED <<current, host, owner, ready, agent, doomed, running>>
  BY <1>1, <1>2, OverKeeps DEF RuntimeInv, RuntimeTypes
<1>3. ASSUME NEW h \in Hosts, host[h] = "unused",
             host' = [host EXCEPT ![h] = "created"],
             owner' = [owner EXCEPT ![h] = Rt(c)],
             current' = [current EXCEPT ![Rt(c)] = h],
             lock' = [lock EXCEPT ![Rt(c)] = c],
             caller' = [caller EXCEPT ![c] = "waiting"],
             UNCHANGED <<op, awaits, ready, agent, doomed, running>>
      PROVE  RuntimeInv'
  <2>1. h # None /\ owner[h] = None /\ h \notin doomed
    BY <1>3, RuntimeAssumption DEF RuntimeInv, Owned
  <2>2. RuntimeTypes'
    BY <1>1, <1>3 DEF RuntimeInv, RuntimeTypes
  <2>3. Holding'
    BY <1>1, <1>3, RuntimeAssumption DEF RuntimeInv, RuntimeTypes, Holding, Rt
  <2>4. Owned'
    BY <1>1, <1>3, <2>1, RuntimeAssumption DEF RuntimeInv, RuntimeTypes, Owned
  <2>5. Attended'
    <3>1. SUFFICES ASSUME NEW g \in Hosts, g # h, owner[g] # None, host[g] # "dead"
          PROVE  \/ current'[owner[g]] = g
                 \/ /\ lock'[owner[g]] # None /\ caller'[lock'[owner[g]]] = "stopping"
                    /\ awaits'[lock'[owner[g]]] = g /\ g \in doomed'
      BY <1>1, <1>3 DEF RuntimeInv, RuntimeTypes, Attended
    <3>2. owner[g] \in Runtimes /\ g # None
      BY <3>1, RuntimeAssumption DEF RuntimeInv, RuntimeTypes
    <3>3. owner[g] # Rt(c)
      BY <1>1, <3>1, <3>2 DEF RuntimeInv, Attended
    <3>4. lock'[owner[g]] = lock[owner[g]] /\ current'[owner[g]] = current[owner[g]]
      BY <1>1, <1>3, <3>2, <3>3 DEF RuntimeInv, RuntimeTypes
    <3>5. lock[owner[g]] # None => lock[owner[g]] \in Callers /\ lock[owner[g]] # c
      BY <1>1, <3>2 DEF RuntimeInv, RuntimeTypes, Holding
    <3>6. QED
      BY <1>3, <3>1, <3>4, <3>5 DEF RuntimeInv, RuntimeTypes, Attended
  <2>6. Marked'
    BY <1>3 DEF RuntimeInv, RuntimeTypes, Marked, Servers
  <2>7. QED
    BY <2>2, <2>3, <2>4, <2>5, <2>6 DEF RuntimeInv
<1>4. QED
  BY <1>2, <1>3 DEF StartHost

\* Every step of a caller keeps the invariant of the runtimes, and keeps what
\* is known of the agents.
LEMMA CallerStep ==
  ASSUME RuntimeInv, AgentSet, NEW c \in Callers, UNCHANGED syncVars,
         \/ \E w \in {"start", "stop"}, r \in Runtimes : Call(c, w, r)
         \/ StartAgain(c) \/ StartHost(c) \/ StartReady(c) \/ StartFails(c)
         \/ Stop(c) \/ StopEnds(c) \/ GiveUp(c)
  PROVE  RuntimeInv' /\ AgentSet'
<1> USE DEF Rt
<1>1. c # None /\ (caller[c] # "idle" => op[c] # None /\ Rt(c) \in Runtimes)
  BY RuntimeAssumption DEF RuntimeInv, RuntimeTypes, Holding
<1>2. boot'[Own] = boot[Own]
  BY DEF syncVars
<1>3. ASSUME NEW w \in {"start", "stop"}, NEW r \in Runtimes, Call(c, w, r)
      PROVE  RuntimeInv' /\ AgentSet'
  <2>1. /\ caller' = [caller EXCEPT ![c] = "locking"] /\ caller[c] = "idle"
        /\ op' = [op EXCEPT ![c] = [call |-> w, runtime |-> r]]
        /\ UNCHANGED <<lock, awaits, current, ready, agent, host, owner, doomed, running>>
    BY <1>3 DEF Call, own
  <2>2. \A s \in Runtimes : lock[s] # None => lock[s] \in Callers /\ lock[s] # c
    BY <2>1 DEF RuntimeInv, RuntimeTypes, Holding
  <2>3. RuntimeTypes'
    BY <2>1 DEF RuntimeInv, RuntimeTypes
  <2>4. Holding'
    BY <2>1, <2>2, RuntimeAssumption DEF RuntimeInv, RuntimeTypes, Holding
  <2>5. Attended'
    BY <2>1, <2>2 DEF RuntimeInv, RuntimeTypes, Attended
  <2>6. Owned' /\ Marked' /\ AgentSet'
    BY <1>2, <2>1 DEF RuntimeInv, Owned, Marked, AgentSet
  <2>7. QED
    BY <2>3, <2>4, <2>5, <2>6 DEF RuntimeInv
<1>4. ASSUME StartAgain(c) \/ GiveUp(c) \/ StopEnds(c) PROVE RuntimeInv' /\ AgentSet'
  <2>1. /\ Over(c) /\ caller[c] # "idle" /\ (caller[c] = "stopping" => TaskEnded(c))
        /\ UNCHANGED <<current, ready, agent, host, owner, doomed, running>>
    BY <1>4 DEF StartAgain, GiveUp, StopEnds, CanEnter, own
  <2>2. RuntimeInv'
    BY <2>1, OverKeeps DEF RuntimeInv, RuntimeTypes
  <2>3. QED
    BY <1>2, <2>1, <2>2 DEF AgentSet
<1>5. ASSUME StartHost(c) PROVE RuntimeInv' /\ AgentSet'
  <2>1. \A r \in Runtimes : agent[r] => current'[r] = current[r] /\ host'[current[r]] = host[current[r]]
    BY <1>1, <1>5 DEF StartHost, CanEnter, AgentSet, RuntimeInv, RuntimeTypes, Owned
  <2>2. agent' = agent
    BY <1>5 DEF StartHost
  <2>3. QED
    BY <1>2, <1>5, <2>1, <2>2, StartHostKeeps DEF AgentSet, RuntimeInv, RuntimeTypes
<1>6. ASSUME StartReady(c) PROVE RuntimeInv' /\ AgentSet'
  <2>1. /\ Over(c) /\ caller[c] = "waiting"
        /\ UNCHANGED <<current, agent, host, owner, doomed, running>>
        /\ ready' \in [Runtimes -> BOOLEAN]
    BY <1>6 DEF StartReady, RuntimeInv, RuntimeTypes
  <2>2. RuntimeInv'
    BY <2>1, OverKeeps
  <2>3. QED
    BY <1>2, <2>1, <2>2 DEF AgentSet
<1>7. ASSUME Stop(c) \/ StartFails(c) PROVE RuntimeInv' /\ AgentSet'
  <2>1. /\ caller[c] \in {"locking", "waiting"} /\ lock[Rt(c)] \in {c, None}
        /\ StopBody(c) /\ UNCHANGED <<op, host, owner, running>>
    BY <1>7 DEF Stop, StartFails, CanEnter, RuntimeInv, Holding
  <2>2. RuntimeInv'
    BY <2>1, StopBodyKeeps
  <2>3. /\ agent' = [agent EXCEPT ![Rt(c)] = FALSE]
        /\ current' = [current EXCEPT ![Rt(c)] = None]
    BY <2>1 DEF StopBody, Unready
  <2>4. \A r \in Runtimes : agent'[r] => agent[r] /\ current'[r] = current[r]
    BY <1>1, <2>1, <2>3 DEF RuntimeInv, RuntimeTypes
  <2>5. QED
    BY <1>2, <2>1, <2>2, <2>4 DEF AgentSet
<1>8. QED
  BY <1>3, <1>4, <1>5, <1>6, <1>7

-----------------------------------------------------------------------------
(* The serving task.                                                       *)

\* A step of a serving task that leaves callers and runtimes alone keeps their
\* invariant, if the task goes on from a place it has been at.
LEMMA HostMoves ==
  ASSUME RuntimeInv, NEW h \in Hosts, NEW l \in {"dead"} \cup Servers,
         host[h] \in {"created"} \cup Servers, Become(h, l),
         running' = (IF l \in Servers THEN h ELSE IF running = h THEN None ELSE running),
         l \in Servers => running \in {h, None},
         agent' \in [Runtimes -> BOOLEAN],
         UNCHANGED <<callVars, current, ready, owner, doomed>>
  PROVE  RuntimeInv'
<1>1. /\ host' = [host EXCEPT ![h] = l] /\ h # None /\ owner[h] # None
      /\ UNCHANGED <<lock, caller, op, awaits, current, ready, owner, doomed>>
  BY RuntimeAssumption DEF Become, callVars, RuntimeInv, Owned, Servers
<1>2. RuntimeTypes'
  BY <1>1 DEF RuntimeInv, RuntimeTypes
<1>3. Holding'
  BY <1>1 DEF RuntimeInv, Holding, Rt
<1>4. Owned'
  BY <1>1 DEF RuntimeInv, RuntimeTypes, Owned, Servers
<1>5. Attended'
  BY <1>1 DEF RuntimeInv, RuntimeTypes, Attended, Servers
<1>6. Marked'
  BY <1>1, RuntimeAssumption DEF RuntimeInv, RuntimeTypes, Marked, Servers
<1>7. QED
  BY <1>2, <1>3, <1>4, <1>5, <1>6 DEF RuntimeInv

\* With no server nothing is configured and nobody writes.
LEMMA BlankSync ==
  /\ Blank => SyncInv
  /\ Vanish => SyncInv'
<1>1. ASSUME Blank PROVE SyncInv
  <2>1. SyncTypes
    BY <1>1 DEF Blank, SyncTypes
  <2>2. Writing /\ Remembered /\ DrawnOnce
    BY <1>1, ConfigAssumption DEF Blank, Writing, Remembered, DrawnOnce
  <2>3. QED
    BY <2>1, <2>2 DEF SyncInv
<1>2. ASSUME Vanish PROVE SyncInv'
  <2>1. SyncTypes'
    BY <1>2 DEF Vanish, SyncTypes
  <2>2. Writing' /\ Remembered' /\ DrawnOnce'
    BY <1>2, ConfigAssumption DEF Vanish, Writing, Remembered, DrawnOnce
  <2>3. QED
    BY <2>1, <2>2 DEF SyncInv
<1>3. QED
  BY <1>1, <1>2

\* Every step of a serving task keeps the invariant.
LEMMA HostStep ==
  ASSUME IndInv, NEW h \in Hosts, Serving(h)
  PROVE  IndInv'
<1> USE DEF IndInv
<1>1. h # None /\ (host[h] \in Servers => running = h)
  BY RuntimeAssumption DEF RuntimeInv, Marked
<1>2. CASE HostBegins(h) /\ UNCHANGED syncVars
  <2>1. \E l \in {"dead", "entering"} :
          /\ Become(h, l) /\ host[h] = "created"
          /\ running' = (IF l \in Servers THEN h ELSE running)
          /\ l \in Servers => running = None
          /\ UNCHANGED <<callVars, current, ready, agent, owner, doomed>>
    BY <1>2 DEF HostBegins, KeepMark, own, Servers
  <2>2. running # h
    BY <1>1, <2>1 DEF RuntimeInv, Marked, Servers
  <2>3. RuntimeInv'
    BY <2>1, <2>2, HostMoves DEF Servers, RuntimeInv, RuntimeTypes
  <2>4. AgentSet'
    BY <1>2, <2>1 DEF AgentSet, Become, RuntimeInv, RuntimeTypes, syncVars
  <2>5. SyncInv'
    BY <1>2 DEF SyncInv, SyncTypes, Writing, Remembered, DrawnOnce, Complete, syncVars
  <2>6. QED
    BY <2>3, <2>4, <2>5
<1>3. CASE ServerEntered(h) /\ Ask(Own)
  <2>1. RuntimeInv'
    BY <1>1, <1>3, HostMoves DEF ServerEntered, own, Servers, RuntimeInv, RuntimeTypes
  <2>2. AgentSet'
    BY <1>3 DEF ServerEntered, Ask, own, AgentSet, Become, RuntimeInv, RuntimeTypes
  <2>3. SyncInv'
    BY <1>3 DEF Ask, At, SyncInv, SyncTypes, Writing, Remembered, DrawnOnce, Complete
  <2>4. QED
    BY <2>1, <2>2, <2>3
<1>4. CASE Configured(h) /\ boot[Own] = "returned" /\ UNCHANGED syncVars
  <2>1. owner[h] \in Runtimes /\ current[owner[h]] = h
    BY <1>4 DEF Configured, RuntimeInv, RuntimeTypes, Owned, Attended
  <2>2. RuntimeInv'
    BY <1>1, <1>4, HostMoves DEF Configured, Servers, RuntimeInv, RuntimeTypes
  <2>3. AgentSet'
    BY <1>1, <1>4, <2>1 DEF Configured, AgentSet, Become, RuntimeInv, RuntimeTypes, syncVars
  <2>4. SyncInv'
    BY <1>4 DEF SyncInv, SyncTypes, Writing, Remembered, DrawnOnce, Complete, syncVars
  <2>5. QED
    BY <2>2, <2>3, <2>4
<1>5. CASE (ServerUp(h) \/ HostFails(h)) /\ UNCHANGED syncVars
  <2>1. RuntimeInv'
    BY <1>1, <1>5, HostMoves
       DEF ServerUp, HostFails, own, Servers, RuntimeInv, RuntimeTypes
  <2>2. AgentSet'
    BY <1>5 DEF ServerUp, HostFails, own, AgentSet, Become, RuntimeInv, RuntimeTypes, syncVars
  <2>3. SyncInv'
    BY <1>5 DEF SyncInv, SyncTypes, Writing, Remembered, DrawnOnce, Complete, syncVars
  <2>4. QED
    BY <2>1, <2>2, <2>3
<1>6. CASE HostEnds(h) /\ Vanish
  <2>1. RuntimeInv'
    BY <1>1, <1>6, HostMoves DEF HostEnds, own, Servers, RuntimeInv, RuntimeTypes
  <2>2. AgentSet'
    <3>1. SUFFICES ASSUME NEW r \in Runtimes, agent'[r]
          PROVE  current'[r] # None /\ host'[current'[r]] = "dead"
      BY DEF AgentSet
    <3>2. agent[r] /\ current'[r] = current[r] /\ current[r] \in Hosts
      BY <1>6, <3>1 DEF HostEnds, own, AgentSet, RuntimeInv, RuntimeTypes
    <3>3. host[current[r]] # "dead" => current[r] = h
      BY <1>1, <1>6, <3>2 DEF HostEnds, AgentSet, RuntimeInv, Marked, Servers
    <3>4. QED
      BY <1>6, <3>2, <3>3, RuntimeAssumption DEF HostEnds, Become, RuntimeInv, RuntimeTypes
  <2>3. QED
    BY <1>6, <2>1, <2>2, BlankSync
<1>7. QED
  BY <1>2, <1>3, <1>4, <1>5, <1>6 DEF Serving

-----------------------------------------------------------------------------
(* Bootstraps.                                                             *)

\* A call of the SDK that succeeds, with or without the gateway noting it.
LEMMA PerformedKeeps ==
  ASSUME SyncInv, NEW b \in Bootstraps, asks[b] # Nothing, Performed(asks[b]),
         asks' = [asks EXCEPT ![b] = Nothing],
         \/ /\ done' = done \cup {asks[b]}
            /\ states' = states \cup {Target[e] : e \in {asks[b]} \cap Edges}
            /\ UNCHANGED <<boot, lost>>
         \/ /\ lost' = lost \cup ({asks[b]} \cap Edges)
            /\ boot' = [boot EXCEPT ![b] = "failed"]
            /\ UNCHANGED <<done, states>>
  PROVE  SyncInv' /\ boot'[b] # "returned" /\ boot[b] = "syncing"
<1> DEFINE x == asks[b]
<1>1. /\ x \in ObjectIds \cup Edges /\ x \notin done /\ boot[b] = "syncing"
      /\ x \in Edges => Source[x] \in states
      /\ Agent \in exists
      /\ \A a \in Bootstraps \ {b} : boot[a] \notin {"agent", "syncing"} /\ asks[a] = Nothing
  BY DEF SyncInv, SyncTypes, Writing
<1>2. /\ ObjectIds \cap Edges = {} /\ Nothing \notin ObjectIds \cup Edges
      /\ \A e \in Edges : Target[e] \in StateIds
  BY ConfigAssumption DEF StateIds
<1>3. exists \subseteq exists' /\ drawn' \in [Edges -> Nat]
  BY <1>1 DEF Performed, SyncInv, SyncTypes
<1>4. exists' \subseteq {Agent} \cup ObjectIds \cup StateIds
  BY <1>1, <1>2 DEF Performed, SyncInv, SyncTypes
<1>5. CASE x \in Edges
  <2>1. /\ drawn' = [drawn EXCEPT ![x] = @ + 1] /\ Target[x] \in exists' \cup Roots
        /\ drawn[x] \in Nat
    BY <1>5 DEF Performed, SyncInv, SyncTypes
  <2>2. SyncTypes'
    BY <1>1, <1>2, <1>3, <1>4 DEF SyncInv, SyncTypes
  <2>3. Writing'
    BY <1>1, <1>2, <1>3 DEF SyncInv, SyncTypes, Writing, Complete
  <2>4. Remembered'
    BY <1>1, <1>2, <1>3, <1>5, <2>1 DEF SyncInv, SyncTypes, Remembered
  <2>5. DrawnOnce'
    BY <1>1, <1>2, <1>5, <2>1 DEF SyncInv, SyncTypes, DrawnOnce
  <2>6. QED
    BY <1>1, <2>2, <2>3, <2>4, <2>5 DEF SyncInv, SyncTypes
<1>6. CASE x \notin Edges
  <2>1. drawn' = drawn /\ x \in exists' /\ {x} \cap Edges = {}
    BY <1>6 DEF Performed
  <2>2. SyncTypes'
    BY <1>1, <1>2, <1>3, <1>4 DEF SyncInv, SyncTypes
  <2>3. Writing'
    BY <1>1, <1>2, <1>3 DEF SyncInv, SyncTypes, Writing, Complete
  <2>4. Remembered'
    BY <1>1, <1>3, <1>6, <2>1 DEF SyncInv, SyncTypes, Remembered
  <2>5. DrawnOnce'
    BY <1>1, <1>6, <2>1 DEF SyncInv, SyncTypes, DrawnOnce
  <2>6. QED
    BY <1>1, <2>2, <2>3, <2>4, <2>5 DEF SyncInv, SyncTypes
<1>7. QED
  BY <1>5, <1>6

\* Every step of a bootstrap keeps what the gateway remembers, and a bootstrap
\* that returned stays so.
LEMMA BootstrapStep ==
  ASSUME SyncInv, NEW b \in Bootstraps, SyncStep(b)
  PROVE  SyncInv' /\ (boot[Own] = "returned" => boot'[Own] = "returned")
<1>1. Nothing \notin ObjectIds \cup Edges
  BY ConfigAssumption
<1>2. CASE Ask(b)
  BY <1>2 DEF Ask, At, SyncInv, SyncTypes, Writing, Remembered, DrawnOnce, Complete
<1>3. CASE BeginSync(b)
  BY <1>3 DEF BeginSync, LockFree, At, SyncInv, SyncTypes, Writing, Remembered, DrawnOnce,
     Complete
<1>4. CASE SyncAgent(b)
  <2>1. /\ boot[b] = "agent" /\ exists' = exists \cup {Agent}
        /\ boot' = [boot EXCEPT ![b] = "syncing"]
        /\ UNCHANGED <<drawn, done, states, asks, lost>>
    BY <1>4 DEF SyncAgent, At
  <2>2. SyncTypes' /\ Remembered' /\ DrawnOnce'
    BY <2>1 DEF SyncInv, SyncTypes, Remembered, DrawnOnce
  <2>3. Writing'
    BY <2>1 DEF SyncInv, SyncTypes, Writing, Complete
  <2>4. QED
    BY <2>1, <2>2, <2>3 DEF SyncInv, SyncTypes
<1>5. CASE AskFor(b)
  <2>1. PICK x \in ObjectIds \cup Edges :
          /\ x \notin done /\ (x \in Edges => Source[x] \in states)
          /\ asks' = [asks EXCEPT ![b] = x]
    <3>1. PICK x \in ObjectIds \cup Edges :
            (NextObject(x) \/ NextEdge(x)) /\ asks' = [asks EXCEPT ![b] = x]
      BY <1>5 DEF AskFor, Asking
    <3>2. x \notin done /\ (x \in Edges => Source[x] \in states)
      <4>1. ObjectIds \cap Edges = {}
        BY ConfigAssumption
      <4>2. NextObject(x) => x \in ObjectIds /\ x \notin done
        BY DEF NextObject, ObjectIds
      <4>3. QED
        BY <3>1, <4>1, <4>2 DEF NextEdge
    <3>3. QED
      BY <3>1, <3>2
  <2>2. boot[b] = "syncing" /\ UNCHANGED <<exists, drawn, done, states, boot, lost>>
    BY <1>5 DEF AskFor, Unnoted
  <2>3. SyncTypes' /\ Remembered' /\ DrawnOnce'
    BY <2>1, <2>2 DEF SyncInv, SyncTypes, Remembered, DrawnOnce
  <2>4. Writing'
    <3>1. \A a \in Bootstraps : asks'[a] = IF a = b THEN x ELSE asks[a]
      BY <2>1 DEF SyncInv, SyncTypes
    <3>2. Complete' <=> Complete
      BY <2>2 DEF Complete
    <3>3. QED
      BY <2>1, <2>2, <3>1, <3>2 DEF SyncInv, Writing
  <2>5. QED
    BY <2>2, <2>3, <2>4 DEF SyncInv
<1>6. CASE Answered(b)
  BY <1>6, PerformedKeeps DEF Answered, Asking
<1>7. CASE ReplyLost(b)
  <2>1. CASE asks[b] # Nothing /\ Performed(asks[b])
    <3>1. SyncInv' /\ boot[b] = "syncing" /\ boot' = [boot EXCEPT ![b] = "failed"]
      BY <1>7, <2>1, PerformedKeeps DEF ReplyLost, Asking, At
    <3>2. QED
      BY <3>1 DEF SyncInv, SyncTypes
  <2>2. CASE boot[b] = "agent" /\ exists' = exists \cup {Agent} /\ UNCHANGED drawn
    <3>1. /\ asks[b] = Nothing /\ lost' = lost /\ asks' = [asks EXCEPT ![b] = Nothing]
          /\ boot' = [boot EXCEPT ![b] = "failed"] /\ UNCHANGED <<done, states>>
      BY <1>1, <1>7, <2>2 DEF ReplyLost, Asking, At, SyncInv, Writing
    <3>2. SyncTypes' /\ Remembered' /\ DrawnOnce'
      BY <2>2, <3>1 DEF SyncInv, SyncTypes, Remembered, DrawnOnce
    <3>3. Writing'
      BY <2>2, <3>1 DEF SyncInv, SyncTypes, Writing, Complete
    <3>4. QED
      BY <2>2, <3>1, <3>2, <3>3 DEF SyncInv, SyncTypes
  <2>3. QED
    BY <1>7, <2>1, <2>2 DEF ReplyLost
<1>8. CASE CallFails(b)
  BY <1>1, <1>8 DEF CallFails, At, Asking, SyncInv, SyncTypes, Writing, Remembered, DrawnOnce,
     Complete
<1>9. CASE ReturnSync(b)
  BY <1>9 DEF ReturnSync, At, SyncInv, SyncTypes, Writing, Remembered, DrawnOnce, Complete
<1>10. QED
  BY <1>2, <1>3, <1>4, <1>5, <1>6, <1>7, <1>8, <1>9 DEF SyncStep

-----------------------------------------------------------------------------
(* The invariant.                                                          *)

\* It holds at the start.
LEMMA Initially ==
  ASSUME Init
  PROVE  IndInv
<1>1. RuntimeTypes
  BY DEF Init, RuntimeInit, RuntimeTypes
<1>2. Holding /\ Owned /\ Attended /\ Marked /\ AgentSet
  BY RuntimeAssumption DEF Init, RuntimeInit, Holding, Owned, Attended, Marked, AgentSet, Servers
<1>3. QED
  BY <1>1, <1>2, BlankSync DEF IndInv, RuntimeInv, Init

\* Every step keeps it.
LEMMA Inductive ==
  ASSUME IndInv, [Next]_vars
  PROVE  IndInv'
<1>1. CASE Callings
  <2>1. RuntimeInv' /\ AgentSet' /\ UNCHANGED syncVars
    BY <1>1, CallerStep DEF Callings, IndInv
  <2>2. SyncInv'
    BY <2>1 DEF IndInv, SyncInv, SyncTypes, Writing, Remembered, DrawnOnce, Complete, syncVars
  <2>3. QED
    BY <2>1, <2>2 DEF IndInv
<1>2. ASSUME NEW h \in Hosts, Serving(h) PROVE IndInv'
  BY <1>2, HostStep
<1>3. ASSUME NEW b \in Bootstraps, Configuring(b) PROVE IndInv'
  <2>1. UNCHANGED runtimeVars /\ SyncStep(b)
    BY <1>3 DEF Configuring
  <2>2. SyncInv' /\ (boot[Own] = "returned" => boot'[Own] = "returned")
    BY <2>1, BootstrapStep DEF IndInv
  <2>3. RuntimeInv'
    BY <2>1 DEF IndInv, RuntimeInv, RuntimeTypes, Holding, Rt, Owned, Attended, Marked,
       runtimeVars, callVars, own
  <2>4. AgentSet'
    BY <2>1, <2>2 DEF IndInv, AgentSet, runtimeVars, own
  <2>5. QED
    BY <2>2, <2>3, <2>4 DEF IndInv
<1>4. CASE UNCHANGED vars
  BY <1>4 DEF vars, runtimeVars, callVars, own, syncVars, IndInv, RuntimeInv, RuntimeTypes,
     Holding, Rt, Owned, Attended, Marked, SyncInv, SyncTypes, Writing, Remembered, DrawnOnce,
     Complete, AgentSet
<1>5. QED
  BY <1>1, <1>2, <1>3, <1>4 DEF Next

\* What the invariant says of the configuration once it is complete.
LEMMA CompleteExists ==
  ASSUME SyncInv, Complete
  PROVE  /\ ObjectIds \cup (StateIds \ Roots) \subseteq exists
         /\ \A e \in Edges : drawn[e] >= 1
  BY DEF SyncInv, Complete, Remembered, StateIds

-----------------------------------------------------------------------------
(* Theorems.                                                               *)

\* The inductive invariant of runtimes, hosts and the configuration holds in
\* every reachable state.
THEOREM InductiveInvariant == Spec => []IndInv
<1>1. Init => IndInv
  BY Initially
<1>2. IndInv /\ [Next]_vars => IndInv'
  BY Inductive
<1>3. QED
  BY <1>1, <1>2, PTL DEF Spec

\* AgentRuntime.start and stop leave no server behind, however they end, and
\* ParlantHost._running is set exactly while a server lives.
THEOREM NothingIsLeftBehind == Spec => []NothingLeftBehind
<1>1. IndInv => NothingLeftBehind
  <2> SUFFICES ASSUME IndInv PROVE NothingLeftBehind
    OBVIOUS
  <2>1. ASSUME NEW r \in Runtimes, lock[r] = None, current[r] = None,
               NEW h \in Hosts, owner[h] = r
        PROVE  host[h] = "dead"
    <3>1. Attended
      BY DEF IndInv, RuntimeInv
    <3> QED BY <2>1, <3>1, RuntimeAssumption DEF Attended
  <2>2. Alive = {running} \ {None}
    BY RuntimeAssumption DEF IndInv, RuntimeInv, RuntimeTypes, Marked, Servers, Alive
  <2>3. QED
    BY <2>1, <2>2 DEF NothingLeftBehind
<1>2. QED
  BY <1>1, InductiveInvariant, PTL

\* A bootstrap that returns left the whole configuration, and no transition is
\* drawn twice unless the SDK's answer for it was lost.
THEOREM ConfigurationIsWrittenOnce == Spec => []ConfiguredOnce
<1>1. IndInv => ConfiguredOnce
  <2> SUFFICES ASSUME IndInv PROVE ConfiguredOnce
    OBVIOUS
  <2>1. ASSUME NEW b \in Bootstraps, boot[b] = "returned"
        PROVE  /\ {Agent} \cup ObjectIds \cup (StateIds \ Roots) \subseteq exists
               /\ \A e \in Edges : drawn[e] >= 1
    BY <2>1, CompleteExists DEF IndInv, SyncInv, Writing
  <2>2. \A e \in Edges : e \notin lost => drawn[e] <= 1
    BY DEF IndInv, SyncInv, DrawnOnce
  <2>3. QED
    BY <2>1, <2>2 DEF ConfiguredOnce
<1>2. QED
  BY <1>1, InductiveInvariant, PTL

\* What get_agent returns lives in the one running server, which has the whole
\* configuration.
THEOREM ServedIsConfigured == Spec => []ServedMeansConfigured
<1>1. IndInv => ServedMeansConfigured
  <2> SUFFICES ASSUME IndInv, NEW r \in Runtimes, Served(r)
        PROVE  /\ current[r] = running /\ Complete
               /\ {Agent} \cup ObjectIds \subseteq exists /\ \A e \in Edges : drawn[e] >= 1
    BY DEF ServedMeansConfigured
  <2>1. /\ current[r] \in Hosts /\ host[current[r]] \in Servers
        /\ boot[Own] = "returned"
    BY DEF IndInv, AgentSet, Served, RuntimeInv, RuntimeTypes, Servers
  <2>2. current[r] = running
    BY <2>1 DEF IndInv, RuntimeInv, Marked
  <2>3. Complete /\ Agent \in exists
    BY <2>1, ServiceAssumption DEF IndInv, SyncInv, Writing
  <2>4. QED
    BY <2>2, <2>3, CompleteExists DEF IndInv
<1>2. QED
  BY <1>1, InductiveInvariant, PTL

-----------------------------------------------------------------------------
(* The assembly.  The stack of the lifespan follows RESOURCE_ORDER with    *)
(* nothing enabled left out and only its top not open, so whatever is used *)
(* has all that it is made from open below it.                             *)

\* Where a context stands in Order.
Place == [c \in Contexts |-> CHOOSE i \in 1 .. 6 : Order[i] = c]

AssemblyTypes ==
  /\ enabled \subseteq Contexts /\ bff \in BOOLEAN
  /\ life \in Nat /\ phase \in {"down", "starting", "serving", "unwinding"}
  /\ at \in 0 .. 7 /\ stack \in Seq(Contexts)
  /\ state \in [Contexts -> {"closed", "opening", "open", "closing"}]
  /\ isReady \in BOOLEAN /\ services \subseteq {"saleor", "agui_runner"}
  /\ registry \in BOOLEAN /\ verifier \in BOOLEAN /\ admin \in BOOLEAN
  /\ request \in [Requests -> {"idle", "verifying", "admitted", "running", "calling",
                               "done", "abandoned"}]
  /\ runner \in [Requests -> Nat]

OnStack(c) == \E i \in 1 .. Len(stack) : stack[i] = c

\* The stack grows in Order, and only what is on top is not open.
StackOrdered ==
  /\ \A i \in 1 .. Len(stack) : stack[i] \in enabled
  /\ \A i, j \in 1 .. Len(stack) : i < j => Place[stack[i]] < Place[stack[j]]
  /\ \A i \in 1 .. Len(stack) : i < Len(stack) => IsOpen(stack[i])

\* Nothing that is enabled was left out below what is on the stack.
StackComplete ==
  \A i \in 1 .. Len(stack) : \A d \in enabled : Place[d] < Place[stack[i]] => OnStack(d)

\* What is not closed is on the stack, or is just being entered.
Accounted ==
  \A c \in Contexts : state[c] # "closed" =>
    OnStack(c) \/ (Entering(c) /\ state[c] = "opening")

\* How far the startup has come.
StartedSoFar ==
  /\ phase = "starting" =>
       /\ at \in 1 .. 6 => Order[at] \in enabled
       /\ at # 7
       /\ \A d \in enabled : Place[d] < at => OnStack(d)
       /\ \A i \in 1 .. Len(stack) :
            Place[stack[i]] < at \/ (stack[i] = "database" /\ at = Place["database"])
  /\ phase \in {"starting", "serving"} => \A i \in 1 .. Len(stack) : IsOpen(stack[i])
  /\ phase = "down" => stack = <<>>

\* Work under way keeps what it works with from being closed.
WorkAccounted ==
  \A q \in Requests :
    /\ request[q] = "running" => runner[q] = life /\ state["agui_runner"] \in {"open", "closing"}
    /\ request[q] = "calling" => state["admin_mcp"] \in {"open", "closing"}

Unregistered ==
  phase = "down" => services = {} /\ ~registry /\ ~verifier /\ ~admin /\ ~isReady

AssemblyInv ==
  /\ AssemblyTypes /\ StackOrdered /\ StackComplete /\ Accounted /\ StartedSoFar
  /\ WorkAccounted /\ Unregistered

-----------------------------------------------------------------------------
LEMMA OrderFacts ==
  /\ Len(Order) = 6 /\ \A i \in 1 .. 6 : Order[i] \in Contexts
  /\ Contexts = {"database", "saleor_client", "rag_client", "parlant_runtime",
                 "agui_runner", "admin_mcp"}
  /\ Place \in [Contexts -> 1 .. 6]
  /\ \A c \in Contexts : Order[Place[c]] = c
  /\ \A i \in 1 .. 6 : Place[Order[i]] = i
<1>1. Len(Order) = 6
  BY DEF Order
<1>2. /\ Order[1] = "database" /\ Order[2] = "saleor_client" /\ Order[3] = "rag_client"
      /\ Order[4] = "parlant_runtime" /\ Order[5] = "agui_runner" /\ Order[6] = "admin_mcp"
  BY DEF Order
<1>3. Contexts = {Order[i] : i \in 1 .. 6}
  BY <1>1 DEF Contexts
<1>4. Contexts = {"database", "saleor_client", "rag_client", "parlant_runtime",
                 "agui_runner", "admin_mcp"}
  BY <1>2, <1>3
<1>5. ASSUME NEW i \in 1 .. 6, NEW j \in 1 .. 6, Order[i] = Order[j]
      PROVE  i = j
  BY <1>2, <1>5
<1>6. ASSUME NEW c \in Contexts
      PROVE  Place[c] \in 1 .. 6 /\ Order[Place[c]] = c
  BY <1>3 DEF Place
<1>7. ASSUME NEW i \in 1 .. 6
      PROVE  Place[Order[i]] = i
  BY <1>3, <1>5, <1>6
<1>8. Place \in [Contexts -> 1 .. 6]
  <2>1. DOMAIN Place = Contexts /\ Place = [c \in Contexts |-> Place[c]]
    BY DEF Place
  <2> QED BY <2>1, <1>6
<1> QED BY <1>1, <1>3, <1>4, <1>6, <1>7, <1>8

LEMMA Places ==
  /\ Place["database"] = 1 /\ Place["saleor_client"] = 2 /\ Place["rag_client"] = 3
  /\ Place["parlant_runtime"] = 4 /\ Place["agui_runner"] = 5 /\ Place["admin_mcp"] = 6
<1>1. /\ Order[1] = "database" /\ Order[2] = "saleor_client" /\ Order[3] = "rag_client"
      /\ Order[4] = "parlant_runtime" /\ Order[5] = "agui_runner" /\ Order[6] = "admin_mcp"
  BY DEF Order
<1>2. \A i \in 1 .. 6 : Place[Order[i]] = i
  BY OrderFacts
<1> QED BY <1>1, <1>2

LEMMA NeedsBelow ==
  ASSUME NEW c \in Contexts, NEW d \in Needs(c)
  PROVE  d \in enabled /\ d \in Contexts /\ Place[d] < Place[c]
BY OrderFacts, Places DEF Needs

LEMMA AdvanceNext ==
  ASSUME NEW i \in 1 .. 7, Advance(i)
  PROVE  \/ at' = 7 /\ phase' = "serving" /\ isReady' = TRUE
         \/ /\ at' \in i .. 6 /\ Order[at'] \in enabled /\ UNCHANGED <<phase, isReady>>
            /\ \A j \in i .. 6 : Order[j] \in enabled => at' <= j
<1> DEFINE rest == {j \in i .. 6 : Order[j] \in enabled}
<1>1. Len(Order) = 6
  BY OrderFacts
<1>2. CASE rest = {}
  BY <1>1, <1>2 DEF Advance
<1>3. CASE rest # {}
  <2>1. \E j \in rest : \A k \in rest : j <= k
    <3>1. rest \subseteq 1 .. 6
      OBVIOUS
    <3> HIDE DEF rest
    <3>2. \/ 1 \in rest \/ 2 \in rest \/ 3 \in rest \/ 4 \in rest \/ 5 \in rest \/ 6 \in rest
      <4>1. PICK k \in rest : TRUE
        BY <1>3
      <4>2. k = 1 \/ k = 2 \/ k = 3 \/ k = 4 \/ k = 5 \/ k = 6
        BY <3>1, <4>1
      <4> QED BY <4>1, <4>2
    <3> QED BY <3>1, <3>2
  <2>2. /\ at' = CHOOSE j \in rest : \A k \in rest : j <= k
        /\ UNCHANGED <<phase, isReady>>
    BY <1>1, <1>3 DEF Advance
  <2>3. at' \in rest /\ \A k \in rest : at' <= k
    BY <2>1, <2>2
  <2> QED BY <2>2, <2>3
<1> QED BY <1>2, <1>3

-----------------------------------------------------------------------------
(* The stack.                                                              *)

\* What is pushed comes after all that is on the stack and before nothing that
\* is missing.
LEMMA Pushed ==
  ASSUME stack \in Seq(Contexts), NEW c \in enabled, enabled \subseteq Contexts,
         stack' = Append(stack, c), UNCHANGED enabled,
         StackOrdered, StackComplete,
         \A i \in 1 .. Len(stack) : Place[stack[i]] < Place[c] /\ state'[stack[i]] = "open",
         \A d \in enabled : Place[d] < Place[c] => OnStack(d)
  PROVE  /\ stack' \in Seq(Contexts) /\ StackOrdered' /\ StackComplete'
         /\ \A d : OnStack(d)' <=> OnStack(d) \/ d = c
         /\ \A i \in 1 .. Len(stack') : stack'[i] = c \/ \E j \in 1 .. Len(stack) : stack'[i] = stack[j]
<1>1. /\ stack' \in Seq(Contexts) /\ Len(stack') = Len(stack) + 1 /\ Len(stack) \in Nat
      /\ \A i \in 1 .. Len(stack) : stack'[i] = stack[i]
      /\ stack'[Len(stack')] = c
  OBVIOUS
<1>2. \A d : OnStack(d)' <=> OnStack(d) \/ d = c
  BY <1>1 DEF OnStack
<1>3. \A i \in 1 .. Len(stack') : i \in 1 .. Len(stack) \/ i = Len(stack')
  BY <1>1
<1>4. StackOrdered'
  <2>1. \A i \in 1 .. Len(stack') : stack'[i] \in enabled
    BY <1>1, <1>3 DEF StackOrdered
  <2>2. ASSUME NEW i \in 1 .. Len(stack'), NEW j \in 1 .. Len(stack'), i < j
        PROVE  Place[stack'[i]] < Place[stack'[j]]
    <3>1. i \in 1 .. Len(stack) /\ stack'[i] = stack[i]
      BY <1>1, <2>2
    <3>2. CASE j = Len(stack')
      BY <1>1, <3>1, <3>2
    <3>3. CASE j \in 1 .. Len(stack)
      BY <1>1, <2>2, <3>1, <3>3 DEF StackOrdered
    <3> QED BY <1>3, <3>2, <3>3
  <2>3. \A i \in 1 .. Len(stack') : i < Len(stack') => state'[stack'[i]] = "open"
    BY <1>1, <1>3
  <2> QED BY <2>1, <2>2, <2>3 DEF StackOrdered, IsOpen
<1>5. StackComplete'
  <2> SUFFICES ASSUME NEW i \in 1 .. Len(stack'), NEW d \in enabled, Place[d] < Place[stack'[i]]
               PROVE  OnStack(d)'
    BY DEF StackComplete
  <2>1. CASE i = Len(stack')
    BY <1>1, <1>2, <2>1
  <2>2. CASE i \in 1 .. Len(stack)
    BY <1>1, <1>2, <2>2 DEF StackComplete
  <2> QED BY <1>3, <2>1, <2>2
<1> QED BY <1>1, <1>2, <1>3, <1>4, <1>5

\* What is popped is above all that stays.
LEMMA Popped ==
  ASSUME stack \in Seq(Contexts), stack # <<>>, enabled \subseteq Contexts,
         stack' = SubSeq(stack, 1, Len(stack) - 1), UNCHANGED enabled,
         StackOrdered, StackComplete,
         \A c \in Contexts : c # stack[Len(stack)] => state'[c] = state[c]
  PROVE  /\ stack' \in Seq(Contexts) /\ StackOrdered' /\ StackComplete'
         /\ \A d : OnStack(d) => OnStack(d)' \/ d = stack[Len(stack)]
<1>1. /\ Len(stack) \in Nat \ {0}
      /\ stack' \in Seq(Contexts) /\ Len(stack') = Len(stack) - 1
      /\ \A i \in 1 .. Len(stack) : stack[i] \in Contexts
      /\ \A i \in 1 .. Len(stack') : i \in 1 .. Len(stack) /\ i < Len(stack) /\ stack'[i] = stack[i]
  <2>1. Len(stack) \in Nat /\ Len(stack) # 0 /\ \A i \in 1 .. Len(stack) : stack[i] \in Contexts
    OBVIOUS
  <2>2. /\ 1 \in Int /\ Len(stack) - 1 \in Int
        /\ \A i \in 1 .. Len(stack) - 1 : stack[i] \in Contexts
    BY <2>1
  <2>3. /\ stack' \in Seq(Contexts)
        /\ Len(stack') = IF 1 <= Len(stack) - 1 THEN Len(stack) - 1 - 1 + 1 ELSE 0
        /\ \A i \in 1 .. Len(stack) - 1 - 1 + 1 : stack'[i] = stack[1 + i - 1]
    BY <2>2, SubSeqProperties
  <2>4. Len(stack') = Len(stack) - 1
    <3>1. CASE Len(stack) = 1
      BY <2>3, <3>1
    <3>2. CASE Len(stack) - 1 \in Nat \ {0}
      <4> DEFINE n == Len(stack) - 1
      <4>1. n \in Nat \ {0} /\ Len(stack') = IF 1 <= n THEN n - 1 + 1 ELSE 0
        BY <2>3, <3>2
      <4> HIDE DEF n
      <4>2. Len(stack') = n
        BY <4>1
      <4> QED BY <4>2 DEF n
    <3> QED BY <2>1, <3>1, <3>2
  <2>5. \A i \in 1 .. Len(stack) - 1 : stack'[i] = stack[i]
    BY <2>1, <2>3
  <2> QED BY <2>1, <2>3, <2>4, <2>5
<1>2. \A i \in 1 .. Len(stack) : i < Len(stack) => stack[i] # stack[Len(stack)]
  <2> SUFFICES ASSUME NEW i \in 1 .. Len(stack), i < Len(stack)
               PROVE  stack[i] # stack[Len(stack)]
    OBVIOUS
  <2>1. Len(stack) \in 1 .. Len(stack)
    BY <1>1
  <2>2. Place[stack[i]] < Place[stack[Len(stack)]] /\ Place[stack[i]] \in 1 .. 6
    BY <1>1, <2>1, OrderFacts DEF StackOrdered
  <2> QED BY <2>2
<1>3. StackOrdered'
  <2>1. \A i \in 1 .. Len(stack') : stack'[i] \in enabled
    BY <1>1 DEF StackOrdered
  <2>2. \A i, j \in 1 .. Len(stack') : i < j => Place[stack'[i]] < Place[stack'[j]]
    BY <1>1 DEF StackOrdered
  <2>3. ASSUME NEW i \in 1 .. Len(stack')
        PROVE  state'[stack'[i]] = "open"
    BY <1>1, <1>2 DEF StackOrdered, IsOpen
  <2> QED BY <2>1, <2>2, <2>3 DEF StackOrdered, IsOpen
<1>4. \A i \in 1 .. Len(stack) : i = Len(stack) \/ (i \in 1 .. Len(stack') /\ stack'[i] = stack[i])
  BY <1>1
<1>5. \A d : OnStack(d) => OnStack(d)' \/ d = stack[Len(stack)]
  BY <1>4 DEF OnStack
<1>6. StackComplete'
  <2> SUFFICES ASSUME NEW i \in 1 .. Len(stack'), NEW d \in enabled, Place[d] < Place[stack'[i]]
               PROVE  OnStack(d)'
    BY DEF StackComplete
  <2>1. OnStack(d)
    BY <1>1 DEF StackComplete
  <2>2. Len(stack) \in 1 .. Len(stack) /\ i \in 1 .. Len(stack) /\ i < Len(stack) /\ stack'[i] = stack[i]
    BY <1>1
  <2>3. Place[stack[i]] < Place[stack[Len(stack)]]
    BY <2>2 DEF StackOrdered
  <2>4. Place[d] \in 1 .. 6 /\ Place[stack[i]] \in 1 .. 6 /\ Place[stack[Len(stack)]] \in 1 .. 6
    BY <1>1, <2>2, OrderFacts
  <2>5. d # stack[Len(stack)]
    BY <2>2, <2>3, <2>4
  <2> QED BY <1>5, <2>1, <2>5
<1> QED BY <1>1, <1>3, <1>5, <1>6

-----------------------------------------------------------------------------
(* The lifespan.                                                           *)

StackInv == AssemblyTypes /\ StackOrdered /\ StackComplete /\ Accounted /\ StartedSoFar

\* A step that leaves the stack and the states as they are.
LEMMA SameStack ==
  ASSUME StackInv, UNCHANGED <<enabled, stack, state>>
  PROVE  /\ StackOrdered' /\ StackComplete' /\ \A d : OnStack(d)' <=> OnStack(d)
         /\ \A c : IsOpen(c)' <=> IsOpen(c)
BY DEF StackInv, StackOrdered, StackComplete, OnStack, IsOpen

\* The startup goes on behind what it has entered.
LEMMA AdvanceKeeps ==
  ASSUME NEW i \in 1 .. 7, Advance(i), phase = "starting", UNCHANGED enabled,
         enabled \subseteq Contexts, stack' \in Seq(Contexts),
         \A d \in enabled : Place[d] < i => OnStack(d)',
         \A j \in 1 .. Len(stack') : Place[stack'[j]] < i /\ state'[stack'[j]] = "open",
         \A c \in Contexts : state'[c] # "closed" => OnStack(c)'
  PROVE  /\ StartedSoFar' /\ Accounted' /\ at' \in 0 .. 7
         /\ phase' \in {"starting", "serving"} /\ isReady' \in {isReady, TRUE}
<1>1. CASE at' = 7 /\ phase' = "serving" /\ isReady' = TRUE
  BY <1>1 DEF StartedSoFar, Accounted, IsOpen, Entering
<1>2. CASE /\ at' \in i .. 6 /\ Order[at'] \in enabled /\ UNCHANGED <<phase, isReady>>
           /\ \A j \in i .. 6 : Order[j] \in enabled => at' <= j
  <2>1. at' \in 1 .. 6
    BY <1>2
  <2>2. ASSUME NEW d \in enabled, Place[d] < at'
        PROVE  OnStack(d)'
    <3>1. Place[d] \in 1 .. 6 /\ Order[Place[d]] = d
      BY OrderFacts
    <3>2. Place[d] < i
      BY <1>2, <2>1, <2>2, <3>1
    <3> QED BY <3>2
  <2>3. ASSUME NEW j \in 1 .. Len(stack')
        PROVE  Place[stack'[j]] < at'
    <3>1. stack'[j] \in Contexts
      OBVIOUS
    <3>2. Place[stack'[j]] \in 1 .. 6
      BY <3>1, OrderFacts
    <3> QED BY <1>2, <2>1, <3>2
  <2> QED BY <1>2, <2>1, <2>2, <2>3 DEF StartedSoFar, Accounted, IsOpen
<1> QED BY <1>1, <1>2, AdvanceNext

LEMMA StartKeeps == StackInv /\ Start => StackInv'
<1> SUFFICES ASSUME StackInv, Start PROVE StackInv'
  OBVIOUS
<1>1. /\ phase = "down" /\ life' = life + 1 /\ phase' = "starting" /\ at' = 0
      /\ UNCHANGED <<config, stack, state, isReady, registered, requests>>
  BY DEF Start
<1>2. AssemblyTypes'
  BY <1>1 DEF StackInv, AssemblyTypes, config, registered, requests
<1>3. /\ StackOrdered' /\ StackComplete' /\ \A d : OnStack(d)' <=> OnStack(d)
      /\ \A c : IsOpen(c)' <=> IsOpen(c)
  BY <1>1, SameStack DEF config
<1>4. stack = <<>> /\ ~\E c : OnStack(c)
  BY <1>1 DEF StackInv, StartedSoFar, OnStack
<1>5. Accounted'
  BY <1>1, <1>3, <1>4 DEF StackInv, Accounted, Entering
<1>6. StartedSoFar'
  <2>1. \A d \in enabled : ~(Place[d] < 0)
    BY OrderFacts DEF StackInv, AssemblyTypes
  <2>2. \A i \in 1 .. Len(stack) : FALSE
    BY <1>4
  <2> QED BY <1>1, <2>1, <2>2 DEF StartedSoFar, config
<1> QED BY <1>2, <1>3, <1>5, <1>6 DEF StackInv

LEMMA SkipKeeps == StackInv /\ Skip => StackInv'
<1> SUFFICES ASSUME StackInv, Skip PROVE StackInv'
  OBVIOUS
<1>1. /\ phase = "starting" /\ at = 0 /\ Advance(1)
      /\ UNCHANGED <<config, life, stack, state, registered, requests>>
  BY DEF Skip
<1>2. /\ StackOrdered' /\ StackComplete' /\ \A d : OnStack(d)' <=> OnStack(d)
      /\ \A c : IsOpen(c)' <=> IsOpen(c)
  BY <1>1, SameStack DEF config
<1>3. enabled \subseteq Contexts /\ stack \in Seq(Contexts)
  BY DEF StackInv, AssemblyTypes
<1>4. \A j \in 1 .. Len(stack) : FALSE
  <2> SUFFICES ASSUME NEW j \in 1 .. Len(stack) PROVE FALSE
    OBVIOUS
  <2>1. Place[stack[j]] \in 1 .. 6 /\ Place["database"] = 1
    BY <1>3, OrderFacts, Places
  <2> QED BY <1>1, <2>1 DEF StackInv, StartedSoFar
<1>5. \A d \in enabled : ~(Place[d] < 1)
  BY <1>3, OrderFacts
<1>6. \A c \in Contexts : state'[c] # "closed" => OnStack(c)'
  BY <1>1, <1>2 DEF StackInv, Accounted, Entering
<1>7. /\ StartedSoFar' /\ Accounted' /\ at' \in 0 .. 7
      /\ phase' \in {"starting", "serving"} /\ isReady' \in {isReady, TRUE}
  <2>1. /\ \A d \in enabled : Place[d] < 1 => OnStack(d)'
        /\ \A j \in 1 .. Len(stack') : Place[stack'[j]] < 1 /\ state'[stack'[j]] = "open"
        /\ stack' \in Seq(Contexts) /\ UNCHANGED enabled /\ 1 \in 1 .. 7
    BY <1>1, <1>3, <1>4, <1>5 DEF config
  <2> QED BY <1>1, <1>3, <1>6, <2>1, AdvanceKeeps
<1>8. AssemblyTypes'
  BY <1>1, <1>7 DEF StackInv, AssemblyTypes, config, registered, requests
<1> QED BY <1>2, <1>7, <1>8 DEF StackInv

LEMMA EnterKeeps ==
  ASSUME StackInv, NEW c \in Contexts, Enter(c)
  PROVE  StackInv'
<1>1. /\ Entering(c) /\ state[c] = "closed" /\ state' = [state EXCEPT ![c] = "opening"]
      /\ registry' \in BOOLEAN /\ admin' \in BOOLEAN
      /\ services' \in {services, services \cup {"saleor"}}
      /\ UNCHANGED <<config, life, phase, at, stack, isReady, verifier, requests>>
  BY DEF Enter, StackInv, AssemblyTypes
<1>2. AssemblyTypes'
  BY <1>1 DEF StackInv, AssemblyTypes, config, requests
<1>3. \A d : OnStack(d)' <=> OnStack(d)
  BY <1>1 DEF OnStack
<1>4. \A i \in 1 .. Len(stack) : IsOpen(stack[i]) /\ stack[i] # c
  BY <1>1 DEF StackInv, StartedSoFar, Entering, IsOpen
<1>5. \A i \in 1 .. Len(stack) : stack[i] \in Contexts
  BY DEF StackInv, AssemblyTypes
<1>6. \A i \in 1 .. Len(stack) : IsOpen(stack[i])'
  BY <1>1, <1>4, <1>5 DEF StackInv, AssemblyTypes, IsOpen
<1>7. StackOrdered' /\ StackComplete'
  BY <1>1, <1>3, <1>6 DEF StackInv, StackOrdered, StackComplete, config
<1>8. Accounted'
  BY <1>1, <1>3 DEF StackInv, AssemblyTypes, Accounted, Entering
<1>9. StartedSoFar'
  BY <1>1, <1>3, <1>6 DEF StackInv, StartedSoFar, Entering, config
<1> QED BY <1>2, <1>7, <1>8, <1>9 DEF StackInv

\* c = Order[at] has been entered and is pushed.
LEMMA PushedAt ==
  ASSUME StackInv, NEW c \in Contexts, Entering(c), c # "database" \/ state[c] = "opening",
         state' = [state EXCEPT ![c] = "open"], stack' = Append(stack, c), UNCHANGED config
  PROVE  /\ stack' \in Seq(Contexts) /\ StackOrdered' /\ StackComplete'
         /\ \A d : OnStack(d)' <=> OnStack(d) \/ d = c
         /\ \A i \in 1 .. Len(stack') :
              stack'[i] \in Contexts /\ Place[stack'[i]] <= at /\ state'[stack'[i]] = "open"
         /\ at \in 1 .. 6 /\ Place[c] = at /\ c = Order[at] /\ c \in enabled
         /\ \A d \in enabled : Place[d] < at => OnStack(d)
         /\ \A i \in 1 .. Len(stack') : stack'[i] = c \/ Place[stack'[i]] < at
<1>1. /\ at \in 1 .. 6 /\ c = Order[at] /\ phase = "starting" /\ Place[c] = at
  BY OrderFacts DEF Entering
<1>2. c \in enabled /\ \A d \in enabled : Place[d] < at => OnStack(d)
  BY <1>1 DEF StackInv, StartedSoFar
<1>3. ASSUME NEW i \in 1 .. Len(stack)
      PROVE  /\ stack[i] \in Contexts /\ Place[stack[i]] < at /\ IsOpen(stack[i])
             /\ state'[stack[i]] = "open" /\ stack[i] # c
  <2>1. stack[i] \in Contexts /\ IsOpen(stack[i])
    BY <1>1 DEF StackInv, AssemblyTypes, StartedSoFar
  <2>2. Place[stack[i]] < at \/ (stack[i] = "database" /\ at = Place["database"])
    BY <1>1 DEF StackInv, StartedSoFar
  <2>3. CASE stack[i] = "database" /\ at = Place["database"]
    <3>1. c = "database"
      BY <1>1, <2>3, OrderFacts
    <3> QED BY <2>1, <2>3, <3>1 DEF IsOpen
  <2>4. CASE Place[stack[i]] < at
    <3>1. stack[i] # c
      BY <1>1, <2>4
    <3> QED BY <2>1, <2>4, <3>1 DEF IsOpen, StackInv, AssemblyTypes
  <2> QED BY <2>2, <2>3, <2>4
<1>4. enabled \subseteq Contexts /\ stack \in Seq(Contexts) /\ StackOrdered /\ StackComplete
      /\ UNCHANGED enabled
  BY DEF StackInv, AssemblyTypes, config
<1>5. /\ stack' \in Seq(Contexts) /\ StackOrdered' /\ StackComplete'
      /\ \A d : OnStack(d)' <=> OnStack(d) \/ d = c
      /\ \A i \in 1 .. Len(stack') : stack'[i] = c \/ \E j \in 1 .. Len(stack) : stack'[i] = stack[j]
  BY <1>1, <1>2, <1>3, <1>4, Pushed
<1>6. state'[c] = "open"
  BY DEF StackInv, AssemblyTypes
<1>7. ASSUME NEW i \in 1 .. Len(stack')
      PROVE  /\ stack'[i] \in Contexts /\ Place[stack'[i]] <= at /\ state'[stack'[i]] = "open"
             /\ stack'[i] = c \/ Place[stack'[i]] < at
  <2>1. CASE stack'[i] = c
    BY <1>1, <1>6, <2>1 DEF IsOpen
  <2>2. CASE \E j \in 1 .. Len(stack) : stack'[i] = stack[j]
    <3>1. PICK j \in 1 .. Len(stack) : stack'[i] = stack[j]
      BY <2>2
    <3>2. Place[stack[j]] \in 1 .. 6
      BY <1>3, OrderFacts
    <3> QED BY <1>1, <1>3, <3>1, <3>2 DEF IsOpen
  <2> QED BY <1>5, <2>1, <2>2
<1> QED BY <1>1, <1>2, <1>5, <1>7

LEMMA EnteredIsAccounted ==
  ASSUME StackInv, NEW c \in Contexts, Entering(c), state' = [state EXCEPT ![c] = "open"],
         \A d : OnStack(d)' <=> OnStack(d) \/ d = c
  PROVE  \A d \in Contexts : state'[d] # "closed" => OnStack(d)'
<1> SUFFICES ASSUME NEW d \in Contexts, state'[d] # "closed", d # c PROVE OnStack(d)
  OBVIOUS
<1>1. state[d] # "closed"
  BY DEF StackInv, AssemblyTypes
<1>2. ~Entering(d)
  BY DEF Entering
<1> QED BY <1>1, <1>2 DEF StackInv, Accounted

\* ... and the startup goes on with what comes next.
LEMMA PushedAndAdvanced ==
  ASSUME StackInv, NEW c \in Contexts, Entering(c), c # "database" \/ state[c] = "opening",
         state' = [state EXCEPT ![c] = "open"], stack' = Append(stack, c), UNCHANGED config,
         Advance(at + 1)
  PROVE  /\ stack' \in Seq(Contexts) /\ StackOrdered' /\ StackComplete'
         /\ StartedSoFar' /\ Accounted' /\ at' \in 0 .. 7
         /\ phase' \in {"starting", "serving"} /\ isReady' \in {isReady, TRUE}
<1>1. /\ stack' \in Seq(Contexts) /\ StackOrdered' /\ StackComplete'
      /\ \A d : OnStack(d)' <=> OnStack(d) \/ d = c
      /\ \A i \in 1 .. Len(stack') :
           stack'[i] \in Contexts /\ Place[stack'[i]] <= at /\ state'[stack'[i]] = "open"
      /\ at \in 1 .. 6 /\ Place[c] = at /\ c = Order[at] /\ c \in enabled
      /\ \A d \in enabled : Place[d] < at => OnStack(d)
  BY PushedAt
<1>2. enabled \subseteq Contexts /\ UNCHANGED enabled /\ phase = "starting"
  BY DEF StackInv, AssemblyTypes, config, Entering
<1>3. \A d \in Contexts : state'[d] # "closed" => OnStack(d)'
  BY <1>1, EnteredIsAccounted
<1>4. \A d \in enabled : Place[d] < at + 1 => OnStack(d)'
  <2> SUFFICES ASSUME NEW d \in enabled, Place[d] < at + 1, ~(Place[d] < at) PROVE d = c
    BY <1>1
  <2>1. Place[d] \in 1 .. 6 /\ Order[Place[d]] = d
    BY <1>2, OrderFacts
  <2> QED BY <1>1, <2>1
<1>5. \A i \in 1 .. Len(stack') : Place[stack'[i]] < at + 1 /\ state'[stack'[i]] = "open"
  <2> SUFFICES ASSUME NEW i \in 1 .. Len(stack') PROVE Place[stack'[i]] < at + 1
    BY <1>1
  <2>1. Place[stack'[i]] \in 1 .. 6
    BY <1>1, OrderFacts
  <2> QED BY <1>1, <2>1
<1>6. at + 1 \in 1 .. 7
  BY <1>1
<1>7. /\ StartedSoFar' /\ Accounted' /\ at' \in 0 .. 7
      /\ phase' \in {"starting", "serving"} /\ isReady' \in {isReady, TRUE}
  BY <1>1, <1>2, <1>3, <1>4, <1>5, <1>6, AdvanceKeeps
<1> QED BY <1>1, <1>7

LEMMA EnteredKeeps ==
  ASSUME StackInv, NEW c \in Contexts, Entered(c)
  PROVE  StackInv'
<1>1. /\ Entering(c) /\ state[c] = "opening" /\ state' = [state EXCEPT ![c] = "open"]
      /\ stack' = Append(stack, c)
      /\ UNCHANGED <<config, life, registered, requests>>
      /\ \/ c = "database" /\ UNCHANGED <<at, phase, isReady>>
         \/ Advance(at + 1)
  BY DEF Entered
<1>2. CASE c = "database" /\ UNCHANGED <<at, phase, isReady>>
  <2>1. /\ stack' \in Seq(Contexts) /\ StackOrdered' /\ StackComplete'
        /\ \A d : OnStack(d)' <=> OnStack(d) \/ d = c
        /\ \A i \in 1 .. Len(stack') : state'[stack'[i]] = "open"
        /\ at \in 1 .. 6 /\ Place[c] = at /\ c = Order[at] /\ c \in enabled
        /\ \A d \in enabled : Place[d] < at => OnStack(d)
        /\ \A i \in 1 .. Len(stack') : stack'[i] = c \/ Place[stack'[i]] < at
    BY <1>1, PushedAt
  <2>2. StartedSoFar'
    <3>1. at' = at /\ phase' = "starting" /\ Order[at] \in enabled /\ at # 7 /\ UNCHANGED enabled
      BY <1>1, <1>2, <2>1 DEF Entering, config
    <3>2. \A d \in enabled' : Place[d] < at' => OnStack(d)'
      BY <2>1, <3>1
    <3>3. \A i \in 1 .. Len(stack') :
            Place[stack'[i]] < at \/ (stack'[i] = "database" /\ at = Place["database"])
      BY <1>2, <2>1
    <3>4. \A i \in 1 .. Len(stack') : IsOpen(stack[i])'
      BY <2>1 DEF IsOpen
    <3> QED BY <3>1, <3>2, <3>3, <3>4 DEF StartedSoFar
  <2>3. Accounted'
    BY <1>1, <2>1, EnteredIsAccounted DEF Accounted
  <2>4. AssemblyTypes'
    BY <1>1, <1>2, <2>1 DEF StackInv, AssemblyTypes, config, registered, requests
  <2> QED BY <2>1, <2>2, <2>3, <2>4 DEF StackInv
<1>3. CASE Advance(at + 1)
  <2>1. /\ stack' \in Seq(Contexts) /\ StackOrdered' /\ StackComplete'
        /\ StartedSoFar' /\ Accounted' /\ at' \in 0 .. 7
        /\ phase' \in {"starting", "serving"} /\ isReady' \in {isReady, TRUE}
    BY <1>1, <1>3, PushedAndAdvanced
  <2>2. AssemblyTypes'
    BY <1>1, <2>1 DEF StackInv, AssemblyTypes, config, registered, requests
  <2> QED BY <2>1, <2>2 DEF StackInv
<1> QED BY <1>1, <1>2, <1>3

LEMMA AssembleKeeps == StackInv /\ Assemble => StackInv'
<1> SUFFICES ASSUME StackInv, Assemble PROVE StackInv'
  OBVIOUS
<1>1. /\ Entering("agui_runner") /\ state' = [state EXCEPT !["agui_runner"] = "open"]
      /\ stack' = Append(stack, "agui_runner")
      /\ services' = services \cup {"agui_runner"} /\ Advance(at + 1)
      /\ UNCHANGED <<config, life, registry, verifier, admin, requests>>
      /\ "agui_runner" \in Contexts
  BY OrderFacts DEF Assemble
<1>2. /\ stack' \in Seq(Contexts) /\ StackOrdered' /\ StackComplete'
      /\ StartedSoFar' /\ Accounted' /\ at' \in 0 .. 7
      /\ phase' \in {"starting", "serving"} /\ isReady' \in {isReady, TRUE}
  BY <1>1, PushedAndAdvanced
<1>3. AssemblyTypes'
  BY <1>1, <1>2 DEF StackInv, AssemblyTypes, config, requests
<1> QED BY <1>2, <1>3 DEF StackInv

LEMMA MakeVerifierKeeps == StackInv /\ MakeVerifier => StackInv'
<1> SUFFICES ASSUME StackInv, MakeVerifier PROVE StackInv'
  OBVIOUS
<1>1. /\ Entering("database") /\ IsOpen("database") /\ verifier' = TRUE /\ Advance(at + 1)
      /\ UNCHANGED <<config, life, stack, state, services, registry, admin, requests>>
  BY DEF MakeVerifier
<1>2. /\ StackOrdered' /\ StackComplete' /\ \A d : OnStack(d)' <=> OnStack(d)
      /\ \A d : IsOpen(d)' <=> IsOpen(d)
  BY <1>1, SameStack DEF config
<1>3. /\ enabled \subseteq Contexts /\ UNCHANGED enabled /\ phase = "starting"
      /\ stack \in Seq(Contexts) /\ stack' = stack
  BY <1>1 DEF StackInv, AssemblyTypes, config, Entering
<1>4. "database" \in Contexts /\ Place["database"] = 1 /\ Order[1] = "database"
  BY OrderFacts, Places DEF Order
<1>5. at = 1
  BY <1>1, <1>4, OrderFacts DEF Entering
<1>6. OnStack("database")
  BY <1>1, <1>4 DEF StackInv, Accounted, IsOpen
<1>7. \A d \in Contexts : state'[d] # "closed" => OnStack(d)'
  <2> SUFFICES ASSUME NEW d \in Contexts, state[d] # "closed", d # "database" PROVE OnStack(d)
    BY <1>1, <1>2, <1>6
  <2>1. ~Entering(d)
    BY <1>4, <1>5 DEF Entering
  <2> QED BY <2>1 DEF StackInv, Accounted
<1>8. \A d \in enabled : Place[d] < 2 => OnStack(d)'
  <2> SUFFICES ASSUME NEW d \in enabled, Place[d] < 2 PROVE d = "database"
    BY <1>2, <1>6
  <2>1. Place[d] \in 1 .. 6 /\ Order[Place[d]] = d
    BY <1>3, OrderFacts
  <2> QED BY <1>4, <2>1
<1>9. \A i \in 1 .. Len(stack') : Place[stack'[i]] < 2 /\ state'[stack'[i]] = "open"
  <2> SUFFICES ASSUME NEW i \in 1 .. Len(stack)
               PROVE  Place[stack[i]] < 2 /\ IsOpen(stack[i])
    BY <1>1, <1>3 DEF IsOpen
  <2>1. Place[stack[i]] < 1 \/ stack[i] = "database"
    BY <1>3, <1>5 DEF StackInv, StartedSoFar
  <2>2. Place[stack[i]] \in 1 .. 6
    BY <1>3, OrderFacts
  <2>3. IsOpen(stack[i])
    BY <1>3 DEF StackInv, StartedSoFar
  <2> QED BY <1>4, <2>1, <2>2, <2>3
<1>10. /\ StartedSoFar' /\ Accounted' /\ at' \in 0 .. 7
       /\ phase' \in {"starting", "serving"} /\ isReady' \in {isReady, TRUE}
  <2>1. Advance(2) /\ 2 \in 1 .. 7
    BY <1>1, <1>5
  <2> QED BY <1>3, <1>7, <1>8, <1>9, <2>1, AdvanceKeeps
<1>11. AssemblyTypes'
  BY <1>1, <1>10 DEF StackInv, AssemblyTypes, config, requests
<1> QED BY <1>2, <1>10, <1>11 DEF StackInv

LEMMA StartupFailsKeeps == StackInv /\ StartupFails => StackInv'
<1> SUFFICES ASSUME StackInv, StartupFails PROVE StackInv'
  OBVIOUS
<1> DEFINE c == Order[at]
<1>1. /\ phase = "starting" /\ at \in 1 .. 6 /\ phase' = "unwinding"
      /\ stack' = IF state[c] = "opening" THEN Append(stack, c) ELSE stack
      /\ UNCHANGED <<config, life, at, state, isReady, registered, requests>>
  BY OrderFacts DEF StartupFails
<1>2. /\ c \in Contexts /\ Place[c] = at /\ c \in enabled
      /\ \A d \in enabled : Place[d] < at => OnStack(d)
  BY <1>1, OrderFacts DEF StackInv, StartedSoFar
<1>3. /\ enabled \subseteq Contexts /\ stack \in Seq(Contexts) /\ StackOrdered /\ StackComplete
      /\ UNCHANGED enabled
  BY <1>1 DEF StackInv, AssemblyTypes, config
<1>4. \A d \in Contexts : state[d] # "closed" => OnStack(d) \/ (d = c /\ state[d] = "opening")
  BY DEF StackInv, Accounted, Entering
<1> HIDE DEF c
<1>5. CASE state[c] = "opening"
  <2>1. ASSUME NEW i \in 1 .. Len(stack)
        PROVE  Place[stack[i]] < Place[c] /\ state'[stack[i]] = "open"
    <3>1. stack[i] \in Contexts /\ IsOpen(stack[i])
      BY <1>1, <1>3 DEF StackInv, StartedSoFar
    <3>2. stack[i] # c
      BY <1>5, <3>1 DEF IsOpen
    <3>3. Place[stack[i]] < at \/ (stack[i] = "database" /\ at = Place["database"])
      BY <1>1 DEF StackInv, StartedSoFar
    <3>4. ~(stack[i] = "database" /\ at = Place["database"])
      BY <1>1, <3>2, OrderFacts DEF c
    <3> QED BY <1>1, <1>2, <3>1, <3>3, <3>4 DEF IsOpen
  <2>2. stack' = Append(stack, c)
    BY <1>1, <1>5
  <2>3. /\ stack' \in Seq(Contexts) /\ StackOrdered' /\ StackComplete'
        /\ \A d : OnStack(d)' <=> OnStack(d) \/ d = c
    BY <1>2, <1>3, <2>1, <2>2, Pushed
  <2>4. AssemblyTypes'
    BY <1>1, <2>3 DEF StackInv, AssemblyTypes, config, registered, requests
  <2>5. Accounted' /\ StartedSoFar'
    BY <1>1, <1>4, <2>3 DEF Accounted, StartedSoFar
  <2> QED BY <2>3, <2>4, <2>5 DEF StackInv
<1>6. CASE state[c] # "opening"
  <2>1. stack' = stack
    BY <1>1, <1>6
  <2>2. StackOrdered' /\ StackComplete' /\ \A d : OnStack(d)' <=> OnStack(d)
    BY <1>1, <2>1, SameStack DEF config
  <2>3. AssemblyTypes'
    BY <1>1, <2>1 DEF StackInv, AssemblyTypes, config, registered, requests
  <2>4. Accounted' /\ StartedSoFar'
    BY <1>1, <1>4, <1>6, <2>2 DEF Accounted, StartedSoFar
  <2> QED BY <2>2, <2>3, <2>4 DEF StackInv
<1> QED BY <1>5, <1>6

LEMMA ShutdownKeeps == StackInv /\ Shutdown => StackInv'
<1> SUFFICES ASSUME StackInv, Shutdown PROVE StackInv'
  OBVIOUS
<1>1. /\ phase = "serving" /\ phase' = "unwinding" /\ isReady' = FALSE
      /\ UNCHANGED <<config, life, at, stack, state, registered, requests>>
  BY DEF Shutdown
<1>2. StackOrdered' /\ StackComplete' /\ \A d : OnStack(d)' <=> OnStack(d)
  BY <1>1, SameStack DEF config
<1>3. AssemblyTypes'
  BY <1>1 DEF StackInv, AssemblyTypes, config, registered, requests
<1>4. Accounted' /\ StartedSoFar'
  BY <1>1, <1>2 DEF StackInv, Accounted, StartedSoFar, Entering
<1> QED BY <1>2, <1>3, <1>4 DEF StackInv

\* The top of the stack is apart from the rest.
LEMMA TopOfStack ==
  ASSUME StackInv, stack # <<>>
  PROVE  /\ Len(stack) \in Nat \ {0} /\ Innermost \in Contexts /\ OnStack(Innermost)
         /\ \A i \in 1 .. Len(stack) : stack[i] \in Contexts
         /\ \A i \in 1 .. Len(stack) : i < Len(stack) => stack[i] # Innermost
<1>1. stack \in Seq(Contexts)
  BY DEF StackInv, AssemblyTypes
<1>2. Len(stack) \in Nat \ {0} /\ \A i \in 1 .. Len(stack) : stack[i] \in Contexts
  BY <1>1
<1>3. Len(stack) \in 1 .. Len(stack)
  BY <1>2
<1>4. Innermost \in Contexts /\ OnStack(Innermost)
  BY <1>2, <1>3 DEF Innermost, OnStack
<1>5. ASSUME NEW i \in 1 .. Len(stack), i < Len(stack)
      PROVE  stack[i] # Innermost
  <2>1. Place[stack[i]] < Place[Innermost] /\ Place[stack[i]] \in 1 .. 6
    BY <1>2, <1>3, <1>5, OrderFacts DEF StackInv, StackOrdered, Innermost
  <2> QED BY <2>1
<1> QED BY <1>2, <1>4, <1>5

LEMMA LeaveKeeps == StackInv /\ Leave => StackInv'
<1> SUFFICES ASSUME StackInv, Leave PROVE StackInv'
  OBVIOUS
<1>1. /\ phase = "unwinding" /\ stack # <<>>
      /\ state[Innermost] \in {"opening", "open"}
      /\ state' = [state EXCEPT ![Innermost] = "closing"]
      /\ UNCHANGED <<config, life, phase, at, stack, isReady, registered, requests>>
  BY DEF Leave
<1>2. /\ Len(stack) \in Nat \ {0} /\ Innermost \in Contexts /\ OnStack(Innermost)
      /\ \A i \in 1 .. Len(stack) : stack[i] \in Contexts
      /\ \A i \in 1 .. Len(stack) : i < Len(stack) => stack[i] # Innermost
  BY <1>1, TopOfStack
<1>3. AssemblyTypes'
  BY <1>1, <1>2 DEF StackInv, AssemblyTypes, config, registered, requests
<1>4. \A d : OnStack(d)' <=> OnStack(d)
  BY <1>1 DEF OnStack
<1>5. StackOrdered'
  <2>1. \A i \in 1 .. Len(stack) : i < Len(stack) => state'[stack[i]] = "open"
    BY <1>1, <1>2 DEF StackInv, StackOrdered, AssemblyTypes, IsOpen
  <2> QED BY <1>1, <2>1 DEF StackInv, StackOrdered, IsOpen, config
<1>6. StackComplete'
  BY <1>1, <1>4 DEF StackInv, StackComplete, config
<1>7. Accounted'
  <2> SUFFICES ASSUME NEW d \in Contexts, state'[d] # "closed" PROVE OnStack(d)
    BY <1>4 DEF Accounted
  <2>1. state[d] # "closed" \/ d = Innermost
    BY <1>1, <1>2 DEF StackInv, AssemblyTypes
  <2> QED BY <1>1, <1>2, <2>1 DEF StackInv, Accounted, Entering
<1>8. StartedSoFar'
  BY <1>1 DEF StartedSoFar
<1> QED BY <1>3, <1>5, <1>6, <1>7, <1>8 DEF StackInv

LEMMA LeftKeeps == StackInv /\ Left => StackInv'
<1> SUFFICES ASSUME StackInv, Left PROVE StackInv'
  OBVIOUS
<1>1. /\ phase = "unwinding" /\ stack # <<>>
      /\ state' = [state EXCEPT ![Innermost] = "closed"]
      /\ stack' = SubSeq(stack, 1, Len(stack) - 1)
      /\ UNCHANGED <<config, life, phase, at, isReady, registered, requests>>
  BY DEF Left
<1>2. Innermost \in Contexts
  BY <1>1, TopOfStack
<1>3. /\ stack' \in Seq(Contexts) /\ StackOrdered' /\ StackComplete'
      /\ \A d : OnStack(d) => OnStack(d)' \/ d = Innermost
  <2>1. \A c \in Contexts : c # Innermost => state'[c] = state[c]
    BY <1>1 DEF StackInv, AssemblyTypes
  <2>2. /\ enabled \subseteq Contexts /\ stack \in Seq(Contexts) /\ StackOrdered /\ StackComplete
        /\ UNCHANGED enabled
    BY <1>1 DEF StackInv, AssemblyTypes, config
  <2> QED BY <1>1, <2>1, <2>2, Popped DEF Innermost
<1>4. AssemblyTypes'
  BY <1>1, <1>2, <1>3 DEF StackInv, AssemblyTypes, config, registered, requests
<1>5. Accounted'
  <2> SUFFICES ASSUME NEW d \in Contexts, state'[d] # "closed" PROVE OnStack(d)'
    BY DEF Accounted
  <2>1. d # Innermost /\ state[d] # "closed"
    BY <1>1, <1>2 DEF StackInv, AssemblyTypes
  <2>2. OnStack(d)
    BY <1>1, <2>1 DEF StackInv, Accounted, Entering
  <2> QED BY <1>3, <2>1, <2>2
<1>6. StartedSoFar'
  BY <1>1 DEF StartedSoFar
<1> QED BY <1>3, <1>4, <1>5, <1>6 DEF StackInv

LEMMA EndKeeps == StackInv /\ End => StackInv'
<1> SUFFICES ASSUME StackInv, End PROVE StackInv'
  OBVIOUS
<1>1. /\ phase = "unwinding" /\ stack = <<>> /\ phase' = "down" /\ isReady' = FALSE
      /\ services' = {} /\ registry' = FALSE /\ verifier' = FALSE /\ admin' = FALSE
      /\ UNCHANGED <<config, life, at, stack, state, requests>>
  BY DEF End
<1>2. StackOrdered' /\ StackComplete' /\ \A d : OnStack(d)' <=> OnStack(d)
  BY <1>1, SameStack DEF config
<1>3. AssemblyTypes'
  BY <1>1 DEF StackInv, AssemblyTypes, config, requests
<1>4. Accounted' /\ StartedSoFar'
  BY <1>1, <1>2 DEF StackInv, Accounted, StartedSoFar, Entering
<1> QED BY <1>2, <1>3, <1>4 DEF StackInv

\* A request's step touches nothing of the application.
LEMMA RequestKeeps ==
  ASSUME AssemblyInv, NEW q \in Requests, Request(q)
  PROVE  AssemblyInv'
<1>1. AssemblyTypes /\ StackInv
  BY DEF AssemblyInv, StackInv
<1>2. UNCHANGED app
  BY DEF Request, Arrive, Gate, VerifyFails, Begin, RunEnds, Abandoned, RunCancelled, CallTool,
         CallEnds, CallCancelled
<1>3. \E to \in {"idle", "verifying", "admitted", "running", "calling", "done", "abandoned"} :
        /\ request' = [request EXCEPT ![q] = to]
        /\ to = "running" => Accepts(q) /\ UNCHANGED runner
        /\ to = "calling" => IsOpen("admin_mcp")
        /\ \/ UNCHANGED runner
           \/ runner' = [runner EXCEPT ![q] = life] /\ to = "admitted"
  <2>1. CASE Arrive(q)
    BY <2>1 DEF Arrive, Move
  <2>2. CASE Gate(q)
    BY <2>2 DEF Gate, Move
  <2>3. CASE VerifyFails(q) \/ RunEnds(q) \/ RunCancelled(q) \/ CallEnds(q) \/ CallCancelled(q)
    BY <2>3 DEF VerifyFails, RunEnds, RunCancelled, CallEnds, CallCancelled, Move
  <2>4. CASE Begin(q)
    BY <2>4 DEF Begin, Move
  <2>5. CASE Abandoned(q)
    BY <2>5 DEF Abandoned, Move
  <2>6. CASE CallTool(q)
    BY <2>6 DEF CallTool, Move
  <2> QED BY <2>1, <2>2, <2>3, <2>4, <2>5, <2>6 DEF Request
<1>4. PICK to \in {"idle", "verifying", "admitted", "running", "calling", "done", "abandoned"} :
        /\ request' = [request EXCEPT ![q] = to]
        /\ to = "running" => Accepts(q) /\ UNCHANGED runner
        /\ to = "calling" => IsOpen("admin_mcp")
        /\ \/ UNCHANGED runner
           \/ runner' = [runner EXCEPT ![q] = life] /\ to = "admitted"
  BY <1>3
<1>5. AssemblyTypes'
  BY <1>1, <1>2, <1>4 DEF AssemblyTypes, app, config, registered
<1>6. WorkAccounted'
  <2> SUFFICES ASSUME NEW r \in Requests PROVE
        /\ request'[r] = "running" =>
             runner'[r] = life /\ state["agui_runner"] \in {"open", "closing"}
        /\ request'[r] = "calling" => state["admin_mcp"] \in {"open", "closing"}
    BY <1>2 DEF WorkAccounted, app
  <2>1. CASE r = q
    BY <1>1, <1>4, <2>1 DEF AssemblyTypes, Accepts, IsOpen
  <2>2. CASE r # q
    BY <1>1, <1>4, <2>2 DEF AssemblyTypes, AssemblyInv, WorkAccounted
  <2> QED BY <2>1, <2>2
<1>7. StackOrdered' /\ StackComplete' /\ Accounted' /\ StartedSoFar'
  BY <1>1, <1>2 DEF app, config, StackInv, StackOrdered, StackComplete, Accounted, StartedSoFar,
                    OnStack, IsOpen, Entering
<1>8. Unregistered'
  BY <1>2 DEF app, registered, AssemblyInv, Unregistered
<1> QED BY <1>5, <1>6, <1>7, <1>8 DEF AssemblyInv

\* A step of the lifespan closes nothing that work goes on with, and begins
\* a new life only when there is no such work.
LEMMA LifespanKeepsWork ==
  ASSUME AssemblyInv, Lifespan
  PROVE  WorkAccounted'
<1> USE DEF WorkAccounted
<1>1. AssemblyTypes /\ StackInv /\ WorkAccounted
  BY DEF AssemblyInv, StackInv
<1>2. CASE Start
  <2>1. stack = <<>> /\ \A c : ~OnStack(c)
    BY <1>1, <1>2 DEF Start, StackInv, StartedSoFar, OnStack
  <2>2. \A c \in Contexts : state[c] = "closed"
    BY <1>1, <1>2, <2>1 DEF StackInv, Accounted, Entering, Start
  <2>3. state["agui_runner"] = "closed" /\ state["admin_mcp"] = "closed"
    BY <2>2, OrderFacts
  <2> QED BY <1>1, <1>2, <2>3 DEF Start, requests
<1>3. CASE Skip \/ MakeVerifier \/ StartupFails \/ Shutdown \/ End
  BY <1>1, <1>3 DEF Skip, MakeVerifier, StartupFails, Shutdown, End, requests
<1>4. ASSUME NEW c \in Contexts, Enter(c) \/ Entered(c)
      PROVE  WorkAccounted'
  <2>1. /\ state[c] \in {"closed", "opening"} /\ UNCHANGED <<life, requests>>
        /\ \A d \in Contexts : d # c => state'[d] = state[d]
    BY <1>1, <1>4 DEF Enter, Entered, AssemblyTypes
  <2>2. \A d \in Contexts : state[d] \in {"open", "closing"} => state'[d] \in {"open", "closing"}
    BY <2>1
  <2> QED BY <1>1, <2>1, <2>2, OrderFacts DEF requests
<1>5. CASE Assemble
  <2>1. /\ UNCHANGED <<life, requests>> /\ state'["agui_runner"] = "open"
        /\ state'["admin_mcp"] = state["admin_mcp"]
    BY <1>1, <1>5, OrderFacts DEF Assemble, AssemblyTypes
  <2> QED BY <1>1, <2>1 DEF requests
<1>6. CASE Leave
  <2>1. Innermost \in Contexts
    BY <1>1, <1>6, TopOfStack DEF Leave
  <2>2. /\ UNCHANGED <<life, requests>>
        /\ \A d \in Contexts : state[d] \in {"open", "closing"} => state'[d] \in {"open", "closing"}
    BY <1>1, <1>6, <2>1 DEF Leave, AssemblyTypes
  <2> QED BY <1>1, <2>2, OrderFacts DEF requests
<1>7. CASE Left
  <2>1. Innermost \in Contexts
    BY <1>1, <1>7, TopOfStack DEF Left
  <2>2. /\ UNCHANGED <<life, requests>> /\ ~Busy(Innermost)
        /\ \A d \in Contexts : d # Innermost => state'[d] = state[d]
    BY <1>1, <1>7, <2>1 DEF Left, AssemblyTypes
  <2>3. \A q \in Requests : request[q] = "running" => Innermost # "agui_runner"
    BY <1>1, <2>2 DEF Busy, Driven
  <2>4. \A q \in Requests : request[q] = "calling" => Innermost # "admin_mcp"
    BY <2>2 DEF Busy
  <2> QED BY <1>1, <2>2, <2>3, <2>4, OrderFacts DEF requests
<1> QED BY <1>2, <1>3, <1>4, <1>5, <1>6, <1>7 DEF Lifespan

\* Nothing is registered when the lifespan ends, and only a start ends that.
LEMMA LifespanUnregisters ==
  ASSUME AssemblyInv, Lifespan
  PROVE  Unregistered'
<1>1. CASE End
  BY <1>1 DEF End, Unregistered
<1>2. CASE Start \/ StartupFails \/ Shutdown
  BY <1>2 DEF Start, StartupFails, Shutdown, Unregistered
<1>3. ASSUME Skip \/ MakeVerifier \/ Assemble \/ \E c \in Contexts : Enter(c) \/ Entered(c)
      PROVE  phase' # "down"
  BY <1>3 DEF Skip, MakeVerifier, Assemble, Enter, Entered, Entering, Advance
<1>4. CASE Leave \/ Left
  BY <1>4 DEF Leave, Left, Unregistered
<1> QED BY <1>1, <1>2, <1>3, <1>4 DEF Lifespan, Unregistered

LEMMA AssemblyInvInit == AssemblyInit => AssemblyInv
<1> SUFFICES ASSUME AssemblyInit PROVE AssemblyInv
  OBVIOUS
<1>1. AssemblyTypes
  <2>1. /\ enabled \subseteq Contexts /\ bff \in BOOLEAN
        /\ life \in Nat /\ phase \in {"down", "starting", "serving", "unwinding"} /\ at \in 0 .. 7
    BY DEF AssemblyInit
  <2>5. services \subseteq {"saleor", "agui_runner"}
    BY DEF AssemblyInit
  <2>6. isReady \in BOOLEAN /\ registry \in BOOLEAN /\ verifier \in BOOLEAN /\ admin \in BOOLEAN
    BY DEF AssemblyInit
  <2>2. stack \in Seq(Contexts)
    BY DEF AssemblyInit
  <2>3. state \in [Contexts -> {"closed", "opening", "open", "closing"}]
    BY DEF AssemblyInit
  <2>4. /\ request \in [Requests -> {"idle", "verifying", "admitted", "running", "calling",
                                    "done", "abandoned"}]
        /\ runner \in [Requests -> Nat]
    BY DEF AssemblyInit
  <2> QED BY <2>1, <2>2, <2>3, <2>4, <2>5, <2>6 DEF AssemblyTypes
<1>2. stack = <<>> /\ Len(stack) = 0 /\ phase = "down"
  BY DEF AssemblyInit
<1>3. StackOrdered /\ StackComplete
  BY <1>2 DEF StackOrdered, StackComplete
<1>4. Accounted /\ StartedSoFar /\ WorkAccounted /\ Unregistered
  BY <1>2 DEF AssemblyInit, Accounted, StartedSoFar, WorkAccounted, Unregistered
<1> QED BY <1>1, <1>3, <1>4 DEF AssemblyInv

LEMMA AssemblyInvStutters == AssemblyInv /\ UNCHANGED assemblyVars => AssemblyInv'
BY DEF assemblyVars, config, registered, requests, AssemblyInv, AssemblyTypes, StackOrdered,
       StackComplete, Accounted, StartedSoFar, WorkAccounted, Unregistered, OnStack, IsOpen, Entering

LEMMA AssemblyInvNext == AssemblyInv /\ [AssemblyNext]_assemblyVars => AssemblyInv'
<1> SUFFICES ASSUME AssemblyInv, [AssemblyNext]_assemblyVars PROVE AssemblyInv'
  OBVIOUS
<1>1. CASE Lifespan
  <2>1. StackInv
    BY DEF AssemblyInv, StackInv
  <2>2. StackInv'
    BY <1>1, <2>1, StartKeeps, SkipKeeps, EnterKeeps, EnteredKeeps, MakeVerifierKeeps, AssembleKeeps,
       StartupFailsKeeps, ShutdownKeeps, LeaveKeeps, LeftKeeps, EndKeeps DEF Lifespan
  <2> QED BY <1>1, <2>2, LifespanKeepsWork, LifespanUnregisters DEF AssemblyInv, StackInv
<1>2. ASSUME NEW q \in Requests, Request(q)
      PROVE  AssemblyInv'
  BY <1>2, RequestKeeps
<1>3. CASE Terminated \/ UNCHANGED assemblyVars
  BY <1>3, AssemblyInvStutters DEF Terminated
<1> QED BY <1>1, <1>2, <1>3 DEF AssemblyNext

\* The stack of the lifespan is what has been entered, in the order of entry,
\* with nothing enabled left out, and requests work with what is still on it
\* (app_lifespan, AsyncExitStack, InProcessAgUiRunner.close).
THEOREM AssemblyInvariant == AssemblySpec => []AssemblyInv
<1>1. AssemblyInit => AssemblyInv
  BY AssemblyInvInit
<1>2. AssemblyInv /\ [AssemblyNext]_assemblyVars => AssemblyInv'
  BY AssemblyInvNext
<1> QED BY <1>1, <1>2, PTL DEF AssemblySpec

\* Whatever is enabled below something that is being used is open.
LEMMA BelowIsOpen ==
  ASSUME AssemblyInv, NEW c \in Contexts, state[c] # "closed",
         NEW d \in enabled, Place[d] < Place[c]
  PROVE  IsOpen(d)
<1>1. d \in Contexts
  BY DEF AssemblyInv, AssemblyTypes
<1>2. \A i \in 1 .. Len(stack) : stack[i] \in Contexts
  BY DEF AssemblyInv, AssemblyTypes
<1>3. CASE OnStack(c)
  <2>1. PICK i \in 1 .. Len(stack) : stack[i] = c
    BY <1>3 DEF OnStack
  <2>2. PICK j \in 1 .. Len(stack) : stack[j] = d
    BY <1>1, <2>1 DEF AssemblyInv, StackComplete, OnStack
  <2>3. j < i
    <3>1. Place[c] \in 1 .. 6 /\ Place[d] \in 1 .. 6
      BY <1>1, OrderFacts
    <3>2. ~(i < j)
      BY <1>1, <2>1, <2>2, <3>1 DEF AssemblyInv, StackOrdered
    <3>3. i # j
      BY <1>1, <2>1, <2>2, <3>1
    <3> QED BY <3>2, <3>3
  <2>4. j < Len(stack)
    BY <2>3 DEF AssemblyInv, AssemblyTypes
  <2> QED BY <2>2, <2>4 DEF AssemblyInv, StackOrdered
<1>4. CASE Entering(c)
  <2>1. Place[c] = at /\ phase = "starting"
    BY <1>4, OrderFacts DEF Entering
  <2>2. OnStack(d)
    BY <1>1, <2>1 DEF AssemblyInv, StartedSoFar
  <2> QED BY <2>1, <2>2 DEF OnStack, AssemblyInv, StartedSoFar
<1> QED BY <1>3, <1>4 DEF AssemblyInv, Accounted

\* A context is not closed before what it is made from has been entered nor
\* after that has begun to be left; and no run and no administrator's call goes on
\* with resources that are being closed under it (WorkHasItsResources).
THEOREM WorkAlwaysHasItsResources == AssemblySpec => []WorkHasItsResources
<1>1. AssemblyInv => WorkHasItsResources
  <2> SUFFICES ASSUME AssemblyInv PROVE WorkHasItsResources
    OBVIOUS
  <2>1. \A c \in Contexts : state[c] # "closed" => \A d \in Needs(c) : IsOpen(d)
    BY BelowIsOpen, NeedsBelow
  <2>2. ASSUME NEW q \in Requests, request[q] = "running"
        PROVE  /\ runner[q] = life
               /\ \A d \in Needs("agui_runner") \cup Needs("parlant_runtime") : IsOpen(d)
    <3>1. runner[q] = life /\ state["agui_runner"] # "closed" /\ "agui_runner" \in Contexts
          /\ "parlant_runtime" \in Contexts
      BY <2>2, OrderFacts DEF AssemblyInv, WorkAccounted
    <3>2. \A d \in Needs("agui_runner") : IsOpen(d)
      BY <2>1, <3>1
    <3>3. ASSUME NEW d \in Needs("parlant_runtime")
          PROVE  IsOpen(d)
      <4>1. d \in enabled /\ d \in Contexts /\ Place[d] < 4
        BY <3>1, NeedsBelow, Places
      <4>2. Place[d] \in 1 .. 6 /\ Place["agui_runner"] = 5
        BY <4>1, OrderFacts, Places
      <4>3. Place[d] < Place["agui_runner"]
        BY <4>1, <4>2
      <4> QED BY <3>1, <4>1, <4>3, BelowIsOpen
    <3> QED BY <3>1, <3>2, <3>3
  <2>3. ASSUME NEW q \in Requests, request[q] = "calling"
        PROVE  \A d \in Needs("admin_mcp") : IsOpen(d)
    BY <2>1, <2>3, OrderFacts DEF AssemblyInv, WorkAccounted
  <2> QED BY <2>1, <2>2, <2>3 DEF WorkHasItsResources
<1> QED BY <1>1, AssemblyInvariant, PTL

\* Whichever way the lifespan has ended, every context is closed and every
\* registration taken back before a next start (NothingIsLeft).
THEOREM NothingIsEverLeft == AssemblySpec => []NothingIsLeft
<1>1. AssemblyInv => NothingIsLeft
  <2> SUFFICES ASSUME AssemblyInv, phase = "down" PROVE NothingIsLeft
    BY DEF NothingIsLeft
  <2>1. \A c : ~OnStack(c)
    BY DEF AssemblyInv, StartedSoFar, OnStack
  <2>2. \A c \in Contexts : state[c] = "closed"
    BY <2>1 DEF AssemblyInv, Accounted, Entering
  <2> QED BY <2>2 DEF AssemblyInv, Unregistered, NothingIsLeft
<1> QED BY <1>1, AssemblyInvariant, PTL

=============================================================================
