---------------------------- MODULE AgentRuntime ----------------------------
(***************************************************************************)
(* AgentRuntime.start, stop and get_agent with the task that serves        *)
(* ParlantHost.run.  Callers are tasks that call start or stop of a        *)
(* runtime; every start that gets so far makes a host.  The class          *)
(* attribute _running, and the provider's key in os.environ which is set   *)
(* and restored with it, belong to the process.                            *)
(*                                                                         *)
(* The SDK's server is assumed to end when its task is cancelled.  Only    *)
(* the lock of the runtime is held across awaits.                          *)
(***************************************************************************)
EXTENDS Naturals, FiniteSets

CONSTANTS Runtimes,
          Callers,       \* tasks that call start or stop, again and again
          Hosts,         \* numbered in the order they are made
          None

ASSUME RuntimeAssumption ==
  /\ Hosts \subseteq Nat /\ None \notin Callers \cup Hosts \cup Runtimes
  /\ None \notin [call : {"start", "stop"}, runtime : Runtimes]

VARIABLES
  lock,      \* _lock of each runtime: its holder, or None
  current,   \* host of _task, None without one
  ready,     \* _ready
  agent,     \* _agent is set
  caller,    \* where each caller is
  op,        \* what it calls: [call, runtime]
  awaits,    \* the task that _stop awaits
  host,      \* the serving task of each host
  owner,     \* the runtime that made it
  doomed,    \* hosts whose task is cancelled
  running    \* ParlantHost._running: which host has set it

callVars == <<lock, caller, op, awaits>>
own == <<current, ready, agent>>
runtimeVars == <<callVars, own, host, owner, doomed, running>>

RuntimeInit ==
  /\ lock = [r \in Runtimes |-> None] /\ current = [r \in Runtimes |-> None]
  /\ ready = [r \in Runtimes |-> FALSE] /\ agent = [r \in Runtimes |-> FALSE]
  /\ caller = [c \in Callers |-> "idle"] /\ op = [c \in Callers |-> None]
  /\ awaits = [c \in Callers |-> None]
  /\ host = [h \in Hosts |-> "unused"] /\ owner = [h \in Hosts |-> None]
  /\ doomed = {} /\ running = None

Alive == {h \in Hosts : host[h] \in {"entering", "configuring", "configured",
                                     "serving", "exiting"}}

\* get_agent would return.
Served(r) == ready[r] /\ agent[r] /\ current[r] # None /\ host[current[r]] # "dead"

-----------------------------------------------------------------------------
(* Callers.                                                                *)

Call(c, what, r) ==
  /\ caller[c] = "idle"
  /\ caller' = [caller EXCEPT ![c] = "locking"]
  /\ op' = [op EXCEPT ![c] = [call |-> what, runtime |-> r]]
  /\ UNCHANGED <<lock, awaits, own, host, owner, doomed, running>>

Rt(c) == op[c].runtime

\* The call returns or raises.
Over(c) ==
  /\ caller' = [caller EXCEPT ![c] = "idle"]
  /\ op' = [op EXCEPT ![c] = None] /\ awaits' = [awaits EXCEPT ![c] = None]
  /\ lock' = IF lock[Rt(c)] = c THEN [lock EXCEPT ![Rt(c)] = None] ELSE lock

CanEnter(c, what) == caller[c] = "locking" /\ op[c].call = what /\ lock[Rt(c)] = None

\* start with a task: the agent, or 503 if the host died.
StartAgain(c) ==
  /\ CanEnter(c, "start") /\ current[Rt(c)] # None
  /\ Over(c)
  /\ UNCHANGED <<own, host, owner, doomed, running>>

\* The configuration is read and checked, the host made, its task created.
\* Without a configuration start raises before there is anything to undo.
StartHost(c) ==
  /\ CanEnter(c, "start") /\ current[Rt(c)] = None
  /\ \/ Over(c) /\ UNCHANGED <<current, host, owner>>
     \/ \E h \in Hosts :
          /\ host[h] = "unused" /\ \A g \in Hosts : host[g] = "unused" => h <= g
          /\ host' = [host EXCEPT ![h] = "created"]
          /\ owner' = [owner EXCEPT ![h] = Rt(c)]
          /\ current' = [current EXCEPT ![Rt(c)] = h]
          /\ lock' = [lock EXCEPT ![Rt(c)] = c]
          /\ caller' = [caller EXCEPT ![c] = "waiting"] /\ UNCHANGED <<op, awaits>>
  /\ UNCHANGED <<ready, agent, doomed, running>>

\* configured, then wait_ready; a task that has ended comes first.
StartReady(c) ==
  LET r == Rt(c)
  IN /\ caller[c] = "waiting" /\ host[current[r]] = "serving"
     /\ ready' = [ready EXCEPT ![r] = TRUE]
     /\ Over(c)
     /\ UNCHANGED <<current, agent, host, owner, doomed, running>>

\* Slip: a runtime that stops stays ready.
StaysReady(r) == UNCHANGED <<ready, agent>>

Unready(r) == ready' = [ready EXCEPT ![r] = FALSE] /\ agent' = [agent EXCEPT ![r] = FALSE]

\* Slip: the task is awaited but not cancelled.
Spared(r) == doomed

Cancelled(r) == doomed \cup ({current[r]} \ {None})

\* _stop up to the await of the task.
StopBody(c) ==
  LET r == Rt(c)
  IN /\ caller' = [caller EXCEPT ![c] = "stopping"]
     /\ lock' = [lock EXCEPT ![r] = c]
     /\ awaits' = [awaits EXCEPT ![c] = current[r]]
     /\ current' = [current EXCEPT ![r] = None]
     /\ Unready(r) /\ doomed' = Cancelled(r)

\* start: the task ends, the startup times out, or the caller is cancelled.
StartFails(c) ==
  /\ caller[c] = "waiting" /\ StopBody(c)
  /\ UNCHANGED <<op, host, owner, running>>

Stop(c) ==
  /\ CanEnter(c, "stop") /\ StopBody(c)
  /\ UNCHANGED <<op, host, owner, running>>

\* Slip: the task is cancelled and left to itself.
NotAwaited(c) == TRUE

TaskEnded(c) == awaits[c] # None => host[awaits[c]] = "dead"

\* A cancellation of the caller is forwarded to the task and then swallowed:
\* _stop ends no sooner.
StopEnds(c) ==
  /\ caller[c] = "stopping" /\ TaskEnded(c)
  /\ Over(c)
  /\ UNCHANGED <<own, host, owner, doomed, running>>

\* Cancelled while it waits for the lock.
GiveUp(c) ==
  /\ caller[c] = "locking" /\ Over(c)
  /\ UNCHANGED <<own, host, owner, doomed, running>>

-----------------------------------------------------------------------------
(* The serving task.                                                       *)

Become(h, l) == host' = [host EXCEPT ![h] = l]

KeepMark(h) == running

\* run, up to the server's start: refused while another host runs, and when
\* the environment has another key.  A task cancelled before does nothing.
HostBegins(h) ==
  /\ host[h] = "created"
  /\ \/ h \notin doomed /\ running = None
        /\ running' = h /\ Become(h, "entering")
     \/ running' = KeepMark(h) /\ Become(h, "dead")
  /\ UNCHANGED <<callVars, own, owner, doomed>>

ServerEntered(h) ==
  /\ host[h] = "entering" /\ h \notin doomed
  /\ Become(h, "configuring")
  /\ UNCHANGED <<callVars, own, owner, doomed, running>>

\* configure returns.
Configured(h) ==
  /\ host[h] = "configuring" /\ h \notin doomed
  /\ agent' = [agent EXCEPT ![owner[h]] = TRUE]
  /\ Become(h, "configured")
  /\ UNCHANGED <<callVars, current, ready, owner, doomed, running>>

ServerUp(h) ==
  /\ host[h] = "configured" /\ h \notin doomed
  /\ Become(h, "serving")
  /\ UNCHANGED <<callVars, own, owner, doomed, running>>

\* The server or configure raises, or the cancellation arrives.
HostFails(h) ==
  /\ host[h] \in {"entering", "configuring", "configured", "serving"}
  /\ Become(h, "exiting")
  /\ UNCHANGED <<callVars, own, owner, doomed, running>>

\* The finally block: the environment and _running.
HostEnds(h) ==
  /\ host[h] = "exiting"
  /\ Become(h, "dead") /\ running' = None
  /\ UNCHANGED <<callVars, own, owner, doomed>>

-----------------------------------------------------------------------------
\* When no call is in progress, a runtime without a task has left no server
\* behind, after a stop as after a start that failed, timed out or was
\* cancelled anywhere; and the process has one server at most, with the mark
\* and the environment set exactly as long as there is one.
NothingLeftBehind ==
  /\ \A r \in Runtimes : lock[r] = None /\ current[r] = None =>
       \A h \in Hosts : owner[h] = r => host[h] = "dead"
  /\ Alive = {running} \ {None}
=============================================================================
