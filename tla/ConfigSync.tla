----------------------------- MODULE ConfigSync -----------------------------
(***************************************************************************)
(* Writing the agent's configuration to one Parlant server:                *)
(* AgentBootstrapper.bootstrap over ParlantAgentGateway.  The SDK has no   *)
(* transactions and refuses an ID it knows; an edge between two existing   *)
(* states has no ID.  Every call of the SDK may fail before or after its   *)
(* effect, or be cancelled, and ends the bootstrap; the gateway remembers  *)
(* what succeeded, for the bootstraps that follow.                         *)
(*                                                                         *)
(* There is one journey; several are written one after another alike.      *)
(***************************************************************************)
EXTENDS Naturals, Sequences

CONSTANTS Bootstraps,  \* calls of bootstrap()
          Agent,       \* ID of the agent
          Objects,     \* IDs of terms, guidelines, trigger, journey, in order
          Edges, Source, Target,  \* transitions of the journey
          Roots,       \* START and END, which come with the journey
          Nothing

ObjectIds == {Objects[i] : i \in DOMAIN Objects}
StateIds == {Target[e] : e \in Edges} \cup {Source[e] : e \in Edges}

ASSUME ConfigAssumption ==
  /\ DOMAIN Objects = 1 .. Len(Objects) /\ Len(Objects) \in Nat
  /\ \A i, j \in DOMAIN Objects : Objects[i] = Objects[j] => i = j
  /\ ObjectIds \cap Edges = {} /\ Nothing \notin ObjectIds \cup Edges
  /\ (StateIds \cup Roots) \cap (ObjectIds \cup {Agent}) = {} /\ Agent \notin ObjectIds

VARIABLES
  exists,  \* SDK: IDs of the agent, of objects and of journey states
  drawn,   \* SDK: how often each edge is in the journey
  done,    \* gateway: _done, _triggers and _journeys
  states,  \* gateway: _states, the journey states it has
  boot,    \* where each bootstrap is
  asks,    \* what it asks of the SDK
  lost     \* edges the SDK drew and did not answer for

syncVars == <<exists, drawn, done, states, boot, asks, lost>>

Blank ==
  /\ exists = {} /\ drawn = [e \in Edges |-> 0] /\ done = {} /\ states = Roots
  /\ boot = [b \in Bootstraps |-> "idle"] /\ asks = [b \in Bootstraps |-> Nothing]
  /\ lost = {}

\* The server goes, and the gateway with it.
Vanish ==
  /\ exists' = {} /\ drawn' = [e \in Edges |-> 0] /\ done' = {} /\ states' = Roots
  /\ boot' = [b \in Bootstraps |-> "idle"] /\ asks' = [b \in Bootstraps |-> Nothing]
  /\ lost' = {}

At(b, l) == boot' = [boot EXCEPT ![b] = l]
Asking(b, x) == asks' = [asks EXCEPT ![b] = x]

Ask(b) ==
  /\ boot[b] = "idle" /\ At(b, "waiting")
  /\ UNCHANGED <<exists, drawn, done, states, asks, lost>>

LockFree == \A b \in Bootstraps : boot[b] \notin {"agent", "syncing"}

\* bootstrap: take the lock.
BeginSync(b) ==
  /\ boot[b] = "waiting" /\ LockFree
  /\ At(b, "agent") /\ UNCHANGED <<exists, drawn, done, states, asks, lost>>

\* find_or_create_agent: created, or found and updated.
SyncAgent(b) ==
  /\ boot[b] = "agent"
  /\ exists' = exists \cup {Agent}
  /\ At(b, "syncing") /\ UNCHANGED <<drawn, done, states, asks, lost>>

\* The first object that is not done: sync_glossary, then sync_guidelines,
\* then the trigger and the journey.
NextObject(x) ==
  \E i \in DOMAIN Objects :
    x = Objects[i] /\ x \notin done /\ \A j \in 1 .. (i - 1) : Objects[j] \in done

\* An edge whose source the gateway has.  The loop over the transitions
\* returns to the others until a pass finds none: then it raises.
NextEdge(x) ==
  /\ ObjectIds \subseteq done
  /\ x \in Edges \ done /\ Source[x] \in states

\* Slip: an edge is noted before it is drawn.
Noted(x) == done \cup ({x} \cap Edges)

\* What _done holds while the SDK is asked.
Unnoted(x) == done

AskFor(b) ==
  /\ boot[b] = "syncing" /\ asks[b] = Nothing
  /\ \E x \in ObjectIds \cup Edges :
       (NextObject(x) \/ NextEdge(x)) /\ Asking(b, x) /\ done' = Unnoted(x)
  /\ UNCHANGED <<exists, drawn, states, boot, lost>>

\* create_term, create_guideline, create_journey and transition_to, which
\* makes the state the gateway does not have, in the SDK.
Performed(x) ==
  IF x \in Edges
  THEN /\ Target[x] \in states \/ Target[x] \notin exists
       /\ drawn' = [drawn EXCEPT ![x] = @ + 1]
       /\ exists' = exists \cup ({Target[x]} \ Roots)
  ELSE x \notin exists /\ exists' = exists \cup {x} /\ UNCHANGED drawn

Answered(b) ==
  /\ asks[b] # Nothing /\ Performed(asks[b])
  /\ done' = done \cup {asks[b]}
  /\ states' = states \cup {Target[e] : e \in {asks[b]} \cap Edges}
  /\ Asking(b, Nothing) /\ UNCHANGED <<boot, lost>>

\* A call has its effect, but its reply is lost.
ReplyLost(b) ==
  /\ \/ boot[b] = "agent" /\ exists' = exists \cup {Agent} /\ UNCHANGED drawn
     \/ asks[b] # Nothing /\ Performed(asks[b])
  /\ lost' = lost \cup ({asks[b]} \cap Edges)
  /\ At(b, "failed") /\ Asking(b, Nothing) /\ UNCHANGED <<done, states>>

\* A call fails, is refused or cancelled, or no edge can be reached.
CallFails(b) ==
  /\ boot[b] \in {"waiting", "agent", "syncing"}
  /\ At(b, "failed") /\ Asking(b, Nothing)
  /\ UNCHANGED <<exists, drawn, done, states, lost>>

Complete == ObjectIds \subseteq done /\ Edges \subseteq done

ReturnSync(b) ==
  /\ boot[b] = "syncing" /\ asks[b] = Nothing /\ Complete
  /\ At(b, "returned") /\ UNCHANGED <<exists, drawn, done, states, asks, lost>>

SyncStep(b) ==
  \/ Ask(b) \/ BeginSync(b) \/ SyncAgent(b) \/ AskFor(b) \/ Answered(b)
  \/ ReplyLost(b) \/ CallFails(b) \/ ReturnSync(b)

-----------------------------------------------------------------------------
\* A bootstrap that returns has left the whole configuration in Parlant,
\* whatever attempts before it or beside it did and where they broke off; and
\* no transition is in a journey twice, unless Parlant's answer for it was
\* lost, which the gateway cannot tell from a failure.
ConfiguredOnce ==
  /\ (\E b \in Bootstraps : boot[b] = "returned") =>
       /\ {Agent} \cup ObjectIds \cup (StateIds \ Roots) \subseteq exists
       /\ \A e \in Edges : drawn[e] >= 1
  /\ \A e \in Edges : e \notin lost => drawn[e] <= 1
=============================================================================
