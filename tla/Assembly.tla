------------------------------ MODULE Assembly ------------------------------
(***************************************************************************)
(* app_lifespan: the application's contexts are entered one after the      *)
(* other, left in reverse when it shuts down or when an entry fails, and   *)
(* the registrations that go with them are made and taken back.  Requests  *)
(* of the storefront and of administrators come at any time: one looks up  *)
(* the verifier, later the runner, and uses each after an await.           *)
(*                                                                         *)
(* An application may be started again after it has ended (a life).  What  *)
(* a context does inside is in the other modules: here entering it takes a *)
(* while and succeeds or fails, leaving it takes a while and ends, with an *)
(* error or without, which AsyncExitStack passes on after the rest.        *)
(***************************************************************************)
EXTENDS Naturals, Sequences, FiniteSets

CONSTANTS Requests,
          MaxLives       \* bound on the starts of the application

ASSUME AssemblyAssumption == IsFiniteSet(Requests) /\ MaxLives \in Nat

\* RESOURCE_ORDER, then what the lifespan puts on the stack itself.
Order == <<"database", "saleor_client", "rag_client", "parlant_runtime",
           "agui_runner", "admin_mcp">>
Contexts == {Order[i] : i \in 1 .. Len(Order)}

VARIABLES
  enabled,   \* contexts the settings ask for; agui_runner: there is a scope
  bff,       \* agui_enabled: requests are verified
  life,      \* number of the current or last start
  phase,     \* of the lifespan
  at,        \* position in Order it enters next
  stack,     \* contexts on the AsyncExitStack, the innermost last
  state,     \* of each context
  isReady,   \* resources.ready
  services,  \* resources.services: "saleor" and "agui_runner"
  registry,  \* resources.agent_tool_registry is set
  verifier,  \* app.state.storefront_bff_verifier is set
  admin,     \* app.state.admin_mcp_runtime is set
  request,   \* where each request is
  runner     \* the life whose runner a request has been given, or 0

config == <<enabled, bff>>
registered == <<services, registry, verifier, admin>>
requests == <<request, runner>>
assemblyVars == <<config, life, phase, at, stack, state, isReady, registered, requests>>

\* What a context uses while it is open: the tools of the agent are made from
\* the database, the order and product services and the RAG client.
Needs(c) ==
  enabled \cap CASE c = "parlant_runtime" /\ "agui_runner" \in enabled ->
                      {"database", "saleor_client", "rag_client"}
                 [] c = "agui_runner" -> {"database", "parlant_runtime"}
                 [] c = "admin_mcp" -> {"database", "saleor_client"}
                 [] OTHER -> {}

IsOpen(c) == state[c] = "open"

\* Settings.validate_enabled_integrations; a scope may also be given to
\* create_app without agui_enabled, and the rest is checked at startup.
AssemblyInit ==
  /\ enabled \in SUBSET Contexts /\ bff \in BOOLEAN
  /\ bff => {"database", "parlant_runtime", "agui_runner"} \subseteq enabled
  /\ life = 0 /\ phase = "down" /\ at = 1 /\ stack = <<>>
  /\ state = [c \in Contexts |-> "closed"]
  /\ isReady = FALSE /\ services = {} /\ registry = FALSE /\ verifier = FALSE
  /\ admin = FALSE
  /\ request = [q \in Requests |-> "idle"] /\ runner = [q \in Requests |-> 0]

-----------------------------------------------------------------------------
(* Startup.                                                                *)

\* The next enabled position from i on; beyond the last the application is
\* ready.
Advance(i) ==
  LET rest == {j \in i .. Len(Order) : Order[j] \in enabled}
  IN IF rest = {}
     THEN at' = Len(Order) + 1 /\ phase' = "serving" /\ isReady' = TRUE
     ELSE /\ at' = CHOOSE j \in rest : \A k \in rest : j <= k
          /\ UNCHANGED <<phase, isReady>>

Start ==
  /\ phase = "down" /\ life < MaxLives
  /\ life' = life + 1 /\ phase' = "starting" /\ at' = 0
  /\ UNCHANGED <<config, stack, state, isReady, registered, requests>>

Skip ==
  /\ phase = "starting" /\ at = 0
  /\ Advance(1)
  /\ UNCHANGED <<config, life, stack, state, registered, requests>>

Entering(c) == phase = "starting" /\ at \in 1 .. Len(Order) /\ c = Order[at]

\* What prepare_agui_tools, assemble_agui and create_runtime are made from; they
\* raise without it.
CanPrepareTools == IsOpen("database")
CanAssemble == IsOpen("parlant_runtime") /\ registry
CanServeAdmins == IsOpen("database") /\ "saleor" \in services

Refuses(c) ==
  \/ c = "parlant_runtime" /\ "agui_runner" \in enabled /\ ~CanPrepareTools
  \/ c = "agui_runner" /\ ~CanAssemble
  \/ c = "admin_mcp" /\ ~CanServeAdmins

\* Enters c up to its first await.  The registry is made before Parlant starts,
\* the services before saleor_resource yields, the runtime of the admin tools
\* before their server starts.
Enter(c) ==
  /\ Entering(c) /\ state[c] = "closed" /\ ~Refuses(c) /\ c # "agui_runner"
  /\ state' = [state EXCEPT ![c] = "opening"]
  /\ registry' = (registry \/ (c = "parlant_runtime" /\ "agui_runner" \in enabled))
  /\ services' = IF c = "saleor_client" THEN services \cup {"saleor"} ELSE services
  /\ admin' = (admin \/ c = "admin_mcp")
  /\ UNCHANGED <<config, life, phase, at, stack, isReady, verifier, requests>>

\* c is on the stack.  The database is followed by the check of the nonces.
Entered(c) ==
  /\ Entering(c) /\ state[c] = "opening"
  /\ state' = [state EXCEPT ![c] = "open"] /\ stack' = Append(stack, c)
  /\ IF c = "database" /\ bff THEN UNCHANGED <<at, phase, isReady>> ELSE Advance(at + 1)
  /\ UNCHANGED <<config, life, registered, requests>>

MakeVerifier ==
  /\ Entering("database") /\ IsOpen("database")
  /\ verifier' = TRUE
  /\ Advance(at + 1)
  /\ UNCHANGED <<config, life, stack, state, services, registry, admin, requests>>

\* assemble_agui and the callback that will close its runner.
Assemble ==
  /\ Entering("agui_runner") /\ ~Refuses("agui_runner")
  /\ state' = [state EXCEPT !["agui_runner"] = "open"]
  /\ stack' = Append(stack, "agui_runner")
  /\ services' = services \cup {"agui_runner"}
  /\ Advance(at + 1)
  /\ UNCHANGED <<config, life, registry, verifier, admin, requests>>

\* Slip: what an entry had done before it failed is not undone.
StartupFailsHalfway ==
  /\ phase = "starting" /\ at \in 1 .. Len(Order)
  /\ phase' = "unwinding"
  /\ UNCHANGED <<config, life, at, stack, state, isReady, registered, requests>>

\* An exception or a cancellation during startup.  A context that was being
\* entered undoes what it has done first, then the stack is unwound.
StartupFails ==
  /\ phase = "starting" /\ at \in 1 .. Len(Order)
  /\ phase' = "unwinding"
  /\ stack' = IF state[Order[at]] = "opening" THEN Append(stack, Order[at]) ELSE stack
  /\ UNCHANGED <<config, life, at, state, isReady, registered, requests>>

-----------------------------------------------------------------------------
(* Shutdown.                                                               *)

\* The server asks the application to shut down, whatever is under way.
Shutdown ==
  /\ phase = "serving"
  /\ phase' = "unwinding" /\ isReady' = FALSE
  /\ UNCHANGED <<config, life, at, stack, state, registered, requests>>

\* Slip: the contexts are left in the order in which they were entered.
Outermost == stack[1]

\* Who is left next.
Innermost == stack[Len(stack)]

Leave ==
  /\ phase = "unwinding" /\ stack # <<>> /\ state[Innermost] \in {"opening", "open"}
  /\ state' = [state EXCEPT ![Innermost] = "closing"]
  /\ UNCHANGED <<config, life, phase, at, stack, isReady, registered, requests>>

Driven(q) == request[q] = "running" /\ runner[q] = life

\* runner.close waits for the drivers of its runs, the admin server for its
\* tasks.
Busy(c) == \E q \in Requests : \/ c = "agui_runner" /\ Driven(q)
                               \/ c = "admin_mcp" /\ request[q] = "calling"

\* Left, with an error or without.
Left ==
  /\ phase = "unwinding" /\ stack # <<>> /\ state[Innermost] = "closing"
  /\ ~Busy(Innermost)
  /\ state' = [state EXCEPT ![Innermost] = "closed"]
  /\ stack' = SubSeq(stack, 1, Len(stack) - 1)
  /\ UNCHANGED <<config, life, phase, at, isReady, registered, requests>>

\* The outermost finally.
End ==
  /\ phase = "unwinding" /\ stack = <<>>
  /\ phase' = "down" /\ isReady' = FALSE
  /\ services' = {} /\ registry' = FALSE /\ verifier' = FALSE /\ admin' = FALSE
  /\ UNCHANGED <<config, life, at, stack, state, requests>>

-----------------------------------------------------------------------------
(* Requests.                                                               *)

Move(q, to) == request' = [request EXCEPT ![q] = to]
app == <<config, life, phase, at, stack, state, isReady, registered>>

\* get_storefront_context up to the verifier's await.
Arrive(q) ==
  /\ request[q] = "idle"
  /\ Move(q, IF verifier THEN "verifying" ELSE "done")
  /\ UNCHANGED <<app, runner>>

\* get_agui_runner: only of resources that are ready.  FastAPI calls it in a
\* worker thread, so that anything may happen before the request goes on.
Gate(q) ==
  /\ request[q] = "verifying"
  /\ IF isReady /\ "agui_runner" \in services
     THEN Move(q, "admitted") /\ runner' = [runner EXCEPT ![q] = life]
     ELSE Move(q, "done") /\ UNCHANGED runner
  /\ UNCHANGED app

VerifyFails(q) ==
  /\ request[q] = "verifying"
  /\ Move(q, "done")
  /\ UNCHANGED <<app, runner>>

\* Slip: run does not look at _closed.
AcceptsAlways(q) == runner[q] = life

\* The runner a request was given has not been closed.
Accepts(q) == runner[q] = life /\ IsOpen("agui_runner")

\* The request goes on; run refuses when its runner is closed.
Begin(q) ==
  /\ request[q] = "admitted"
  /\ Move(q, IF Accepts(q) THEN "running" ELSE "done")
  /\ UNCHANGED <<app, runner>>

\* The run ends by itself; or its driver is lost and the rest is abandoned.
RunEnds(q) ==
  /\ request[q] = "running"
  /\ Move(q, "done")
  /\ UNCHANGED <<app, runner>>

Abandoned(q) ==
  /\ request[q] = "running"
  /\ Move(q, "abandoned")
  /\ UNCHANGED <<app, runner>>

\* Slip: close waits for the runs to end by themselves.
RunLeftAlone(q) == FALSE /\ UNCHANGED assemblyVars

\* close cancels the drivers.
RunCancelled(q) ==
  /\ Driven(q) /\ state["agui_runner"] = "closing"
  /\ Move(q, "done")
  /\ UNCHANGED <<app, runner>>

\* An administrator's tool call on the mounted server.
CallTool(q) ==
  /\ request[q] = "idle"
  /\ Move(q, IF IsOpen("admin_mcp") /\ admin THEN "calling" ELSE "done")
  /\ UNCHANGED <<app, runner>>

CallEnds(q) ==
  /\ request[q] = "calling"
  /\ Move(q, "done")
  /\ UNCHANGED <<app, runner>>

CallCancelled(q) ==
  /\ request[q] = "calling" /\ state["admin_mcp"] = "closing"
  /\ Move(q, "done")
  /\ UNCHANGED <<app, runner>>

-----------------------------------------------------------------------------
Lifespan ==
  \/ Start \/ Skip \/ (\E c \in Contexts : Enter(c) \/ Entered(c))
  \/ MakeVerifier \/ Assemble \/ StartupFails
  \/ Shutdown \/ Leave \/ Left \/ End

Request(q) ==
  \/ Arrive(q) \/ Gate(q) \/ VerifyFails(q) \/ Begin(q)
  \/ RunEnds(q) \/ Abandoned(q) \/ RunCancelled(q)
  \/ CallTool(q) \/ CallEnds(q) \/ CallCancelled(q)

\* All lives are over and all requests answered.
Terminated ==
  /\ phase = "down" /\ life = MaxLives
  /\ \A q \in Requests : request[q] \in {"done", "abandoned"}
  /\ UNCHANGED assemblyVars

AssemblyNext == Lifespan \/ (\E q \in Requests : Request(q)) \/ Terminated

AssemblySpec == AssemblyInit /\ [][AssemblyNext]_assemblyVars

\* A context that is left comes to its end, what is cancelled ends, and the
\* lifespan goes on.  Nothing is assumed of startup, of requests, or of who asks
\* for the shutdown.
AssemblyFairness ==
  /\ WF_assemblyVars(Leave) /\ WF_assemblyVars(Left) /\ WF_assemblyVars(End)
  /\ \A q \in Requests : WF_assemblyVars(RunCancelled(q)) /\ WF_assemblyVars(CallCancelled(q))

AssemblyFairSpec == AssemblySpec /\ AssemblyFairness

-----------------------------------------------------------------------------
(* Properties.                                                             *)

\* Whatever is entered, open or being left has what it is made from open, in
\* failed starts as well; and a run that somebody drives and an administrator's
\* call work on open resources, however late a request has come to the runner
\* it looked up (get_agui_runner, then _closed in run; close waits for both).
WorkHasItsResources ==
  /\ \A c \in Contexts : state[c] # "closed" => \A d \in Needs(c) : IsOpen(d)
  /\ \A q \in Requests :
       /\ request[q] = "running" =>
            /\ runner[q] = life
            /\ \A d \in Needs("agui_runner") \cup Needs("parlant_runtime") : IsOpen(d)
       /\ request[q] = "calling" => \A d \in Needs("admin_mcp") : IsOpen(d)

\* When the lifespan has ended, by a shutdown or by a failure at any point of
\* startup, nothing is open and nothing registered that a next start could meet.
NothingIsLeft ==
  phase = "down" =>
    /\ \A c \in Contexts : state[c] = "closed"
    /\ services = {} /\ ~registry /\ ~verifier /\ ~admin /\ ~isReady

\* Every shutdown and every failed start comes to an end, whatever requests are
\* under way: their runs and calls are cancelled.
ShutdownEnds == phase = "unwinding" ~> phase = "down"
=============================================================================
