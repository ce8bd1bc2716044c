# Specifications of the agent adapter service

TLA+ models of `src/src/agent_adapter_service`, checked with TLC, with theorems
checked by TLAPS. The service sits between a storefront's browser (AG-UI over
server-sent events), a Parlant agent engine embedded in its process, a SQL
database and Saleor. It is one asyncio process; nearly everything that is hard
in it is hard because many tasks share state between their awaits.

Paths below are relative to `src/src/agent_adapter_service`.

- [The system](#the-system): components, their state and operations
- [The models](#the-models): modules, and how they correspond to the code
- [The runs](#the-runs): what TLC checks, on which bounds, under which fairness
- [The proofs](#the-proofs)
- [Disagreements between code and comments](#disagreements-between-code-and-comments)
- [What is not modelled](#what-is-not-modelled)
- [Plan](#plan)

## The system

| component | state | operations | what is hard |
|---|---|---|---|
| run runner `agui/runner.py` | `_reserved`, `_active`, `_states`, `_tasks` by thread; per run `state_lock` | `run`, `handle_tool_result`, `close` | a run and the receipts of its tools are different requests; timeouts and cancellation at any await; a finalizer that must not be interrupted |
| frontend tool dispatcher `frontend/tools/dispatcher.py` | `_pending`, `_used`, `_closed`, `_disconnected`; per call a future, a send task, an update task, a deadline | `dispatch`, `resolve_result`, `disconnect`, `close` | four parties may end a call: its receipt, its deadline, a cancellation, the end of the run; state read before an await is used after it |
| event stream `agui/stream.py`, `agui/event_adapter.py`, `agent/parlant/processing.py` | bounded queue, `offset`, `open_offsets`; the adapter's texts, step, `failed` | `send`, `stream_run`, polling, mapping | producer, engine and reader wait for each other; a message is polled while it is still written |
| frontend state `frontend/state/*` | state by thread, with a revision, lost at a restart | `update` (snapshot or delta), `get` | revisions, partial updates, several tools and tabs at once, updates sent again |
| semantic events `frontend/events/handler.py` | none (it writes Parlant sessions) | `diff`, `handle_state_change` | order of events, failure or cut after the state was stored |
| customer identity `customer_identity/*`, `persistence/repositories/customer_identity.py` | identity rows, visitor rows, Parlant customers | `resolve` (anonymous, authenticated, unavailable), `bind_saleor_user`, `ensure_customer`, `_upgrade_session` | concurrent binds, two stores without a common transaction |
| conversations `conversations/*`, `persistence/repositories/conversation_binding.py` | thread bindings, Parlant sessions | `resolve`, `create_conversation`, `reconcile_customer` | the same |
| BFF verification `security/storefront_bff.py`, `persistence/repositories/bff_nonce.py` | used nonces | `verify`, `consume_once`, `purge_expired` | two requests with one nonce, expiry with clock skew |
| tool authorization and audit `security/frontend_tool_policy.py`, `agent/tools/common.py`, `mcp/server/tools/common.py`, `observability/audit.py` | approvals, audit rows | `dispatch`, `tool_boundary`, `invoke`: an intent record before the action, an outcome record after it | the action succeeds and the record does not; a confirmation used twice |
| tool contexts `agent/tools/context.py` | contexts by session | `bind`, `resolve` | two runs of one session |
| agent runtime `agent/runtime.py`, `agent/parlant/host.py` | task, lock, `_ready`, `_agent`; per process `_running` and a key in the environment | `start`, `stop`, `get_agent` | failure, timeout or stop during startup, several callers |
| configuration sync `agent/bootstrap.py`, `agent/parlant/agent.py` | what it has written (`_done`, `_states`); objects in the SDK | `bootstrap` | repeating a sync that failed half way or lost a reply |
| RAG client `mcp/clients/rag.py`, `rag/client.py` | `_lock`, `_connected`, the MCP client | `connect`, `close`, `call_tool`, `list_tools`; `_answer` | timeouts, which calls may be repeated, an answer that is too long |
| Saleor services `saleor/services/*`, `security/customer_policy.py` | none | a customer's order, disable a promotion, resolve a variant, cancel, fulfil | several requests for one call, while Saleor changes between them; pages nobody vouches for |
| assembly `app/lifespan.py`, `app/agui.py`, `app/factory.py` | `AppResources` (resources, `services`, `ready`), verifier, admin runtime | `app_lifespan`; the lookups of requests | startup that fails half way, shutdown while requests are under way |
| admin MCP server, authorization policies, configuration loader, HTTP surface, observability | mostly none | requests | stateless, or covered above |

How they interact in one conversation turn. The browser posts a run. The runner
reserves the thread, resolves the visitor's identity and the conversation,
processes the browser's state, and starts the engine as a task of
`AguiEventStream.stream_run`, which polls the Parlant session and turns its
events into AG-UI events. An agent tool that needs the browser calls
`dispatch()`, which writes TOOL_CALL_START/ARGS/END into the same bounded queue
and waits. The browser performs the tool and posts a receipt, possibly with a
new frontend state. `handle_tool_result` finds the active run and, under its
`state_lock`, calls `resolve_result`, which commits the state, creates semantic
events in the Parlant session, puts a snapshot into the queue and only then
wakes the tool. When the engine returns, the stream ends, the tasks are joined
and the runner yields RUN_FINISHED or RUN_ERROR; its finalizer disconnects the
dispatcher.

What makes them correct:

- *dispatcher*: a call is settled at most once, the browser is told "accepted"
  for at most one receipt and never in vain, the tool is woken after the
  publication of the state, every call and every receipt comes to an end, and
  nothing of a run outlives it.
- *stream*: RUN_FINISHED means that everything was delivered; text only grows;
  every run ends, with one kind of terminal event.
- *state and history*: the agent is told what the store holds, a revision names
  one state, and a message is posted once however often it is sent.
- *guards*: a signed request is admitted once, a confirmation allows one action,
  and no action is without a record nor a record against the facts.
- *runtime*: what is served is configured, nothing is created twice, and what is
  stopped leaves nothing behind.
- *assembly*: what is open has what it is made from, requests only work on open
  resources, and nothing is left of a start that failed or of a life that ended.
- *Saleor services*: a disabled promotion has ended, a variant is selected only if it
  is the only one that fits, and a search for it ends. (That an order is shown to its
  owner only needs no property: its owner is checked on the answer that is shown.)
- *RAG client*: requests only meet a connected client, tool calls are not
  repeated, and an answer says what it left out.
- *identity and conversations*: one customer per user, identities that do not
  change hands, an admitted run whose thread belongs to it in both stores,
  and interrupted moves that the next run repairs.

The complete list of hazards, by line, is in `PROJECT.json`.

## The models

| module | models | lines it reads |
|---|---|---|
| `Dispatcher` | the dispatcher with the run's state store, queue, `state_lock` and finalizer | `frontend/tools/dispatcher.py`, `agui/runner.py` 69-87, 131-151, 302-316, `frontend/state/manager.py`, `reducer.py` |
| `ToolPromise` | what the dispatcher promises, without queues, locks and deadlines | abstract |
| `MCDispatcher` | the receipts and the symmetry of the Dispatcher runs | |
| `DispatcherProofs` | theorems about `Dispatcher` | |
| `EventStream` | `stream_run`, the adapter, the end of a run | `agui/stream.py`, `agui/event_adapter.py`, `agui/runner.py` 246-316 |
| `EventStreamProofs` | theorems about `EventStream` | |
| `RunLifecycle` | the runs of all threads from request to finalizer, who drives them, the registries they share, `close()` | `agui/runner.py` 121-124, 210-324, `agui/router.py` 93-108, `agent/tools/context.py` 66-77, `agui/stream.py` 64-97 |
| `MCRunLifecycle` | the threads of the runs | |
| `RunLifecycleProofs` | theorems about `RunLifecycle` | |
| `Turns` | one thread over many runs: stored state, semantic events, messages, restarts | `frontend/state/manager.py`, `reducer.py`, `frontend/events/handler.py`, `agui/runner.py` 69-87, 131-166, 210-316, `agui/input_adapter.py` |
| `MCTurns`, `TurnsProofs` | the run's patches and symmetry; theorems about `Turns` | |
| `BffNonce` | the single use of a signed request | `security/storefront_bff.py` 83-113, `persistence/repositories/bff_nonce.py` |
| `ToolAudit` | protected actions between their audit records | `security/frontend_tool_policy.py`, `mcp/server/tools/common.py`, `agent/tools/common.py`, `observability/audit.py` |
| `AuditPromise` | what the audit trail promises | abstract |
| `Guards` | composes `BffNonce` and `ToolAudit` | `agui/router.py` 21-35, `agent/tools/common.py` 173-252 |
| `MCGuards`, `GuardsProofs` | the deliveries and approvals of the run; theorems about `Guards` | |
| `AgentRuntime` | start, stop, the host's task | `agent/runtime.py`, `agent/parlant/host.py` |
| `ConfigSync` | the configuration written to Parlant | `agent/bootstrap.py`, `agent/parlant/agent.py` |
| `Service` | composes `AgentRuntime` and `ConfigSync` | `app/lifespan.py` 88-97 |
| `ApplicationProofs` | theorems about `Service` and `Assembly` | |
| `RagAnswer` | the truncation of an answer, as operators | `rag/client.py` 66-127 |
| `Knowledge` | the MCP client and the tasks that ask it | `mcp/clients/rag.py`, `rag/client.py` |
| `RemoteProofs` | theorems about `Knowledge` and `SaleorServices` | |
| `Assembly` | the lifespan of the application and the requests that meet it | `app/lifespan.py`, `app/agui.py`, `agui/router.py` 21-108, `mcp/server/app.py` 77-86, `agui/runner.py` 213-216, 318-324 |
| `SaleorServices` | the calls of several requests | `saleor/client.py` 76-124, `saleor/services/order_service.py` 41-61, `promotion_service.py` 24-56, 94-107, `product_service.py` 104-129, 161-202, `security/customer_policy.py` 59-86 |
| `MCApplication` | the journey of the run; a behaviour of `Service` or one of `Assembly` | |
| `MCRemote` | the hub's answers of the run; a behaviour of `Knowledge` or one of `SaleorServices` | |
| `Ownership` | identity resolution and conversation resolution of concurrent runs | `customer_identity/*`, `conversations/*`, the two repositories |
| `MCOwnership` | the symmetry of the Ownership run | |
| `OwnershipProofs` | theorems about `Ownership` | |

One rule is common to all: the process has one event loop, so an action is what
a task does between two suspensions, and tasks interleave only at awaits (for
`Ownership`, between transactions and remote calls).

Operators introduced by a comment "Slip: ..." are not part of a model. They are
plausible bugs, each a replacement for the definition after it; for every
property `PROJECT.json` names one whose substitution makes TLC find the property
violated. They show that the properties depend on the code.

### Dispatcher

A *tool* is a task that awaits `dispatch()`; a *resolver* is one HTTP request
that carries one receipt. `pc`, `call`, `phase`, `send`, `future`, `expired` and
`outcome` are a tool's local state and its `PendingCall`; `rpc`, `request`,
`target`, `update` and `reply` are a resolver's, with the update task it
awaits. `pending`, `used`, `lock`, `revision`, `queue` are the attributes of
the same meaning. `run` says whether the queue is still read. `noticed`,
`published`, `woken` and `seen` record what happened, for the properties.

| code | actions |
|---|---|
| `dispatch()`, the early returns | `DispatchClosed`, `DispatchUsedId`, `DispatchOverLimit`, `DispatchDenied` |
| registration and the three sends | `DispatchOpen`, `SendPut`, `SendRaises`, `SendNext` |
| the ways out, all through `finally` (`Finish`) | `DispatchResult`, `DispatchSendFailed`, `DispatchTimeout`, `DispatchCancelled` |
| `handle_tool_result()` | `HandleToolResult` (lookup of the run), `HasLock` |
| `resolve_result()` to its first suspension | `ResolveStale`, `ResolveMalformed`, `ResolvePlain`, `ResolveWithState` |
| `_RunStateStore.update()` | `UpdateRefused`, `UpdateCommit`, `NoticeCreated`, `NoticeFailed`, `SnapshotPut` |
| `resolve_result()` after its await | `ResumeSettle`, `ResumeFailed`, `ResumeCancelled`, `ResumeTimeout`, `ResolverCancelled` |
| the stream and the finalizer | `Consume`, `StopStreaming`, `EndRun` |

Consequences of the code that the model keeps, and that a reader may not expect:

- The deadline's timer cancels the task, which runs later; it therefore wins
  over a future that was set just before. A receipt can be answered True and
  the tool still see "timeout" (or a cancellation). `AcceptedOnce` says that this
  is the only way an accepted receipt is lost.
- Receipts are accepted as soon as TOOL_CALL_END was handed to the sink, though
  it may still wait for room in the queue.
- If the gateway fails after the revision was committed, the call stays open, the
  receipt is answered with an error, and a retry of it meets a revision conflict.

Abstracted: the arguments and results of tools, the content of the state
(an update is its kind, its base, its version and whether it is well formed),
the tool policy (any of its verdicts, at any call), and which semantic events a
change yields (any number up to `MaxNotices`). The queue carries only what the
dispatcher puts; agent text competes for the same places, which a smaller
`QueueCap` stands for.

### ToolPromise

A call is idle, open or closed; while open it gets at most one verdict, from one
accepted receipt or from a hang-up of the connection, and the tool gets that
verdict, or gave up by deadline or cancellation, or could not be announced.
`Dispatcher` implements it under the mapping at the end of that module
(`KeepsPromise`), fairness included.

### EventStream

`store` is the Parlant session. The engine appends messages and status events,
and extends, rewrites or closes a message that is still streaming. The producer
reads whether the engine is done, lists the session, maps the records, puts the
mapped events, and at the end puts the `None` that ends the stream. The reader
(`consumer`) reads the queue, joins, and cleans up; `Finish` is the end of
`_run`, which chooses the terminal event. The text of a message is the number of
its chunks and whether it was rewritten: enough to tell appending from
replacing. `wire` and `shown` are what the browser has. Backend-tool and
hand-off events map to one event each without state and are left out.

### RunLifecycle

`Dispatcher` and `EventStream` look at the inside of one run; this one looks at all
runs and at what they share. `reserved`, `active`, `tasks` are `_reserved`, `_active`,
`_tasks`, and `contexts` is the registry of `ActiveToolContexts` (a thread has one
session, so both are keyed by the thread). A run is the async generator `_run`,
at a yield (`AtYield`) or an await (`AtAwait`), and `driver` is the task that
runs it. The model is about the difference:

- The first event is taken by the request's task (`Begin`), without a suspension
  between the check of the reservation and the registration. The others are taken by
  the task that Starlette starts for the response's body (`StartBody`), and the
  generator registers that task instead (`Resume`). The request's task awaits the
  other, and hands a cancellation on (`HandOn`).
- At an await, a cancellation of the driver is raised inside the generator
  (`Cancelled`, `Timeout`), which unwinds through its `except` and `finally`
  blocks to the join of `stream_run` or to `Finalize`.
- At a yield the driver is in a send to the browser. What cancels it there never
  reaches the generator, and nothing closes the body that Starlette iterates.
  The generator stays, with its reservation, context and engine, until the event
  loop's hook for abandoned generators closes it in a task of its own
  (`Abandon`, `Collect`).
- Disconnects go through AnyIO scopes, which the shielded join keeps out
  (`Unshielded`); `close()` and the run's timeout cancel the task itself, which it
  does not. Even then the `gather` returns only when the engine has ended.

| code | actions |
|---|---|
| `run_agent`, `_run` up to its first event | `Begin`, `StartBody`, `Resume` |
| identity, conversation, history; `_sync_state`; the bind and the message | `Prepare`, `Sync`, `SnapshotSent`, `Send` |
| `stream_run` and its join | `Poll`, `EventSent`, `StreamOver`, `Joined`, `EngineEnds` |
| the last event and the `finally` block | `LastSent`, `Finalize` |
| cancellation, timeout, abandoned generators | `Disconnect`, `HandOn`, `Cancelled`, `Timeout`, `Collect` |
| `close()` | `CloseBegin`, `CloseEnd` |

Starlette, AnyIO's task group and the event loop's generator hook are external and
modelled by what the code sees of them. What the runs do to identities is in
`Ownership`, what a stream delivers in `EventStream`; here each such call
succeeds, fails or lasts. A request carries one run, once; receipts are in
`Dispatcher`. `close()` also clears the stored states: to `Turns` that is a restart.

### Ownership

Each thread has at most one run (the runner reserves it), and runs of different
threads interleave. `user`, `known`, `points` are the identity and visitor rows,
`owner` the conversation bindings; `customers` and `session` are in Parlant. A
visitor's row and the customer allocated with it bear the visitor's name.

| code | actions |
|---|---|
| `CustomerIdentityResolver.resolve`, the checks of `upgrade_anonymous_identity` | `FindVisitor`, `Refusal` |
| `create` | `Allocate` |
| `bind_saleor_user`: lock and reads; flush and commit; unique violation and retry | `BindRead`, `BindFlush`, `BindConflict` |
| `ensure_customer` | `EnsureCustomer` |
| `_upgrade_session`: Parlant, then the compare-and-set | `MoveSession`, `SaveThread` |
| `ConversationService.resolve`, with its lock | `CheckIdentity`, `OpenSession`, `StoreBinding`, `Reconcile`, `SaveThread` |

`Abort` ends a run at any await: an exception of a store or of Parlant, a
cancellation, a timeout, a crash. A call that took effect but whose reply was
lost is the call followed by `Abort`. The run that finds a session or a customer
half moved is simply the next `Start` of the thread. All refusals are one
action, since those of `_upgrade_session` do not occur for data that this code
alone has written: whoever passed the first check passes it again. For the same
reason the upgrade branch of `_reconcile` ("relabel") is never taken:
`_upgrade_session` has moved the thread before.

The identity rows follow the transactions as the repository writes them: the
update of the visitor row locks it until the end of the transaction, the unique
constraint is checked by the flush. Adoption of rows that were written before
the visitor table existed is left out, and so are several processes, which the
code excludes (`ConversationBindingManager`: one long-lived manager per scope).

### Turns

The thread of one browser over all its runs. `stored` is the state of
`FrontendStateManager`, `told` what the semantic events created so far say of it,
`posted` how often each message is in Parlant's history. A tab's run reads the
history, compares the state it was sent with the stored one, commits it, creates
the events one by one, posts its message and processes; a frontend tool's receipt
commits a state while a run processes.

| code | actions |
|---|---|
| `run`, `extract_latest_user_message` | `Start`, `ReadHistory` |
| `_sync_state` | `Repeats`, `Sync` |
| `_RunStateStore.update`, `handle_state_change` | `Commit`, `CreateEvent`, `Deliver` |
| the post of the message, the end of the run | `Post`, `Finish`, `Abort` |
| a receipt under `state_lock` | `Receive`, `CutReceipt` |
| a deploy or `close()` | `Restart` |

The content of a state is a page and a product with a variant: the page stands
for every fact that is told whenever it differs, the product for the one that
needs an ID to be told. `lost` collects the facts whose event was due when an
update was cut, and the page that a restart resets to the beginning without an event;
only for those may the agent be wrong. What the model keeps
and a reader may not expect:

- A repeated snapshot counts as accepted, though the run that committed it was
  cut before its events. They are never made up for.
- A delta sent with a run again after its answer was lost meets a revision
  conflict: only a snapshot can be repeated.
- A repeated message that was posted is not processed again. If its processing was
  cut, the run finishes without an answer.
- Revisions begin at 1 again after a restart.

### Guards

`BffNonce` is the life of a signed request: claims checked against the clock
(`CheckClaims`), then, after an await, the nonce inserted (`ConsumeOnce`), while
the clock ticks and `purge_expired` removes rows. `ToolAudit` is the life of
an invocation on one of three surfaces: access check and approval, pending record,
action, outcome record, each of which may fail with or without its effect, be
cancelled, or end with the process. The effect of an action may also happen after
its caller has given up. `Guards` puts an invocation into a run that an admitted
delivery has started; its approvals are those attached to the delivery. The
code never attaches any: `TrustedStorefrontContext.approvals` is for a
confirmation integration outside the repository, and `Carries` is whatever it
attaches.

`AuditPromise` says what the trail is for: no action without a record before it, at
most one outcome, and nobody told of a success that did not happen or is not
recorded. Where the trail vouches for the outcome (`vouched`), a recorded success has
happened, and a caller who is told of a failure finds no success in the trail.
`ToolAudit` implements it (`KeepsTrail`), proved and checked, with all invocations
vouched for but those on the agent's surface. There a browser that refuses the action,
fails, is gone or does not answer in time is an ordinary result, which
`ToolDependencies.frontend` returns (`BrowserFails`), so that `AuditService.tool_call`
records a success for a tool that returned, whatever the browser did, and the agent is
told the browser's status. What became of the action is in the row that `dispatch` writes
for it on the browser's surface. With every invocation in `vouched` the run finds that
difference in seven steps; the code promises nothing else, so it is no finding.

Two limits of the code, kept by the model: a delivery that stalls between the check
of its claims and the insert of its nonce until after the purge of the other's row
is accepted again (hence `inTime`); and the promise covers a configured audit
service, not `audit=None`.

### Service

Tasks call `start` and `stop` of runtimes in any order. `lock`, `current`, `ready`,
`agent` are `_lock`, `_task`, `_ready`, `_agent`; a host is one execution of
`ParlantHost.run`, from `created` to `dead`, and `running` is the mark in the class
with the environment that goes with it. `ConfigSync` is what the host does on the
way up, against a server that loses replies and refuses IDs it knows; `done` and
`states` are the gateway's memory. `Service` runs the one inside the other: the
server takes its objects with it when it ends.

| code | actions |
|---|---|
| `start` | `StartAgain`, `StartHost`, `StartReady`, `StartFails` |
| `stop`, `_stop` | `Stop`, `StopBody`, `StopEnds`; `GiveUp` at the lock |
| `ParlantHost.run`, `serve`, `configure` | `HostBegins`, `ServerEntered`, `Configured`, `ServerUp`, `HostFails`, `HostEnds` |
| `bootstrap` | `Ask`, `BeginSync`, `SyncAgent`, `ReturnSync`, `CallFails` |
| `sync_glossary`, `sync_guidelines`, `sync_journeys` | `AskFor`, `Answered`, `ReplyLost` |

A cancellation of a caller that awaits the host's end is forwarded to the host and
then swallowed: `stop` returns normally. Repeated bootstraps (`Bootstraps` besides
`Own`) are those of a caller that holds `runtime.bootstrapper`, as the tests do.
An edge of a journey has no ID, so one whose reply was lost is drawn a second time;
`ConfiguredOnce` excepts exactly those (`lost`).

### Knowledge

Each task connects, closes, calls a tool or lists the tools; `lock` and `connected`
are the attributes, `client` is how the MCP client stands. An attempt that is cut by
its timeout may still reach the hub (`Received`). A failed entry or exit leaves
the client out or half open (`"broken"`); the code then reports it as not connected,
and only `connect` touches it again.

`RagAnswer` is `_bounded` and the loop of `_answer` on an answer that counts
bytes: the length and width of its text, its sources, its metadata, its
collection. The shapes a payload may have before (text, JSON, `summary` for
`answer`, `id` for `document_id`) and the flag's own byte are abstracted.

### Assembly

`phase` and `at` are how far `app_lifespan` has come, `stack` is its
`AsyncExitStack`, `state` of a context is between its entry (`opening`, `open`) and
its exit (`closing`, `closed`). `ready`, `services`, `registry`, `verifier` and
`admin` are what requests look up. The settings are any that
`validate_enabled_integrations` lets pass; those that fit together only at startup
make it fail there (`Refuses`).

| code | actions |
|---|---|
| `app_lifespan`, startup | `Start`, `Skip`, `Enter`, `Entered`, `MakeVerifier`, `Assemble`, `StartupFails` |
| `app_lifespan`, shutdown | `Shutdown`, `Leave`, `Left`, `End` |
| `get_storefront_context`, `get_agui_runner`, `_run` | `Arrive`, `Gate`, `VerifyFails`, `Begin`, `RunEnds`, `Abandoned` |
| `AguiRunRunner.close` | `RunCancelled`, in `Left` of the runner |
| the mounted admin server | `CallTool`, `CallEnds`, `CallCancelled` |

A server normally shuts the application down when its requests have ended, but it
gives up waiting after a while; the model lets requests come and stay at any
time, across two lives of the application. A run that was abandoned at a send (see
`RunLifecycle`) is not waited for by anybody, and `WorkHasItsResources` is only about runs
that a task drives. Left out: custom resource factories (for tests) and a
cancellation of the shutdown itself.

### SaleorServices

A caller makes one call at a time, each step of which is a request. Saleor owns the
data, and the merchant may change an order's customer or a promotion's dates before
any request (`Reassign`, `Reschedule`): that is all another caller of these services
could do, so one caller is enough. Pages of variants have any content, cursor and
claim that there is a next one. `RequestFails` stands for all that
`SaleorGraphQLClient.call` turns into an error, and the answer to a write may be lost
after it took effect.

| code | actions |
|---|---|
| `require_tool_access`, `get_customer_order` | `Call`, `RequireToolAccess`, `GetCustomerOrder`, `ReadOrder` |
| `disable_promotion`, `update_promotion` | `ReadPromotion`, `Decide`, `WritePromotion` |
| `resolve_variant` with `get_variants` | `Page`, `Verdict` |

The arguments of the calls are taken to be well formed, an update of a promotion to
give both dates, and whether a variant has the attributes is a constant (`Fitting`).

## The runs

| run | checks | bounds | states |
|---|---|---|---|
| `dispatcher_race` | `PublishedBeforeWake`, `AcceptedOnce`, `RevisionsInOrder`, `NoCommitAfterEnd`, `BrowserSeesCallsInOrder` | 2 tools, 2 IDs, 2 receipts, revisions 0 to 2, queue of 1 | 1.9 M |
| `dispatcher_calls` | `KeepsPromise`, `EveryReceiptAnswered` | 2 tools, 2 IDs with `max_calls` 1, 2 receipts, 1 revision, queue of 1 | 0.35 M |
| `dispatcher_false_mutates` | `FalseMeansNoMutation` is violated | 1 tool, 1 receipt | |
| `event_stream` | `FinishedMeansDelivered`, `NoFinishAfterError`, `TextAppendOnly`, `EveryRunEnds` | 2 session events, 2 chunks, queue of 1 | 1.9 M |
| `event_stream_shield` | `FinalizersUninterrupted` is violated | 1 session event | |
| `ownership` | `OneCustomerPerUser`, `AdmittedOwns`, `Repairable`, `MovesOnlyToItsUser`, `EntitledGetIn` | 2 threads, 3 visitors, 2 users | 0.85 M |
| `run_lifecycle` | `RegistriesAgree`, `EngineHasItsContext`, `CloseLeavesOnlyAbandoned`, `EveryRunEnds`, `CloseReturns` | 3 runs, two of them of one thread | 0.28 M |
| `run_close_joins` | `CloseAwaitsProcessing` is violated | 2 runs of one thread | |
| `turns` | `EventsTellState`, `RevisionNamesOneState`, `MessageOnce` | 2 tabs, 2 tool calls, 1 message, 2 revisions between restarts, 2 pages, a product with a variant | 1.1 M |
| `guards` | `NonceOnce`, `ApprovalOnce`, `KeepsTrail` | 2 copies of one request, 1 approval, 2 invocations, clock to 2 with a skew of 1 | 0.5 M |
| `application` | `NothingLeftBehind`, `ConfiguredOnce`, `ServedMeansConfigured`, `CallsReturn` of `Service`; `WorkHasItsResources`, `NothingIsLeft`, `ShutdownEnds` of `Assembly` | 2 runtimes, 2 callers, 2 hosts; a journey of 3 edges, out of order and with a cycle; 2 bootstraps. 2 requests, 2 lives, every combination of settings | 0.18 M and 39 k |
| `remote_calls` | `RequestsAreSafe`, `AnswersAreHonest`, `EveryLookupReturns` of `Knowledge`; `OnlyMatchIsSelected`, `DisablingEnds`, `CallsAreAnswered` of `SaleorServices` | 3 tasks, lists with 2 attempts, 4 answers. 1 caller, 2 users, 1 order, 1 promotion, 3 variants of which 2 fit, 2 cursors, 2 pages, clock to 2 | 0.13 M and 14 k |

The last two runs each check two modules that share no state. Their product would only
multiply the states: `MCApplication` and `MCRemote` choose at the start which of the
two a behaviour is about, and the other rests, with no fair step enabled.

Why these bounds. The dispatcher's tasks meet in pairs: two receipts for one
call, a receipt and a deadline, two tools for one revision, two tasks for one
place in the queue. Two of each, and a queue of one place, contain every such
pair; the code has no condition that counts to three. `dispatcher_race` starts
without a stored state and reaches the second revision, with receipts whose state
is good, malformed or out of date. `dispatcher_calls` has the receipts without
state, sends that fail, and the call over the limit; there one tool can have a call
and the other is refused. Fairness makes this run expensive, so one call and one
revision must do. In `event_stream` two session events give every order of a message
and a status, two statuses or two messages; two chunks tell growth from
replacement. In `ownership` two runs race at each step while the third visitor
makes it possible that two visitors of one user race while a third owns the
thread. (With three threads and two visitors the properties hold as well; the
4.6 M states take too long for a regular run.)

In `run_lifecycle` two runs compete for a thread and a third is what `close()`
must find besides; a run is at each point of its life while another is at each
point of its own. Whoever is refused does not come back: a browser that tries
again is another run.

In `turns` two tabs and two receipts can each meet a stale revision, and a second
revision overtake the events of the first; a third would repeat that. Restarts are
unlimited, so the message may be sent in any life of the process. In `guards` the
interesting times are before, at and after the end of a request plus the skew, and
the clock reaches all three. In `Service` two callers are enough for each of
start and stop to wait for any other, and two hosts for one to be refused while the
other runs or ends; the journey has an edge whose source comes later, one back to
its own state, and one to `END`. In `Knowledge` one task enters or leaves the client
while a second waits for the lock behind a third. Its answers are one that fits, one
that is too long, one with too many sources, and one that takes every branch of the
loop. In `Assembly` two lives let a request outlive the application it came to and meet
the next; two requests let a run and an admin call end in either order. In
`SaleorServices` two variants that fit make a selection ambiguous, the third is sent
for nothing, and promotions begin and end before, at and after the clock. With two pages
and two cursors the second page may repeat the cursor of the first, or bring a fresh one
and meet the limit of pages; a server that sends fresh cursors for ever is stopped by
that limit alone.

Deadlock is checked in every run. Where all tasks come to an end, `Terminated` is the
only stuttering allowed.

Fairness is stated only where a liveness property needs it:

- `Dispatcher!Fairness`: the event loop runs ready tasks (`ToolStep`,
  `ResolverStep`) and time passes (`Expire`). Nothing is assumed of the browser,
  the reader of the queue, the event gateway, the agent SDK, or the end of the
  run. Thus `KeepsPromise`, whose abstract calls must end, shows that the deadline
  alone suffices, and `EveryReceiptAnswered` that a hung gateway cannot hold `state_lock` past the
  deadline of the call it works for.
- `EventStream!Fairness`: the producer and the end of the run are run when ready,
  the run's timeout comes, and a *cancelled* engine gets through its
  finalizers. A running engine may run for ever, the session store may hang in
  its list call, the browser may stop reading.
- `RunLifecycle!Fairness`: ready tasks run, the run's timeout comes (the only thing
  that ends a run whose agent or browser does nothing), abandoned generators are
  collected, and a cancelled engine gets through its finalizers. The first and
  the last event are sent outside the block of the timeout, so there the browser is
  assumed to read or to leave; a browser that does neither holds its thread for
  ever. Nothing else is assumed: not that requests prepare, that engines return,
  or that anybody disconnects.
- `Service!Fairness`: a caller goes on when it can, a start's timeout comes, and a
  host that is cancelled or failing ends (assumed of the SDK's server). Taking the
  lock is strongly fair, since `asyncio.Lock` is handed over in the order it was
  asked for. That a server ever comes up is not assumed.
- `Knowledge!Fairness`: the timeout of each operation comes, sleeps end, `_answer`
  computes, and the lock is strongly fair for the same reason. An MCP operation is
  assumed to end when its timeout cancels it; the hub is free never to answer.
- `Assembly!AssemblyFairness`: the shutdown goes on, a context that is left comes to its end,
  and a run or admin call that is cancelled ends. Nothing is assumed of startup, of
  who asks for the shutdown, or of runs and calls that nobody cancels.
- `SaleorServices!SaleorFairness`: a request ends, with an answer or with the timeout that
  `SaleorGraphQLClient.call` gives it. Nothing is assumed of what it answers.

## The proofs

Eight modules hold theorems. Each proves `Spec => []IndInv` for an
invariant that is inductive, and derives the properties a reader cares about from
it. The assumptions of the component on its constants are all that is assumed:
finite sets, bounds that are numbers, model values that differ. Every `IndInv` was
also checked with TLC on the instance of the component's run (add it to the
INVARIANTS of the configuration; in the newer modules, with the `...Proofs` module
extended by the MC module), except for `Delivery` of `EventStreamProofs`, which
quantifies over sequences of views that TLC cannot enumerate.

The type invariants, `RegistryConsistent`, `IdentityIsSticky`, `EveryActionSigned` and
`StepsBalanced` are proved and therefore left out of the runs.

### DispatcherProofs

For any sets of tools, IDs, resolvers and receipts and
any bounds that satisfy `ConstantsAssumption`, this module proves:

| theorem | states |
|---|---|
| `InductiveInvariant` | `Spec => []IndInv` |
| `TypeCorrect` | `TypeOK`, with the bound of the queue and of the retired IDs |
| `RegistryIsConsistent` | `RegistryConsistent`: registry and running calls agree, returned calls leave no task behind |
| `PublicationPrecedesWake` | `PublishedBeforeWake`: a tool is woken with a revision only when it is committed, announced and queued |
| `AcceptedAtMostOnce` | `AcceptedOnce`: at most one receipt per call is answered True, and it settled the call |
| `RevisionsLeaveInOrder` | `RevisionsInOrder`: semantic events and snapshots leave in the order of their revisions |
| `EndedRunsCommitNothing` | `NoCommitAfterEnd`: after the finalizer of a run none of its receipts changes the store |
| `CallsAreSeenInOrder` | `BrowserSeesCallsInOrder`: the browser gets the events of each call in order and once, and a call that is over is not announced further |
| `PromiseIsKept` | `KeepsPromiseSteps`: every step is a step of `ToolPromise` or is not seen there |

None of the safety properties is inductive by itself. `AcceptedOnce`, for
instance, is preserved by `ResumeSettle` only because at that moment the future
is still unset while an accepted receipt has always left it set, which in turn
needs that no other resolver settles the same call during the await. `IndInv`
adds four parts:

- `CallsOK`: what the future, the send task and the outcome of a call can be at each
  point of `dispatch()`, and that after the end of the run no open call is
  unsettled;
- `ResolversOK`: `state_lock` is held exactly while a resolver awaits its update
  task, and a running update task belongs to an open, unsettled call;
- `PublicationOK`: how far the revision of an update task has been published;
- `OrderOK`: nothing that was announced or queued is newer than the stored
  revision, and an update task that is under way publishes the newest, of which
  nothing was queued yet. That is where `state_lock` enters: `ResolversOK` leaves
  one such task; without the lock two would publish in either order.

`StepInv` is the inductive step. It is split by type and links, and then by
action: `DispatchType`, `ToolType`, ... for `TypeOK`, and `DispatchLinks`,
`ToolLinks`, ... for the rest, each with one case per action and one step per
conjunct the action can disturb. `NoCommitAfterEnd` follows from `IndInv`: after
the end of the run no open call is unsettled, and running update tasks belong
only to those.

`CallsAreSeenInOrder` is about what is on its way, which `IndInv` says nothing of;
it has an invariant of its own, `QueueInv`:

- `OwnIds`: no two calls have one ID, since an ID is retired for good, and a call
  sends from the moment it is registered;
- `Announced`: the events of a call in the queue are exactly those that were put and
  that the browser has not seen, in their order. What was put is known from the
  phase of the call and the state of its send task (`Sent`).

For the queue there are five kinds of steps (`QueueStep`): nothing is put, a call gets
its ID, an event or a snapshot is put, or the browser reads. `QueueMoves` sorts the
actions into them, and each kind has its lemma (`SilentStep`, `OpenedStep`, `PutStep`,
`SnapshotStep`, `ConsumeStep`). If IDs were
forgotten with their calls, `OpenedStep` would fail; a send task left behind by the
`finally` block of `dispatch()` would announce a call that is over (`QueueInvStep`).

`PromiseIsKept` is the refinement without its fairness. What a call's `pc`, `future`
and the answers are to the promise is `CallStatus`, `CallVerdict` and
`TimesAccepted`; `DispatchPromise`, `ToolPromiseStep`, `ResolverPromise` and
`EndRunPromise` show of each action which one of the promise it is. A receipt that is
accepted is the first of its call because one that was accepted before would have
left the future set (`SettleAccepts`, from `ResolversOK`); the end of the run settles
all undecided calls and only these because the registry names exactly the open ones
(`RegistryConsistent`), and no open call has a cancelled future
(`OnlyLeftAreCancelled`). That every call returns is checked with TLC.

`RevisionsLeaveInOrder` is an action property; the lemma `StepOrder` shows of each
action, with `OrderOK`, that what it publishes is newer than all before
(`RevisionStep`).

### OwnershipProofs

For any threads, visitors and users:

| theorem | states |
|---|---|
| `InductiveInvariant`, `TypeCorrect` | `IndInv`, `TypeOK` |
| `UsersHaveOneCustomer` | `OneCustomerPerUser`, however many visitors bind a user at once |
| `AdmissionMeansOwnership` | `AdmittedOwns`: an admitted run owns its thread in both stores |
| `InterruptionsAreRepairable` | `Repairable`: the stores are at most one move of a visitor's thread apart |
| `IdentitiesStick` | `IdentityIsSticky`: no step takes an identity from its user or its visitor |
| `ThreadsMoveOnlyToTheirUser` | `MovesOnlyToItsUser` |
| `TheEntitledGetIn` | `EntitledGetIn`: nobody who is entitled is refused, whatever was interrupted |

`IndInv` adds `RowsOK` (a visitor leaves its own row only for that of a user, and
what `bind_saleor_user` reads under the row lock stays so until it commits),
`RunsOK` (what a run has read is still what is stored,
unless its visitor was anonymous then), and `ThreadsOK` (the thread a run works
on belongs to whom its last check said, because no other run of the thread
interferes). There is one lemma per action, one step per part of the invariant.
`TheEntitledGetIn` then goes through the four places that refuse: each of their
checks follows from entitlement, by `Repairable` where the session had moved.

### EventStreamProofs

For any bounds, any set of status events, with or without rewritten messages:

| theorem | states |
|---|---|
| `InductiveInvariant`, `TypeCorrect` | `IndInv`, `TypeOK` |
| `OneTerminal` | `NoFinishAfterError`: RUN_FINISHED and RUN_ERROR exclude each other |
| `FinishTellsTheTruth` | `FinishedMeansDelivered`: RUN_FINISHED means that the browser has everything |
| `TextOnlyAppended` | `TextAppendOnly` |
| `OneStepAtATime` | `StepsBalanced` |

The argument follows a message from the session to the browser, one part of
`IndInv` for each leg:

- `Session`: a message the adapter considers ended is mapped to its end, and one that
  is not polled again has ended; `LastPoll`: a poll that began after the engine was
  done sees the whole session, so what `finishing` follows has every message ended.
  That is why `completed` must be read before the list call.
- `Delivery`: the events in the queue and in the outbox, shown one after the other,
  lead the browser from what it shows to what the adapter has mapped (`Leads`), and
  each of them is one the browser can take (`Takes`): a start of something new, text
  that extends what is there, an end of what has not ended, a step when none is
  shown. Mapping appends to such a sequence (`TextShown`, `StatusShown`,
  `MappedFollows`), putting an event leaves it as it is (`StreamPut`), reading takes
  its first event (`ReadFollows`). With nothing under way, browser and adapter agree,
  which gives `FinishTellsTheTruth`; the form of each event gives the two action
  properties.
- `Control` says which tasks live at each point of the consumer and that `None` is the
  last of the queue; `Terminals`, that an error on its way is known to the adapter.

### RunLifecycleProofs

For any runs and threads:

| theorem | states |
|---|---|
| `InductiveInvariant`, `TypeCorrect` | `IndInv`, `TypeOK` |
| `RegistriesTellTheTruth` | `RegistriesAgree`: reserved exactly while the one run of the thread lives, active only that run, every live run registered for `close()` |
| `ContextsAreUnambiguous` | `EngineHasItsContext`: a living engine has the context of its own run |
| `CloseStopsDrivers` | `CloseLeavesOnlyAbandoned`: after `close()` no task drives a run |

`IndInv` adds `RunOK` (who drives a run where, and where its engine and context
live), `ContextsOK`, `TasksOK` (one registered task per live run) and `ClosingOK`
(whatever is still driven is among what `close()` awaits). Every action but
`Begin` and `close()`'s is a *local step*: it changes one run, and of the
registries only the entries of that run (`LocalStep`); `LocalStepCore` shows once
that local steps keep the invariant, since live runs have different threads. That
`close()` misses nobody rests on `Begin`: it tests `_closed`, reserves and
registers without a suspension.

### TurnsProofs

For any tabs, calls, messages, pages, products, patches and number of revisions:

| theorem | states |
|---|---|
| `InductiveInvariant`, `TypeCorrect` | `IndInv`, `TypeOK` |
| `EventsDescribeTheState` | `EventsTellState`: what the agent was told is true, but for what was cut |
| `RevisionsAreUnambiguous` | `RevisionNamesOneState` |
| `MessagesArePostedOnce` | `MessageOnce` |

The heart is the fate of a difference: each fact in which `told` and `stored` differ
is due in some job or has been lost, and jobs under way agree with the stored state
on what they still owe, since only one run and, under the lock, one receipt commit
at a time. Messages are posted once because a thread has one run that posts, and
what the run read of the history stays true until it posts.

### GuardsProofs

For any deliveries, claims, skew, invocations and approvals:

| theorem | states |
|---|---|
| `InductiveInvariant`, `TypeCorrect` | `IndInv`, `TypeOK` |
| `NonceIsUsedOnce` | `NonceOnce`: the row of an accepted request stays as long as a copy of it is valid |
| `ApprovalIsUsedOnce` | `ApprovalOnce` |
| `ActionsAreSigned` | `EveryActionSigned` |
| `TrailIsKept` | `KeepsTrail`: `Guards` implements `AuditPromise` |

The lemma `StepKeepsPromise` shows the refinement action by action: each is a
`Report`, a `Happen` or a stutter of the promise, whose `vouched` is a function of the
surfaces. It rests on the part of `IndInv` that says which records an
invocation has at each step.

### ApplicationProofs

For any runtimes, callers, hosts and configuration, of `Service`:

| theorem | states |
|---|---|
| `InductiveInvariant` | `IndInv` |
| `NothingIsLeftBehind` | `NothingLeftBehind` |
| `ConfigurationIsWrittenOnce` | `ConfiguredOnce` |
| `ServedIsConfigured` | `ServedMeansConfigured` |

`IndInv` says which host each runtime's task is, that a host that has lost its
runtime is awaited by somebody or dead, that only the host with the mark is alive,
and that what the gateway has noted is in the SDK.

For any number of requests and lives, and any choice of integrations, of `Assembly`:

| theorem | states |
|---|---|
| `AssemblyInvariant` | `[]AssemblyInv` |
| `WorkAlwaysHasItsResources` | `WorkHasItsResources`: what is open has what it needs open, and runs and administrators' calls work on open resources |
| `NothingIsEverLeft` | `NothingIsLeft`: after a shutdown or a failed start nothing is open or registered |

`AssemblyInv` is about the exit stack: it grows in the order of the code and only its
top is not open (`StackOrdered`), it has every enabled context below its top
(`StackComplete`), what is not closed is on it or just being entered (`Accounted`), and
how far startup has come (`StartedSoFar`). `WorkAccounted` says that the runner and the
admin server are not closed before their work is over. Both properties follow:
what a context needs comes before it in the order (`NeedsBelow`), so it is on the stack
below it and open (`BelowIsOpen`); and nothing can be left when the stack is empty. The
lemmas `Pushed` and `Popped` are about the stack alone.

### RemoteProofs

For any tasks, answers, budget and bounds, of `Knowledge`:

| theorem | states |
|---|---|
| `InductiveInvariant`, `TypeCorrect` | `IndInv`, `TypeOK` |
| `RequestsMeetTheClient` | `RequestsAreSafe` |
| `AnswersKeepTheirPromise` | `AnswersAreHonest` |

`LinkInv` relates the lock, the connection and the client: the client is in whenever
the connection is noted, unless the holder of the lock is about to leave it.
`AnswerInv` is the invariant of the loop: the answer is derived from its payload,
flagged if it differs, and has all its sources while leaving out metadata and text
would have been enough. The lemmas `ShapedDerived` and `ShrunkDerived` show this of
each turn; `SourcesMustGo` is the arithmetic.

For any callers, users, orders, promotions, variants, cursors and numbers of pages, of
`SaleorServices`:

| theorem | states |
|---|---|
| `SaleorInvariant` | `[]SaleorInv` |
| `OnlyMatchIsEverSelected` | `OnlyMatchIsSelected`: a variant that is returned is the only one that fits of all that was sent, and the list was read to its end |
| `DisablingAlwaysEnds` | `DisablingEnds`: `disable_promotion` is not refused, and has ended the promotion when it says so, unless its dates were changed meanwhile |

`SaleorInv` says what a caller knows from what it has read or was sent, never from what
Saleor is at the moment: the merchant may change every order and promotion between any
two requests. Its heart is `ToBeWritten` (the dates about to be written to disable a
promotion are valid and over, by the lemma `DisabledEnds`) and `Searched` (the matches
kept are all of what was delivered that fits); `OnlyOne` is the fact about
finite sets that a set of matches which is neither empty nor ambiguous is the one
selected.

### Only model-checked

Liveness, which the prover cannot handle since fairness is about ENABLED: that every
receipt, lookup and call is answered (`EveryReceiptAnswered`, `EveryLookupReturns`,
`CallsAreAnswered`, `CallsReturn`), that every run ends (`EveryRunEnds`), that `close()`
and the shutdown end (`CloseReturns`, `ShutdownEnds`), and the fairness in
`KeepsPromise`. All other properties of the passing runs are proved. What the loop
over an answer computes is proved turn by turn; that it has enough turns is liveness too.

## Disagreements between code and comments

- `resolve_result` promises "False for duplicate/late/foreign results; no state
  mutation in those cases" (`frontend/tools/dispatcher.py:176`). The first step
  of its update task commits the revision; if the deadline passes while the task
  then creates semantic events or waits for the queue, the answer is False and
  the state has changed (`dispatcher_false_mutates`).
- `stream_run` shields its join "so repeated cancellation cannot interrupt
  SDK/tool finalizers" (`agui/stream.py:91`). The shield is an AnyIO scope; the
  cancellation of `asyncio.timeout(run_timeout)` is native, reaches the `gather`
  and cancels the engine a second time, in its finalizers
  (`event_stream_shield`). The tasks are still joined, and the run still ends.
- The test `test_cancellation_awaits_processing_and_releases_context`
  (`tests/agui/test_runner.py:171`) says that after `close()` the processing was
  awaited and no run, reservation or context is left. That holds when the driver is
  cancelled at an await of the generator, as in the test. If it is in a send to a
  slow browser, `close()` awaits the driver only, and the abandoned run keeps its
  engine, context and reservation until it is collected (`run_close_joins`).

A third observation is no disagreement, as nothing is promised: if the run's
timeout fires in the cleanup after the agent had reported an error, the browser
gets two RUN_ERROR events.

## What is not modelled

- Saleor services of one request, or of a check of the channel and one request: Saleor
  holds the state and repeats every check when it acts, so there is no state of this
  program to relate. `cancel_order` and `fulfill_order` read before they act; a
  change in between is refused by Saleor, which is outside the repository.
- Not at all: cryptography and token claims, request parsing, YAML validation, SQL
  and schema migrations, the generated Saleor client, logging and metrics. They
  are pure functions or I/O whose correctness is not a matter of order. The
  generated client is more than half of all lines of the repository's
  implementation, which bounds the share of lines any model can stand for.
- Parts of modelled components: an audit service that is absent, the adoption of old
  identity rows, the bounded list of `list_collections`, the shapes of RAG payloads,
  the texts of the configuration.
- External: the Parlant engine, the database, Saleor and the browser are modelled by
  what this code relies on.

## Plan

What would add most, in this order:

1. A composition of `RunLifecycle` and `Turns`: late receipts of an abandoned run of
   a thread, and a `close()` that clears the states while an engine is still ending.
2. The bounded list of `list_collections` as a pure algorithm against a reference
   definition.
3. Cart and checkout tools, whose steps in the browser and in Saleor must agree.
