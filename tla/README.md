# VeraPort: a TLA+ verification of the mesh's execution core

This project models the part of vera-mesh that decides *who may do what on a
workstation, and how often*: the Python reference agent and controller under
`reference/veraport_agent/`, from the agent's registry and ledger over the
connection and the controller's lanes to the tools that install it and the
services that run it. TLC checks the modules on small instances; TLAPS proves
the safety properties of the registry, the ledger, the lane operations, the
controller's failover and lanes, the multiplexed connection, the installation tools
and the services for every value of their constants.

## 1. Inventory

A **controller** (a gateway, an MCP server) reaches a **workstation agent** over
authenticated TLS sessions, directly or through an edge. It opens **lanes** on
the agent - leased sets of capabilities and resource claims - and runs file and
process operations on them.

| Component | State it keeps | Operations | What is hard | What makes it correct |
|---|---|---|---|---|
| `LaneRegistry` (core.py) | lanes, last fence | open, renew, close, authorize, snapshot, reap | clock read before the lock; restart; spelling of claims | exclusive writers, stale tokens refused, leases honoured, bounded |
| `AgentStateStore` (state.py) | SQLite: fence counter, request rows | next_fence, begin_request, complete_request | crash between any two calls, full ledger, SQLite errors | one execution per key, rows are forever |
| `SessionBoundHandler` (runtime.py) | the session's binding | one call per request, close_session | reconnect under another session | names separate controllers and sessions |
| `VeraPortAgent` (protocol.py) | counted lane locks | handle, _dispatch, close_session | awaits between admission, effect and record; locks created and dropped | lanes serial, nothing left behind |
| `LocalExecutor` (executor.py) | none | file operations, process.exec | authorized on the loop, done on a thread | effects inside the claims |
| `RdcSurface` (rdc_surface.py) | managed processes | start, input, terminate, output, list, searches | watchdog threads, blocking pipes, lane close across awaits | no process outlives its lane, calls return |
| `HotSessionPool`, `select_path` (controller.py, synchrony.py) | endpoints per route | register, remove, request | late and lost requests, retry, stale snapshot | no mutation twice, honest outcome |
| `MultiplexClient`, `serve_multiplexed` (stream.py) | pending futures, in-flight tasks | request, read loop, close; serve | cancellation, back-pressure, close racing requests | every waiter is released, bounded admission |
| handshake (tls_transport.py, hot_session.py) | challenge | challenge, auth, accept | replay, time-outs | binding agrees on both sides |
| `MirroredReadLaneRouter` (read_lane.py) | mirrored lanes per endpoint | open, renew, close, read | lost answers, expiry in flight, partial failure over several endpoints | no lane left silently, a successor is spared |
| controller runtime, gateway (controller_runtime.py, gateway.py) | sessions, reconnect state | ensure_started, refresh_paths, request, close | reconnect racing requests; the agent ends a session, and its lanes, later than the controller drops it | requests reach the session that holds the lane, or fail |
| public facade, MCP tools (public_gateway.py, public_mcp.py, mcp_server.py) | process handles | ephemeral calls, process handles, close | cleanup that fails, cancellation | a success stands, handles are known |
| provisioning, recovery, attach, upgrades (provision.py, bootstrap.py, prepare_workstation.py, controller_recovery.py, existing_install_attach.py, the two upgrades) | the installation's files | one run per call | runs that race, or die between two system calls; rollback | one identity, no lost entries, old or new |
| services (windows_service.py, lappy_host.py, tunnel_runtime_service.py, windows_mcp_service.py) | server, processes, external runtime | start, serve, supervise, stop | stop order, clients that stay, handlers that outlive their connection, commands that hang | drained, supervised, stoppable |
| Go gateway (gateway/veramesh-go) | connection, logical lanes | requests, lane calls | reconnect, its own lane table | agrees with the agent's lanes |
| live edge, WorkBridge | sockets, external session | copy bytes; one tool call | broken connections | see section 5 |
| OAuth, qualification, scripts | little or none | parse, verify, report | I/O | not for a model checker |

How they meet: a controller call goes through `HotSessionPool.request` to a
channel, is read by `serve_multiplexed` as one asyncio task, named by
`SessionBoundHandler`, admitted by `AgentStateStore`, dispatched by
`VeraPortAgent` under the lane's lock, authorized by `LaneRegistry`, and takes
effect on a worker thread. Watchdog threads call `LaneRegistry.authorize` on
their own. One agent is shared by all sessions. Above the pool, a
`ControllerRuntime` keeps one session per endpoint; the router opens a logical
read lane once per session, and the public facade opens a lane per call. The
agent runs in a Windows service over files that the installation tools wrote.
`PROJECT.json` lists every
component, with the reason for each one that is left out, and every hazard with
the properties that would catch it.

## 2. Modules

| Module | Models | Proofs |
|---|---|---|
| `LaneRegistry` | core.py, `next_fence`, restart | `LaneRegistryProofs` |
| `OnceExecution` | abstract: a key runs once, and callers are told only its result | |
| `MutationLedger` | handle / begin_request / complete_request, sessions, crashes; implements `OnceExecution` | `MutationLedgerProofs` |
| `LaneOperations` | lane locks, `_dispatch`, worker threads, processes, watchdogs, close_session, over `R == INSTANCE LaneRegistry` | `LaneOperationsProofs` |
| `SessionPool` | `HotSessionPool.request` and `select_path` against a lossy, late network | `SessionPoolProofs` |
| `MultiplexedStream` | `MultiplexClient`, `serve_multiplexed`, the end of `serve_tls_connection` | `MultiplexedStreamProofs` |
| `ControllerRuntime` | controller_runtime.py, a gateway request, the agent as a request meets it | |
| `ReadLanes` | read_lane.py, over `ControllerRuntime` | |
| `PublicFacade` | public_gateway.py, the tools of mcp_server.py and public_mcp.py, over `ReadLanes` | |
| `ControllerLanes` | composes the three: operators and facade users over one runtime | `ControllerLanesProofs` |
| `InstallFiles` | the files of an installation, exclusive creation, loading | |
| `Provisioning` | provision.py, bootstrap.py, prepare_workstation.py | |
| `TrustMaintenance` | controller_recovery.py, existing_install_attach.py, the lock, backups | |
| `ControllerUpgrade` | the read-write and full-control upgrades | |
| `Installation` | composes the four: any runs of any tools | `InstallationProofs` |
| `Services` | windows_service.py, lappy_host.py, tunnel_runtime_service.py, windows_mcp_service.py | `ServicesProofs` |
| `MC*` | instances for TLC | |

**LaneRegistry.** `lanes`, `lastFence` are the fields of the class,
`fenceCounter` the durable row, `clock` is `time.monotonic()`, `retired` a
history of tokens that left. Each method holds the registry's lock throughout,
so it is one action; `Reading` is the set of clock values it may have read
before it got the lock. A refusal that changes nothing is a stutter; one that
reaps on the way (`OpenBlocked`, `RequireExpired`) is an action. Resource keys
are mapped by `Norm` to their namespace and path segments, which is what
`startswith(value + "/")` after `rstrip("/")` compares.

**MutationLedger.** A task is one handler call: idle, `Admit`/`MeetRecorded`/a
refusal, `_dispatch`, `complete_request`, `Reply`. The ledger key is
principal and id, the hashed content is session and body, because the handler
prefixes `lane_id` by the session before the agent hashes the request. `Crash`
loses tasks and sessions, never rows. `ran` and `answers` are histories.

**LaneOperations.** A call enters `_lane_operation` (`Enter`), waits in the FIFO
of its lock, is authorized, goes to a worker thread, comes back, and leaves.
`close_session` is an actor of its own that enters each lane of its snapshot.
The close of a lane terminates the token's processes one at a time, and only
then checks the fence: so does the code. Operations are reduced to kinds that
differ in capability, claim mode or effect.

**SessionPool.** One request over several endpoints of one route. What was sent
stays on `wire` until it is served or dropped, also after the controller gave
up. The agent is reduced to the ledger's answer. The configuration (is there a
ledger, which endpoints claim one, which sessions they belong to) is chosen in
`Init`, with the assumption that an endpoint marked `durable_idempotency` leads
to an agent that keeps a ledger.

**MultiplexedStream.** One connection. `pending` is the client's table, `pc` the
await each `request()` is at, `fut` its future; `srv` is the await of
`serve_multiplexed` and `task` that of each `run_one`. A frame is the call it
belongs to. `toServer` and `toClient` are the two directions; `Window` frames may
be unread before `drain()` waits. `Cancel` is the caller's own `wait_for`
(`HotSessionPool.request`), which may strike at any await and leaves the entry in
the table. `Break` cuts either direction at any frame and shows the client an end
of stream, or an error that hides what its reader had buffered. A timeout may win
against a response that has just come, as it may from Python 3.12 on.

**ControllerRuntime, ReadLanes, PublicFacade.** A caller (`task`) works through a
script of phases, one request to the runtime each; `pc` is the await it is at.
`live` and `pool` are the two tables of sessions, `lanes` and `object` the
router's table and its lane objects (an object that was replaced lives on in the
calls that hold it), `handles` and `lease` the facade's processes. Every phase
begins with `ensure_started`, which may drop sessions and make new ones; so may a
`Shutdown`. That closes the controller's channel and nothing else. What the agent
then does is a step of its own, at any later time: `SessionEnds` takes the lanes of
a dropped session from `held`, but for those `close_session` could not close, and
its unserved requests from `wire`. `LaneEnds` ends one lane: its lease is over, or
the agent was the first to find the connection gone. In between `close` and `renew`
treat the mirror of a dropped session as unresolved, as the code does, and a read
may put a mirror over a new session in its place. A request stays on `wire` until
it is served, also when its caller has given up, and its answer may be lost. An
attempt that loses its stream goes on to the next endpoint; any other transport
error (`Broken`, `GaveUp`) ends the phase at once. `Cancel`
strikes at any await: locks are let go, a `finally` clause still closes the lane,
an `except Exception` does not. `held` is what the agent has; `excused` is a
history of the lanes there which the controller has a stated reason not to track.

**Installation.** A run of a tool is a process; `pc` is its next system call, and
it may die before any (`Crash`, which also stands for every exception that no
handler undoes). A file is absent, torn (created, not yet written through) or
whole, and holds the keys of the run that wrote it; of the three files that are
replaced in place the text matters too: `trust`, `config`, `exec`. Capability
sets are the four levels the tools use. An upgrade reads file after file, takes
the lock, compares, backs up, replaces, verifies and, on an error, rolls back in
the code's order. `slip` and `undid` are histories that the exceptions of two
properties need (below). Initially nothing is there, or a finished installation
of either kind is.

**Services.** `agent`, `tunnel` and `mcp` are the places of the three run loops,
`asked` the stop events, `proc` the managed processes, `runtime` the external
tunnel runtime. A connection to the agent has two parts that end apart: its
transport (`clients`), and the handler task that reads what has arrived and waits
for its own requests (`left`: some handler's connection has gone). `by` says for
which connection a `process.start` is under way on its worker thread. `waits` is
chosen at the start: whether `Server.wait_closed` waits for connections, as it does
from Python 3.12 on, and does not in 3.11; the repository is tested under both. It
waits for transports and not for handlers, so a start may be under way when
`WaitClosed` takes the list of processes. A start that ends during the drain is
"late" if its client is still connected, "unheard" if nobody is there to hear of it.
`busy` says that a request or stream of the MCP server's own clients is open:
uvicorn's graceful shutdown waits for it, and the service sets no limit. A command
of the tunnel service may fail (survived) or exceed its time (not survived).

## 3. Runs

| Run | Shows | Bounds, and why they are enough |
|---|---|---|
| `lane_registry` | exclusive writers, fencing, leases, capacity | 3 lane ids for 2 places, 4 grants, time 0..3, leases up to 2, readings up to 1 old: expiry, reopening, a full registry, late readings and restarts all occur together |
| `mutation_ledger` | at-most-once, write-ahead, honest answers, refinement | 3 calls (request, resend, rival), 3 sessions of 2 controllers, 2 bodies, 1 id, room for 1 row: the second controller meets a full ledger |
| `ledger_reconnect` | **violated**: the resend after a reconnect is taken for another request | as above |
| `lane_operations` | serial lanes, exact lock tables, quiet closed lanes | 2 lanes of one session with the same claims, 2 calls and close_session, 1 process, leases of 1 and time 0..2 |
| `lane_operations_live` | strays end, calls return | 1 lane, 2 calls, 1 process that need not read |
| `stale_holder` | **violated**: a write outlives its lease | as `lane_operations` |
| `session_pool` | no mutation twice, honest NO_CURRENT_PATH, reads try every path, requests end | 1 request, 3 endpoints in 2 modes, 2 sessions, every configuration up to the names of the sessions; requests share nothing but the endpoints' status, which changes freely |
| `stream` | responses find their call, slots balance, the session is closed last, calls end, the server follows the client | 3 calls, 2 of them with one id, 2 slots, no buffering: cancelled, timed-out and resent requests, handlers that outlive the connection, a writer that blocks with another behind it |
| `lost_mutation` | **violated**: a lost mutation ends in a plain transport error | as `session_pool` |
| `controller_lanes` | no silent leftover, success stands, the successor is kept | 2 callers, both operators or both facade users, 3 calls, 2 endpoints, 2 sessions, 2 grants and 2 logical lanes: one lane id is reopened while a call on its first life is under way, a mirror is opened on the second endpoint, a session is replaced before the agent has ended the old one, and a read then replaces its mirror |
| `installation` | one identity, enrolled keys exist, own entries only, granted before used, failed upgrades undone, preimages kept | 3 runs of any tools, over nothing or over a finished installation of 2 earlier runs: two that race and a third that finds what they left |
| `services` | complete drain, no orphan runtime, mending, stopping | 1 process, in every place of the drain: to a process, another one only lengthens the drain, breaks it off or keeps a handler waiting, all of which it meets alone, and nothing that keeps a service from stopping is a process; everything else is finite |

Symmetry is used over lane ids, calls, bodies, a controller's sessions, callers,
endpoints and runs of tools, in runs that check safety only. Deadlock
checking is off where every call is made once and the system then rests.
`Window`, `MaxTime`, `MaxFence`, `MaxTtl`,
`ClaimChoice`, `Offered`, `MaxCalls`, `MaxSession`, `MaxGrant` and the sizes of
`Task`, `Process` and `Call` bound the models and nothing else.

Fairness. `LaneOperations`: weak fairness of each call's next step, of
close_session and of each watchdog - the event loop, the thread pool and the
watchdog threads run what is ready. Nothing makes a child read its input or
exit. `CallsReturn` also assumes that process deadlines pass, as wall time does.
`SessionPool`: weak fairness of a call's progress, for `asyncio.wait_for` ends
every wait. Nothing is assumed of the network. `MultiplexedStream`: weak fairness
of the client's event loop and of the server's, taken as a whole: a loop with
something ready runs something. Handlers return (`CallsReturn`), and a TLS
transport that is closed ends within its shutdown timeout. Nothing makes the
network break, anyone cancel, or the other end read. `Services`: weak fairness of
each service's own loop; nothing is assumed of the clients of the agent or of the
MCP server, of worker threads, of the external runtime or of the operator.
`ControllerLanes` and `Installation` are checked for safety only: a call there
ends because each of its awaits has a timeout and its loops are over finite
lists, which `SessionPool` checks for the one loop that retries; a tool's run
is a straight line.

Where a property has an exception, it is the code's:

* `NoSilentLeftover` excuses a lane whose `lane.open` answer was lost, whose
  logical lane had expired, whose mirror `renew` dropped, whose caller was
  cancelled, or whose close was reported as failed; and one whose session the
  controller had dropped when a read put a mirror over a new session in the place of
  its mirror (`Replaced`, read_lane.py:405-440). The agent has such a lane until it
  finds the old connection gone or the lease is over, and a later close that reports
  success says nothing of it. Except for these, a close that reports success leaves
  nothing.
* `FailedUpgradeRestores` excepts a file whose replacement took effect and then
  raised: `_atomic_replace` protects the file after `os.replace`, and the caller
  has not noted the change yet.
* `GrantedBeforeUsed` ends when a rollback begins: it restores the trust list
  first, so one that dies leaves a configuration that asks for more than is
  granted - which the agent refuses.
* `StopsEnd` leaves the agent one way not to stop: `wait_closed` waits for
  connections and some client stays connected for ever. And it leaves the MCP service
  one: a request or stream of a client never ends (no `timeout_graceful_shutdown`,
  windows_mcp_service.py:113-119). The tunnel service has none.
* `DrainIsComplete` speaks of the processes that were entered before the drain took
  its list. A start that is under way on its thread then may come up behind the drain
  and outlive the service. Where `wait_closed` does not wait, its client may still be
  connected and be told of it. Where it waits, only a start asked for over a
  connection that has gone since can do this, while that connection's handler is
  left. Nor does the property speak of a drain that a child surviving `kill` has
  ended.

### What the violated runs say

1. `runtime.py:27-28` promises durable idempotency across reconnects. The key is
   stable, but the hashed request contains the session-prefixed `lane_id`, so
   the exact resend on a new session is answered `IDEMPOTENCY_CONFLICT`. It does
   not run twice; the caller only never learns the outcome.
2. `core.py:65` says fencing keeps a stale holder from resuming. Operations are
   authorized once, before they are handed to a thread, and the lane lock does
   not cover other lanes. `OverlapOnlyByExpiry`, which holds, says that this is
   the only way two threads touch overlapping resources.
3. `controller-routing-profile.md:25` says a mutation without a protected retry
   path ends in `AMBIGUOUS_DELIVERY`. When the equivalent endpoint exists but
   its path is stale, the code raises the transport error itself.

## 4. Proofs

**LaneRegistryProofs.** The invariant is
`TypeOK /\ NoConflict /\ FencesUnique /\ FencesCounted /\ AllocatorAdvances`.
`ExclusiveWrite` speaks of what `authorize` grants; it follows from `NoConflict`
(no two lanes hold conflicting claims), because two prefixes of one path are
prefixes of each other. `FencedOut` needs `FencesUnique`, which is inductive
only with `FencesCounted`: every fence ever granted is at most the durable
counter, so the next one is new, across restarts too. Capacity has its own
induction; `LeaseHonoured` is proved step by step from `TypeOK`. Assumptions:
the ones named in the module (`NormAssumption`, `BoundAssumption`,
`NoneAssumption` and the like); `LaneId` need not be finite.

**MutationLedgerProofs.** The invariant adds to `TypeOK` what ties the calls to
the rows: a call about to run or to complete owns the pending row of its key,
with its own content, and is the only such call; a row's status and the history
`ran` agree; every answer, and every reply about to be given, is vouched for by
a completed row. From it come the safety properties, the action property
`RowsAreForever`, and the refinement `LedgerImplementsOnce`, where each action
is mapped to a step of `OnceExecution` or to a stutter. The abstract `log` is
the history `ran`, so a second execution is no step of the abstract system.

**SessionPoolProofs.** Calls share only the endpoints, so the invariant speaks
of one call at a time (`CallInv`) and a frame lemma (`OthersKeep`) carries it
over to the others. A call that has not lost a stream and is choosing a path has
no copy anywhere (`Placed`); after a loss a mutation is bound to one session,
under which every copy went out (`Bound`); with a ledger the row counts the
effects, without one there is a single copy (`Counted`). The last rests on the
assumption about the configuration, which is part of the specification's `Init`.
`ReadsTryEveryPath` has an induction of its own (`ReadInv`): a
read is never bound to a session, so what it may still choose is exactly what is
usable and untried.

**MultiplexedStreamProofs.** The invariant `StreamInv` says where a request can be
(`Placed`: one place at a time, once per direction), what shows that the
connection is over (`Ends`), and the heart of the matter (`Entries`): as long as
the client is open, a request that is sent and not answered has its own entry in
the table, and afterwards nobody else has it. A reset is excepted, because then
nothing is read any more. `OwnAnswer` follows for the one action that resolves a
future with a response. `SlotsBalance` is an induction of its own that needs
`Placed` (a request that is read is not running already), and the upper bound of
`free` in `TypeOK` needs `SlotsBalance`.

**ServicesProofs.** `DrainIsComplete` speaks of the end of the drain; the invariant
behind it follows the drain from its start: the list covers every managed process
until one of them raises (`DrainCovers`), and where `wait_closed` waits nobody is
connected and no process comes up that a client waits for (`DrainAlone`), which stays
so because a closed server admits nobody. It does not say that nothing is starting.
What is starting is for a connected client or left over from a connection that went,
and then a handler is left too (`StartsHandled`), so with nobody connected the second
holds. That a late process belongs to a drain that goes on (`LateInDrain`) makes the
beginning right. The type invariant is proved in two parts, `Flags` and `Places`,
because the truth values need another prover than the rest.
`OrphanOnlyByFailedStop` is inductive with it: every way out of the tunnel loop goes
through `StopRuntime`. `Proc` need not be finite, and nothing is assumed.

**LaneOperationsProofs.** One agent, any number of sessions, calls, lanes and
processes. The invariant `Inv` has three layers, each of which the next one needs:

* the registry's own invariant (`RegistryInv`), restated here because the theorems
  of a module that is instantiated under a name cannot be cited. From it, a token
  that has left never comes back;
* the locks. `Queued` says that a call under way stands in the queue of the one
  lock its lane has, at the head when it is past `acquire`, and `Counted` that
  `_lane_lock_users` counts exactly these calls: together they make a lock that is
  dropped nobody's, which is why `LaneSerial` survives a lock being dropped and
  made again under the same lane. `Shape` ties the fields of a call to its place;
* what a close leaves behind. `ClosingSees` says that a `lane.close` past its
  listing still has on its list every process of its token that runs; nothing
  starts one meanwhile, because that would be a second call inside the lane.
  `ClosedIsQuiet` follows. `SweepSees` says the same of `close_session` and the
  lanes of its session, and gives `SessionLeavesNoLane`.

`Covered` (while a worker's lane is there, a claim of the lane covers what the
worker touches) gives `OverlapOnlyByExpiry` with the registry's `NoConflict`. The
refinement `OperationsImplementRegistry` shows that every step of the operations is
a step of `LaneRegistry` or leaves its variables alone, so what is proved of the
registry holds of the agent that uses it. Assumptions: those of the registry
(`RegistryAssumption`), the named ones of the module, and among them that calls and
sessions are finitely many at a time, without which `Counted` could not count.

**InstallationProofs.** Any number of runs of any tools, over nothing or over
either finished installation; the only assumption is `RunAssumption` (a run of the
present is none of the past, and `None` is no key). The invariant is built in
layers, each proved inductive with the ones before it:

* `Phases`: the place of a run says which tool it is, how far it is in its list of
  files or targets, and whether it has the lock;
* `FileInv`: a file being written is torn and is the writer's (`Filling`); nothing
  of an identity is there before `wkey` (`FirstFile`), so the run that created
  `wkey` exclusively is the only one that writes on (`Owned`) - which is
  `OneIdentity`. `Keys` and `Built` say whose key is in a whole file, and what a
  configuration or a service needs to be there;
* `KeyInv`: `EnrolledKeysExist` with `Aims`, that a run about to enroll or to write
  back a list has a key for every name on it. `prepare_workstation` removes a key
  only behind the exported copy of the same run, and a rollback writes an older
  list, whose keys are still there;
* `HeldInv`: while a run has the lock, what it read and compared stands, except
  where `changed` or `slip` says that it was replaced, and everything it may
  replace has a complete backup. Only the owner of the lock replaces a file that is
  whole, and a provisioner writes only files that are not. The three action
  properties follow, each by one step of one action;
* `GrantInv`: the key a configuration names is the one its run meant
  (`ConfiguredKey`), and until a rollback begins nothing asks for more than is
  granted (`Ceilings`). Without a rollback the trust list only grows, and each
  tool grants before it asks: a provisioner's list is file 5 and its configuration
  file 11, an upgrade replaces the list first.

TLC checked every layer on `installation`'s instance before it was proved.

**ControllerLanesProofs.** Any number of callers, lanes, sessions and (finitely
many) endpoints. `Script` says what can be left of a call: the facade's phases in
the order of its try blocks, one phase of an operator, or the releases of a drain.
`Shaped` ties a caller's place to its other fields; its last conjunct, that a
caller whose operation has succeeded has nothing before it but the closing of a
lane of its own, is what `SuccessStands` rests on. `Objects` says that a lane
object has no mirror and is known to its open only until that open returns. Even
the types need it: an open asks for a new mirror at every endpoint, and would have
no request to send if it found one. `Marked` keeps the lanes of every script among
the ids the facade has noted. Each new session has a number of its own, so that
`made` stays within its bound by a pigeonhole argument. `SuccessorKept` follows
step by step: an entry is changed by an open or `_require` that found it expired,
or by the end of the operation whose token it is.

`NoSilentLeftover` needs a second invariant, `Track`, inductive with the first: who
knows what of the lanes the agent holds.

* `LiveOK`, `HeldOK`, `LeaseOK`, `Knows`: no number is larger than the last one
  issued, so a new session or token is nobody's yet, and no two endpoints share a
  session. Nothing is said of the sessions that the agent's lanes are in: the
  controller may have dropped them.
* `Traced`: every mirror names a session of its own endpoint, and the lane with its
  token, if the agent has it, is in that session. So a lane whose mirror is replaced
  is in a session that the controller has dropped, and it is excused as `Replaced`.
* `WireOK`: a caller that waits has at most one request of its own under way, and
  that request is for what the caller now does. A late answer is never taken for
  the answer of another request; a request whose caller has gone is nobody's.
* `Gone`: the answer "ok" to a close means that the lane is closed. This is what
  lets a caller forget the lane.
* `Locked`, `Closes`, `Reads`: while a caller holds a lane object's lock nobody else
  changes its mirrors; a close that has nothing unresolved still has every mirror
  left on its list; a read replaces a mirror only if the controller has dropped its session.
* `Apart`: a lane id being started is on no other caller's script and no handle's,
  so nobody else's end forgets it.

The theorem then goes through the steps in turn and shows for each that whoever
answered for a lane still does, or that the lane was closed, ended with its session
or its lease on the agent (`SessionEnds`, `LaneEnds`), or is among the excused. TLC
checked `Track` on `controller_lanes`'s instance first.

Assumptions: `EndpointAssumption` (finitely many endpoints), `LaneAssumption` (the
operators' lane id is none of the facade's), `NoneAssumption` (`None`, for a free
lock and for the caller that has gone, is no caller) and that the bounds are
numbers.

Proved and not run, because the proof covers every instance: the type invariants
of the four oldest proof modules, `AllocatorAdvances`, `LaneCapacity`,
`RecordedBeforeRun`, `CompletionNeverConflicts`, `LedgerBounded`,
`RowsAreForever`.

Only model-checked: liveness (`StrayProcessesEnd`, `CallsReturn`,
`RequestsEnd`, `CallsEnd`, `ServerFollows`, `Mended`, `StopsEnd`), which is
beyond this prover. Every safety property of a passing run is a theorem.

## 5. Not modelled, and what is assumed

SQLite transactions are atomic and durable, `os.replace` is atomic, and file
creation with `O_EXCL` is. A killed child dies, except at service stop: that
`_terminate_sync` waits five seconds after `kill()` and raises if the child is still
there (rdc_surface.py:915) is not an outcome in `LaneOperations`. A handler
task is not cancelled (`serve_multiplexed` gathers its tasks, it does not cancel
them). `LaneOperations` covers one life of the agent; restarts are in the two
modules with durable state. File contents, path resolution, search and output
reading are abstracted away; `fs.move` names one resource here and two in the
code.

In `ControllerRuntime` a probe that fails after a handshake drops the new session;
in the code its channel stays open and unregistered until the agent or the
network ends it, and holds no lanes. Of a session that only the agent has found gone
the controller learns by requests that fail: `LaneEnds`, and requests that are never
served. The write and process tools of
`mcp_server.py`, which take an operator's own gateway lane, are not calls of their
own. In `Installation` only the tools write the files, and an operator removes a
lock only when its run is gone. `existing_install_attach.py` takes the place of the
controller's key from the operator, and any path will do; the model has the two
where a tool writes such a key (the identity's and the recovery's), and a run that
reads a copy kept elsewhere is not in it.

Left out, with the reason in `PROJECT.json`: the Go gateway (a second controller,
with locking of its own; the largest part that could still be modelled), the live
edge (copies bytes: to the stream, a connection that may break), WorkBridge (one
call of an external server per request), cryptography and OAuth, qualification
and deployment scripts.

## 6. Plan

Done: `LaneRegistry`, `OnceExecution`, `MutationLedger`, `LaneOperations`,
`SessionPool`, `MultiplexedStream`, `ControllerLanes`, `Installation`, `Services`,
and eight proof modules. Next, in this order:

1. The Go controller with its logical lanes (controller.go, facade.go,
   client.go).
2. Operators' own gateway lanes in `ControllerLanes`.
