# TLA+ models of CLI-Manager

CLI-Manager runs AI command-line tools in terminals. The terminals live in a
daemon process so that they survive the desktop application; the desktop window
and a Web bridge show them. This directory holds TLA+ models of the parts of
the program whose correctness depends on the order in which threads, processes
and messages act, the TLC configurations that check them on small instances, and
proofs, checked by TLAPS, of what holds for every instance.

Paths below are relative to `src/`; `D` stands for
`src-tauri/src/infrastructure/daemon` and `F` for `src/features/terminal`.

## 1. Inventory

### The PTY daemon (`D/server.rs`, `D/server/*.rs`)

One process, started on demand, found through `daemon.json`. Threads: one per
client connection (reads and handles requests in order), one writer per
connection (drains a control queue, then an output queue), per session a PTY
reader and an output thread (coalesces chunks for at most 5 ms), the hook
listener, the idle watchdog. Shared state, with the lock order
*session entry → clients → writer queue*:

| State | Owner | Operations |
|---|---|---|
| `sessions`: id → `SessionEntry` (meta, `next_sequence`, `SessionBuffer`) | `DaemonHost` | create, close, close_all, resize, output, exit, cap on exited sessions |
| `SessionBuffer`: spool file, frames in memory, checkpoint | session lock | `push_output`, `push_resize`, `accept_checkpoint`, `replay_entries*`, `enforce_spool_cap` |
| `ClientHandle` per connection and session: attached, attaching (held frames), unacknowledged characters, paused, last sent, last acknowledged | clients lock | attach, `complete_attach`, `push_output_to_attached`, `acknowledge_output`, `flush_buffered_output_locked`, detach |
| `ClientWriter`: control queue, output queue, closed | queue lock | `send_frame`, `send_attached`, `close`, writer thread |
| hook caches | own locks | `broadcast_hook`, `flush_hook_cache_to` |
| `daemon.json`, `last_idle_since` | file, lock | `write_daemon_info_exclusive`, watchdog, shutdown, `connect_or_spawn` |
| routing: `CircuitRegistry`, key pools | own locks | `acquire`, `record_success`, `record_failure`, `release`, `reset`, key selection |

### The terminal client (`F`)

`transport/PtyHostSocket.ts` owns one WebSocket: requests with timeouts, the
numbers received and committed per session, the sets of attached and closed
sessions, heartbeat, reconnection every second. `api/TerminalProcessManager.ts`
queues the frames of a session until a display has written them
(`frames`, `sequences`, `latestCommittedSequence`), and acknowledges in order.
`hooks/useTerminalDisplay.ts` writes frames to xterm in animation frames and
commits from the write callback. `api/sessionSnapshotPersistence.ts` uploads
checkpoints of the screen. `hooks/useWebDeviceBridge.ts` is a second kind of
client: it subscribes a session through a socket of its own and publishes every
frame to the Web relay.

### How they interact

    PTY → output thread → SessionEntry ──┬─ ClientWriter queue → WebSocket → PtyHostSocket
                                         │                                       │
          SessionBuffer (replay) ────────┘                        TerminalProcessManager
             ▲        ▲                                                         │ write
             │        └── checkpoint ◄──── snapshot timer ◄──────────────── xterm screen
             └── ack / attach(after) ◄── commit, reconnect ◄────────────────────┘

### Local routing (`D/circuit.rs`, `D/route_http.rs`, `D/route_http/forwarding.rs`)

With routing taken over, the AI tools send their requests to a listener in the
daemon. `forward_request` loads the failover queue with the current provider in
front and walks through it; a request is a task on one of the listener threads,
and all of them share one `RouteState`:

| State | Owner | Operations |
|---|---|---|
| `CircuitRegistry`: provider → status, counters, `probe_in_flight` | own lock | `acquire`, `record_success`, `record_failure`, `release`, `reset` |
| `KeyPool`: cursor, cool-down of each API key | pools lock | `select_key_status`, `next_key`, `mark_cooldown` |
| locals of a request: permit, provider index, sends so far, keys and rectifier rules used | the task | the provider loop, the attempt loop, `timed_body_stream` |
| the current provider | database | `apply_hot_switch_for_active_homes`, awaited by a request or spawned by a stream |

A permit says only *whose* circuit it is and whether it is a probe. It has no
destructor: whatever path a request takes must hand it back.

### The life of a session (`D/server.rs`, `D/pty/manager.rs`, `F/store/terminalStore.ts`)

A session is three things that come and go apart: the entry in the daemon's table, the
PTY in the manager's table, and the process. A connection thread reserves the entry,
starts the process, registers the PTY and answers; a reader thread and an event thread
carry output and the final status through a channel of capacity one; a close kills the
process, waits for the reader and removes the entry. A connection that is lost leaves
its thread to finish what it has read, beside the thread of the connection that
replaces it. On the client `PtyHostSocket` keeps the sessions attached, the tombstones
of those closed, the requests waiting for an answer and the exits that have no listener
yet; `terminalStore` keeps the tabs and the status each shows.

| State | Owner | Operations |
|---|---|---|
| `sessions` entries: alive, exited, order of creation | `DaemonHost` | `reserve_session`, failed creation, `emit_daemon_status`, `enforce_total_buffer_cap`, close |
| `PtyManager.sessions`, process, reader thread | manager | `create_with_launch`, `close`, exit of the process |
| channel and batch of a session | event thread | receive, emit output, emit status |
| `attached`, tombstones, pending requests, pending exits, reconnect timer | `PtyHostSocket` | create, probe, attach, close, disconnect, reconnect |
| tabs, `sessionStatuses` | `terminalStore` | create, close, restore |

### The mirror of a terminal in a browser (`F/hooks/useWebDeviceBridge.ts`, `F/lib/webTerminalFrames.ts`, `apps/web`)

    daemon → socket of the bridge → pendingFrames → batches → publish queue
           → outbox of the device connection → relay server → page
           → TerminalStream (buffer) → WebTerminal (filter, reassemble) → render queue → xterm

Nothing on the way is stored. A page that loses its connection, or is told that the
device came back, asks the bridge to attach again after the last frame it has drawn,
and the daemon replays. Three numbers filter what arrives twice: chunk, frame and piece.

### Management operations from a browser (`apps/server`, `src-tauri/src/web_daemon.rs`, `src-tauri/src/web_device_outbox.rs`)

The server inserts an operation in its database and sends it to the device; the helper
process queues it; the page of the desktop takes it, asks the user, reports `accepted`
and `running`, executes it and reports the result. Reports are durable frames of the
outbox, kept until the server confirms them.

| State | Lives in | Lost with |
|---|---|---|
| status, `accepted_seen`, `running_seen` | the server's database | nothing |
| requests, frames and confirmations under way | the device connection | the connection |
| `OperationQueue` (pending, seen), `WebDeviceOutbox` | the helper's memory | the application |
| operations taken, the one being executed | the page's memory | a reload |

### Other parts

Hook reporting, notifications (a bounded queue with a de-duplicating cache), remote
handoff (`features/remote/cc_connect`), worktree conflict sessions, sync, history,
statistics, git, files, extensions, desktop pet, settings. `PROJECT.json` lists each of
them with what is, or is not, modelled.

### What is hard here

- *Interleaving*: output, acknowledgements, attach and flush of several clients
  on one session; a flush runs while the writer thread drains the same queue.
- *Flow control*: a client above the high watermark is skipped and is woken only
  by its own acknowledgements, so every character has to be accounted for.
- *Lost connections*: the client resumes from what it has committed, with frames
  of the old connection still unwritten; a replay can itself be interrupted.
- *Checkpoints*: a snapshot of one client's screen replaces retained output that
  other clients may still need.
- *Bounds*: retention and queues overflow; what happens then must be a visible
  reset, not a silently truncated stream.
- *Circuits*: requests learn the state of a circuit when they are admitted and
  settle it much later, when others have opened, probed or reset it; the client
  may be gone by then.
- *Short lives*: a process can end before its creation is answered, while an attach is
  being completed, or while a close waits for its threads.
- *Several hops with their own reconnection*: page, device and daemon link recover
  independently, and each decides by numbers of its own what it has already seen.
- *At-least-once delivery*: frames and requests are repeated after a lost connection and
  must have their effect once.
- *Process life cycle*: discovery file, idle exit and shutdown race with new
  clients; ids of closed sessions can be used again.

`hazards` in `PROJECT.json` lists these at the lines where they bite, each with
the properties that watch it, or the reason why none does yet.

### What makes each component correct

| Component | Correct when |
|---|---|
| Output stream | each client is sent every chunk once, in order, or a reset; windows are never lost; a quiet system converges |
| Frontend client | the screen is a run of the output; what it commits is what it shows; it always reconnects |
| Session life cycle | no process runs unlisted; an exit is reported after all output and reaches the tab; a close ends the process; a tab tells the truth about its creation |
| Web mirror | a page draws every frame once and in order and ends on the last one; only what was queued is acknowledged |
| Management operations | carried out once, ended with the result the page reported first, never forgotten |
| Daemon life cycle | at most one daemon owns the record; no client or session is accepted by a process that exits |
| Hook relay | a report reaches some client or stays cached, in order |
| Routing | one probe at a time for a broken provider, every permit returned, a recovered provider is used again |

## 2. Modules

| Module | Contents |
|---|---|
| `PtyStream` | the output stream of one session: daemon, queues, clients |
| `StreamReader` | abstract specification: an append-only log and readers whose view is a prefix of it, which catch up |
| `MCPtyStream` | instances for TLC |
| `PtyStreamProofs` | theorems about `PtyStream` |
| `PtyDeliveryProofs` | theorems about `PtyStream` that follow frames through the queues: window accounting, what a terminal shows |
| `RouteFailover` | requests, circuits, key pools and hot switches of the local routing |
| `MCRouteFailover` | instances for TLC |
| `RouteFailoverProofs` | theorems about `RouteFailover` |
| `SessionLifecycle` | entry, PTY and process of sessions, their threads, the client's requests and tabs |
| `MCSessionLifecycle` | instances for TLC |
| `SessionLifecycleProofs` | theorems about `SessionLifecycle` |
| `DaemonLifecycle` | the application and its daemon processes: record, start, upgrade, idle exit, shutdown, kept hook reports |
| `MCDaemonLifecycle` | instances for TLC |
| `DaemonLifecycleProofs` | theorems about `DaemonLifecycle` |
| `WebMirror` | the stream of a terminal from the daemon to a page of a browser |
| `MCWebMirror` | instances for TLC |
| `WebMirrorProofs` | theorems about `WebMirror` |
| `WebOperations` | management operations between server, helper and page |
| `MCWebOperations` | instances for TLC |
| `WebOperationsProofs` | theorems about `WebOperations`: carried out once, completion kept |
| `WebResultProofs` | theorems about `WebOperations` that need the order of the outbox: the first result wins |

Each module is a composition of its own: it has the daemon's side, the channels and the
client's side of one protocol. They meet where one abstracts what another details.
`SessionLifecycle` counts output that `PtyStream` follows to the screen; `WebMirror`
answers an attach at once, as `PtyStream` shows it may be seen, and has no flow control;
`WebOperations` and `WebMirror` share the device connection but neither its frames nor
its queues. `DaemonLifecycle` takes a session or a running route as the work that keeps a daemon up.
Routing shares no state with the rest.

### PtyStream: state and actions

`SessionEntry` and `SessionBuffer` are `nextSeq`, `retained` (the numbers of the
spooled and buffered frames) and `checkpoint`; `outputs` is a history variable.
`ClientHandle` is `attached`, `attaching` with `held`, `unack`, `paused`,
`lastSent`, `lastAcked`. `out` is the writer's output queue, `reply` the attach
answer between `handle_frame` and `send_frame`, `flushing` the connection thread
that holds the session lock in the middle of a flush. On the client, `received`
and `committed` are the numbers of `PtyHostSocket`, `rendered` that of
`TerminalProcessManager`, `inbox` the frames not yet written, `screen` what the
terminal shows, `snapshot` the screen serialized for a checkpoint that has no number
yet. `late`, in a checkpoint and its upload, is history: what was written in between.

| Action | Code |
|---|---|
| `Emit` | `emit_daemon_output` → `push_output`, `push_output_to_attached` |
| `Resize` | the Resize request → `push_resize` |
| `HandleAttach`, `AttachReply`, `CompleteAttach` | the Attach request, `send_attached`, `complete_attach` |
| `HandleAck`, `FlushSend`, `FlushEnd` | `acknowledge_output`, `flush_buffered_output_locked` (one action per frame, since the writer thread runs meanwhile) |
| `HandleCheckpoint` | `handle_binary_frame` → `accept_checkpoint` |
| `Deliver` | the writer thread and `handleBinaryFrame` → `enqueueOutputFrame` |
| `Commit` | `flushPendingWrites`, the write callback → `drainCommittedOutput` → `acknowledge` |
| `Serialize`, `SendCheckpoint` | `flushSnapshotPass`: the callback of `serializeTerminalAfterWrite`, and what follows the await on it, `checkpoint` |
| `Drop`, `NoticeClose`, `Connect`, `SendAttach` | loss of the connection, `handleDisconnect`, `reconnectAttachedSessions` |

A chunk of output is its sequence number and a screen the sequence of the
numbers written since it was last cleared, so "nothing missing, repeated or
reordered" can be said directly.

### PtyStream: abstractions

- Every output frame costs one unit of the window and of the send queue; limits
  are counts of frames. Retention is one set in frames: where memory ends and
  the spool begins, and failing spool writes, are left out.
- A message's time on the wire is part of the time it spends in a queue. The
  daemon's clean-up of a connection it has not noticed to be dead is part of
  `Drop`: the old handle of a client never coexists with its new one.
- Frames are written and committed one at a time, in order, as xterm's callbacks
  are. One checkpoint is in flight; its 15-second timeout is not modelled.
- Between `Serialize` and `SendCheckpoint` only xterm's loop runs on the client: one
  write of live frames or one replayed frame, queued behind the empty write, commits
  there (`LoopWrites`). Every other handler of the page waits for the continuation of
  the await (`Idle`), which is a microtask. The daemon and other clients go on.
- While a flush holds the session and client locks (`flushing`), every step that
  needs one of them waits. Between the two sections of `acknowledge_output` that
  take the client lock another client may attach or leave; such a step touches
  no variable of the flushing client, so the model takes the two as one.
- The observer publishes and acknowledges frame by frame; it does not batch or
  restart.
- Close, create, detach and exit frames are not part of this module.

### PtyStream: bounds

`MaxSeq` bounds the output and `MaxDrops` the connections lost for outside reasons;
connections the daemon closes are not bounded. With a window of two frames, three chunks
are enough to fill a window, skip a chunk and reopen the window, and to hold more for an
attach than a queue of two takes (`PtyWindow`, `PtyForeignCheckpoint`); with four,
chunks are evicted (`PtyRecovery`) and a flush fills the window again with output left
over, with five that happens after other output (`PtyTerminal`). Four chunks and low
watermark 1 with two clients and checkpoints (`PtyWindow` with `MaxSeq` = 4) violate
nothing either, in 3.5 million states. `PtyRecovery` retains one frame: an eviction gap
appears with the second chunk beyond a full window. `CHECK_DEADLOCK FALSE` in every
configuration: the output is bounded, so a system that has shown everything stops.

### PtyStream: fairness

`FairSpec` asks weak fairness of the daemon's connection threads, and strong fairness
of the handlers of each client together, fed by the writer thread, the render loop and
the reconnect timer. Strong, because they wait while a serialized screen is being
numbered (`SendCheckpoint`, itself weakly fair), which takes a microtask every ten
seconds (`SNAPSHOT_THROTTLE_MS`): the model has no time and would let the timer fire
whenever a handler could run. Connection and writer threads are plain OS threads that
loop until their socket closes (`D/server.rs:1251`, `D/server/client_transport.rs:226`),
the client's handlers are event-loop callbacks, and the reconnect timer is re-armed after every failure
(`PtyHostSocket.ts:1022`). No fairness is asked of output, resizes, the snapshot
timer or the loss of connections.

### RouteFailover: state and actions

`circuit` holds the entries of `CircuitRegistry`, `cooling` the keys a pool has put
aside, `current` the provider the database marks as current, `switches` the hot
switches that streams have spawned. `req` holds the locals of each request, with
its phase: choosing a provider, admitted by its circuit, sending, reading a body,
switching, streaming. `up` is the environment: the providers that have recovered
and answer everything from then on. A provider that is not up may do anything
at every send: refuse the key, fail, answer an error, spoil its body, or serve.

| Action | Code |
|---|---|
| `Arrive` | `forward_request` up to the provider loop: the queue, current provider first |
| `Acquire`, `SkipCircuit` | `circuits.acquire` |
| `SkipProvider`, `SelectKey` | the endpoint, `select_key_status`, the media preflight, `reserve_provider_attempt` |
| `ProviderFails`, `Rectify`, `Respond` | the attempt loop and its outcomes |
| `KeyRefused`, `NextKey`, `KeysExhausted` | `mark_cooldown`, `next_key` and what follows: two critical sections of the pool, between which other requests put keys aside |
| `GiveUp` | the queue or the budget is exhausted |
| `BodyFails`, `BodyRead`, `BeginSwitch`, `EndSwitch` | the non-streaming answer and its hot switch |
| `StreamSuccess`, `StreamFailure`, `StreamEnd` | `timed_body_stream`, `finish_stream_circuit` |
| `ApplySwitch` | the hot switch a stream spawned |
| `Cancel` | the client disconnects, or the listener is rebound: the future is dropped, and `TimedBodyState` releases its permit |
| `Reset`, `CoolDown`, `KeyReturns` | `routing_reset_circuit`; elapsed time |

The operators on entries (`AfterAcquire`, `AfterSuccess`, `AfterFailure`,
`AfterRelease`) are the methods of the registry as functions; each runs under one
lock, so an action applies one of them in one step.

### RouteFailover: abstractions

- Failover is enabled; queue, policy and keys do not change while requests are in
  flight. Without failover a request holds no permit and tries one provider.
- An open circuit keeps no request and failure counts: the code reads them only in
  a closed circuit, which it enters with zero counts.
- The round-robin cursor of a pool is left out: any key that is ready may be next,
  which includes the one the cursor gives.
- The rectifier rules are a counter: each may retry a request once, and the media
  rule may be spent before the first send to a provider.
- A hot switch is applied or fails as a whole. Several pending switches to the same
  provider count as one.
- The rejection of an invalid model mapping in the middle of the attempt loop is
  left out: the mapping is parsed when the queue is loaded.
- Usage logging, headers and bodies are left out; a Bedrock or media rewrite
  changes a body only.

### RouteFailover: bounds

One provider with two keys and two requests is enough for a late answer, a second
probe or a lost permit: circuits do not interact, a request holds one permit, and
`CancelPhases` and `MaxCancels` let a client leave its stream. Falling back from
one provider to the other, in both orders, needs two providers and one request at
a time, and there the rectifier retries are enabled too. Two providers under two
requests have millions of states and are not run: the theorems cover that case,
and service under it rests on `RouteFallback` for each request and `RouteProbes`
for the circuit they share. `CountMax` stands for `u32::MAX`: the counters saturate at the failure
threshold, and the error rate is 60 percent, so that in `RouteProbes`, with two
failures to the threshold, either limit can be the one that opens the circuit.
`MaxCancels` and `MaxResets` bound the disturbances. `CHECK_DEADLOCK FALSE`: in an
instance without requests nothing need happen.

### RouteFailover: fairness

`FairSpec` asks weak fairness of each request (the runtime polls it, and every
send, body and stream has a timeout: `forwarding.rs:176`, `:416`, `:812`,
`route_http.rs:1538`), of time (`CoolDown`, `KeyReturns`) and of spawned switches.
It also asks that clients keep sending requests (`Arrive`): a circuit is only ever
probed by traffic, so nothing recovers without it. No fairness is asked of a
provider's recovery, of cancellations or of resets.

`Serves` has a hypothesis the code needs. A provider whose answer begins and then
breaks is not failed over: the answer belongs to the client once its head has
arrived (`forwarding.rs:708-727`), and the next request meets the circuit. A
provider that for ever begins answers and breaks them can spoil every request
between two of its cool-downs, so service is promised only when that ends. The
instance also gives a request more sends than the provider that is down can
spend: with as many keys as `max_retries + 1`, all refused, it would use up the
budget of each request that meets it with its keys ready.

### SessionLifecycle: state and actions

`entry`, `born` and `kept` are the daemon's table, `pty` the manager's, `proc`, `made`
and `unread` the process; `reader`, `chan` and `sink` the two threads of a session and
their channel. `thread` and `inbox` belong to a connection, as do `control` and
`output`, the two queues of its writer; `conn` is the client's connection, and the other
variables of the client have the names of the fields they stand for.

| Action | Code |
|---|---|
| `Write`, `Exit` | the process |
| `Read` | the reader thread of `create_with_launch`: chunks, then the status |
| `TakeEvent`, `EmitOutput`, `EmitStatus` | the session's event thread: coalescing, `emit_daemon_output`, `emit_daemon_status` with the eviction of `enforce_total_buffer_cap` |
| `Reserve`, `Spawn`, `Register` | the steps of `handle_create`, between which other connections act |
| `Attach`, `CompleteAttach` | the Attach request; an exit that falls between them is held |
| `Kill`, `FinishClose` | `PtyManager::close` up to the join of the reader, and what follows it |
| `Leave` | the end of a connection thread |
| `OpenTab`, `CloseTab`, `Restore` | `createSession`, `closeSession`, the restoring of saved tabs |
| `Connect`, `Send`, `Reconnect`, `DeliverControl`, `DeliverOutput` | `PtyHostSocket` |
| `Drop`, `Restart`, `Crash` | a lost connection, a restart of the application, the death of the daemon |

Abstractions: the lookup and the registration of an attach are one step. The sizes of the
batches the event thread emits are left open. That part of what was sent arrives after a
loss (`Severed`) also stands for the thread that stops because it cannot answer. A
reattach that is pending twice is one. Failed attempts to connect, `close_all`,
reconciliation, prewarmed terminals, the legacy transport, attaches of background tasks
and the bridge's own socket are left out; killing a process always ends it. Output is
counted only: windows, replay and the spool belong to `PtyStream`.

Bounds: one session is enough for its own races (two chunks of output, two connections,
one restart, one crash), and its two chunks exceed the cap of the buffers. Several
sessions share only the limits: an instance with three sessions, a table of two and no
faults (1.2 million states) violates no safety property either, but takes too long to be a
run beside the others.

Fairness: threads run, the event loop of the client runs, and the reconnect timer fires.
Processes need not write or end, users need not act. No action needs strong fairness:
each channel has one consumer.

### WebMirror: state and actions

| Action | Code |
|---|---|
| `Produce`, `Evict` | the session in the daemon, as `PtyStream` has it |
| `TakeAttach`, `TakeDetach`, `Refused` | `drainTerminalCommands` → `attachWebTerminal`, `disposeBridge` |
| `Collect`, `Flush` | the output listener, `flush` → `batchWebTerminalFrames` |
| `Admit`, `PublishDone`, `GiveUp` | `publishWebTerminalBatch`: admission to the outbox, its answer, the end of the retries |
| `LinkDrop`, `Relink` | the bridge's own socket |
| `Send` | `flush_outbound`, the server's broadcast, `TerminalStream.publish`, the subscription of `WebTerminal` |
| `Mount`, `Unpack`, `Read`, `Draw` | `WebTerminal`: subscription, `flush`, `drain` |
| `Ready`, `Open`, `Leave`, `BrowserDrop` | the browser's socket and its terminal tabs |
| `DeviceDrop`, `DeviceUp`, `Reload` | loss and return of the device connection, reload of the desktop's window |

Abstractions: a frame is its sequence number and is cut into one or two pieces; a batch
counts pieces instead of KiB; a send queue counts chunks. The relay server is part of
`Send`: it stores nothing. `flush` of a page is one synchronous loop, so that nothing
else is interleaved with it (`Idle`). Input, sizes, colours and the desktop's own
display are left out.

Bounds: `MaxFaults` bounds the faults altogether and `Limits` each kind. Two frames, the
second of which is cut, a batch of two pieces, an outbox of one chunk and a page buffer
of one let every filter act; one fault of any of nine kinds is put at every point.

Fairness: `Progress`, what the program does by itself, does not stop. That is weak
fairness of one action and leaves the order to TLC; the liveness property asks only for
what any order brings.

### WebOperations: state and actions

`status` and `stages` are the server's record, with the error code of a completion as
part of the status; `queue` is the helper's copy of a pending operation and `known` what
it has seen; `outbox` is a set of frames, numbered in the order in which they joined.
`executed`, `first` and `lost` are history.

| Action | Code |
|---|---|
| `Create`, `Dispatch` | `create_operation`: insertion, then `send_device` or `waiting_device` |
| `Resend` | the hello of a device: everything that has not ended |
| `HandleUpdate` | `handle_operation_update` → `update_operation_status` |
| `Connect`, `SendNext`, `TakeRequest`, `TakeAck`, `TakeError` | the connection thread of the helper: `reconnect`, `flush_outbound`, `push`, `acknowledge_operation` with `mark_status`, the Error frame |
| `Take`, `Begin` | `drainOperations`, `executeOperation` up to its decision |
| `Accept`, `Run`, `Execute`, `Complete` | the reports and the execution, each with the refusal of a full outbox |
| `Lose`, `Reload`, `Restart` | the faults |

Abstractions: management operations only, in the variant with a helper process; what an
operation does is its result. Operations are independent of each other but for the page,
which works on one at a time. The sending and the receiving half of the connection
thread interleave freely, which is more than its loop does. Frames that the server's old
connection task still holds when the device has reconnected are not modelled, nor are
`canceled` and `timed_out` (nothing sets them), the two limits of `OperationQueue`, and
the page's `online` gate. `Restart` takes seconds and does not fall between the two
statements of `create_operation`.

Bounds: one operation, one loss, one reload, one restart and two refused reports, with
`Attempts` = 2 standing for 30. Two operations with one loss and one reload (10 million
states) violate nothing either; that instance takes too long to be a run.

Fairness: the server's tasks and the helper's connection thread run; the helper tries to
connect for ever (`RECONNECT_DELAY`), the page drains once a second, and a user answers
the confirmation of an operation, which is modal. Losses, reloads, restarts and refusals
are not fair.

### DaemonLifecycle: state and actions

A process is `starting` until it has created its record, `created` until the record is
written, then `serving`; `leaving` lies between the removal of the record and
`process::exit`. The identities of dead processes are used again, unless the record still
names them. `record` is `daemon.json`: whose it is, and whether its content is there.
`clients` holds the launches of the application whose connection is in the table of
clients, `work` is a live session or a running route, `by` the launch that started a
daemon and thereby its version. `app` is where the application is in `connect_or_spawn`,
an upgrade or its quit; `watch` the watchdog between its two looks; `deciding` the reports
that have found no client and are not cached yet.

| Action | Code |
|---|---|
| `Launch`, `ReadRecord`, `Connect`, `ConnectFails`, `RemoveStale` | `setup`, `connect_or_spawn` up to its client, `remove_daemon_info` |
| `ConnectTimesOut` | a live daemon that does not answer within the timeouts of `DaemonClient::connect` |
| `KeepClient`, `ListOld`, `Ask`, `AskFails`, `Wait` | the version check, `shutdown_if_idle`, the 500 ms after it |
| `Spawn`, `Poll`, `GiveUp` | `spawn_and_connect` |
| `StartWork`, `EndWork` | sessions and routes come and go |
| `UpgradeIfIdle` | `upgrade_daemon_if_idle`, which ends in another `connect_or_spawn` |
| `Quit`, `QuitShutdown`, `AppEnds` | `cleanupTerminalProcessesForExit`, `pty_daemon_shutdown_if_idle`; the end in the background, or a crash |
| `CreateRecord`, `WriteRecord` | `write_daemon_info_exclusive`: `create_new`, then `write_all` |
| `Disconnect`, `WatchClients`, `WatchWork` | the end of a connection, the two looks of `spawn_idle_watchdog` |
| `EndShutdown`, `Exit`, `Crash` | the thread of an accepted Shutdown, `process::exit`, the death of a process |
| `Report`, `CacheReport`, `PageList` | `broadcast_hook` in its two halves, `flush_hook_cache_to` on the page's periodic list |

Abstractions: one application runs at a time (`tauri_plugin_single_instance`). The watchdog
counts checks (`IdleChecks`) instead of ten minutes. A record that is removed while its
daemon writes it is gone for good. Time is untimed except where the code relies on it, and
each such place says so: a daemon has created its record, or given up, before the next
launch and before an upgrade (`Settled`); 500 ms are longer than the 200 ms of Shutdown and
than the time between the watchdog's two looks (`Wait`); twenty polls outlast the start of
a daemon (`GiveUp`); the watchdog's first look comes after them (`WatchClients`).

Bounds: two launches, the second of a newer version, so that it meets whatever the first
left behind: no record, an unfinished one, a stale one, a daemon that works, is idle, is
ending or has just died. Two crashes and one late handshake fall anywhere. Three process
identities are never all in use when a daemon is to be started. Two checks end an idle
daemon, and two reports fill a cache of one. Three launches with one report and one crash
(190 thousand states) violate nothing either.

Fairness: the application gets through `connect_or_spawn`, the page lists every three
seconds, a daemon gets through its start and its end, its watchdog looks again and again, a
connection that has ended is noticed, and a report on its way to the cache arrives. What the
user and the terminals do, crashes and late answers are not fair.

## 3. Runs

| Run | Instance | States | Shows |
|---|---|---|---|
| `PtyTerminal` | 1 terminal, no checkpoints, 1 loss, 5 chunks, queue 4, retention 5, low watermark 1 | 62 thousand | the inductive invariant while a window fills again in a flush, contiguous screen, refinement of `StreamReader` with its liveness |
| `PtyWindow` | terminal + observer, checkpoints, 3 chunks, queue 2, low watermark 1 | 381 thousand | accounting and wake-up of two clients, the inductive invariant, what checkpoint + retained frames hold while nothing is lost |
| `PtyRecovery` | 1 terminal, checkpoints, retention 1, 1 loss | 295 thousand | eviction never skips a chunk, everything converges |
| `PtyForeignCheckpoint` | terminal + observer, checkpoints | – | **violated**: a foreign checkpoint truncates a paused client's stream |
| `RouteProbes` | 1 provider, 2 keys, 2 requests, 1 client that leaves its stream | 153 thousand | one probe, always owned; late answers decide nothing; closed below the threshold |
| `RouteFallback` | 2 providers, 1 request at a time, 3 sends, 1 rectifier rule, thresholds of 1, 1 reset | 137 thousand | every request ends; a recovered provider serves whatever the current one is |
| `RouteCancel` | 1 provider, 2 requests, clients may leave at any time | – | **violated**: a probe without owner |
| `SessionFaults` | 1 session, 2 chunks, 2 connections, 1 restart, 1 crash | 23 thousand | exit after output and up to the tab, no unlisted process, truthful creation, closes and deaths complete |
| `SessionShortLived` | 1 session, no fault | – | **violated**: the exit of a short-lived process is overwritten with `running` |
| `WebMirrorLoss` | 1 page, 2 frames, one cut, queues of 1, 1 fault of any kind | 669 thousand | drawn once and in order, no hole without loss, truthful acknowledgement, the page ends on the last frame |
| `DaemonLifecycle` | 2 launches, 2 versions, 2 crashes, 1 late handshake, 2 reports | 67 thousand | the record names the daemon that serves; every launch comes by a daemon; idle daemons end; kept reports are sent on |
| `WebOperations` | 1 operation, each fault once, 2 refusals | 529 thousand | carried out once, first result wins, completion kept, every operation ends |

The violated properties are what the repository's own contract
(`.trellis/spec/backend/pty-daemon-contracts.md`) and the documents of two tasks
(`08-08-ccs-routing-migration`, `09-02-fix-codex-output-stall`) promise; `findings`
quotes them. The passing runs are chosen around them and around the limits of the next
section: `RouteProbes` lets clients leave only in their stream and resets nothing;
`PtyTerminal` loses one connection and has no checkpoints (`ScreenContiguous` speaks of
terminals with `drops` of at most 1, a history variable that counts the connections a
client has lost); `PtyWindow` does not check
`UnpausedIsCurrent`, which two clients with checkpoints break, but `StreamInv`, whose
part `SentOrSkipped` says that nothing else breaks it, and its retention
holds all output, so that `RebuildComplete` is about checkpoints only; `WebMirrorLoss`
demands convergence after one fault, a reload and an overflow of the page's buffer
excepted; `WebOperations` does not refuse `running`; `AppServed` excepts a launch that meets
an unfinished record or loses its daemon, `RecordNamesServer` what follows a late
handshake. `CHECK_DEADLOCK FALSE` in every
configuration: output, operations and faults are bounded, so a system that has done its
work stops.

Every property of a passing run has a mutant in `PROJECT.json`: a variant of one
operator, kept in the module next to the operator it replaces, under which TLC
finds that property violated.

## 4. Known limits

Behaviours met while modelling, which the passing runs exclude by the bounds described
above. Where constants are named, they are those under which TLC shows the behaviour;
the others were read in the code.

*Output stream.*
- A checkpoint can be replayed without a reset: a client that resumes after frames it
  has, below the checkpoint, is sent the checkpoint's screen on top of what it shows
  (`D/server.rs:1557`; `MaxDrops` with checkpoints and two clients).
- After two lost connections a terminal can miss output. The answer to an attach after
  number 0 clears the screen and replays; frames from before it are still acknowledged,
  `TerminalProcessManager` sets its committed number back with the reset
  (`TerminalProcessManager.ts:310`), `PtyHostSocket` never does. If the second connection
  is lost before the replay is complete, `reconnectAttachedSessions` resumes after that
  number (`PtyHostSocket.ts:1013`), behind output that the reset has cleared: the screen
  shows frames 1 and 3. The contract has the replay filtered by what xterm has committed
  (`.trellis/spec/backend/pty-daemon-contracts.md:120`) and speaks of a restored stream
  without loss (line 144). `PtyTerminal` with `MaxDrops` = 2 violates `ScreenContiguous`
  without its premise, and `ImplementsReader`, in this way.
- A checkpoint can be numbered past its body, with one terminal and no loss. The screen
  is serialized in the callback of an empty write (`sessionSnapshotPersistence.ts:52`); the
  number is read when the await on it returns (`:185`, `TerminalProcessManager.ts:187`). An
  animation frame can queue live output behind the empty write, and xterm runs the
  callback of that write (`useTerminalDisplay.ts:452`) in the same loop, so that the
  number covers a chunk the body lacks. The daemon drops its frame
  (`D/server/replay.rs:173`), and a client that attaches then is not shown it. The chunks
  concerned are the history `late`; `RebuildComplete` says that no others are missing.
  With `Sorted(outputs)` instead of `Sorted(outputs \ checkpoint.late)` TLC finds it
  violated in `PtyWindow`, after eight states. Later checkpoints of the terminal, whose
  screen has the chunk, repair the loss.
- Between the arrival of a reset and the clearing of the screen, a checkpoint of the old
  screen is labelled 0 (`TerminalProcessManager.ts:187`, `:310`). The daemon takes it
  (`D/server/replay.rs:157`), and what it holds then no longer rebuilds the output:
  `PtyWindow` with `MaxDrops` = 1 violates `RebuildComplete` without its premise.
- With two terminals of one session, the checkpoint of one may cover output that the
  other has not been sent; the flush then passes over it (`D/server.rs:773`), and
  the checkpoint that the other uploads later, with a higher number, lacks it. `PtyWindow`
  with two terminals violates `RebuildComplete` in this way; the theorem about it has the
  premise `OneTerminal`.
- `oldest_sequence` answers the checkpoint's number also when frames after it have been
  evicted (`D/server/replay.rs:143`).

*Routing.* A reset of a circuit while a probe is in flight lets a second one in, and the
outcome of the first is applied to the circuit's new life (`D/circuit.rs:165`;
`MaxResets`). A probe that is never settled has no timeout (`RouteCancel`).

*Web mirror.*
- After a reload of the desktop's window chunk numbers start at 1 again: a page that
  stayed connected skips everything up to the number it had reached
  (`WebTerminal.tsx:331`, `useWebDeviceBridge.ts:144`).
- A live frame that overtakes the replay a page asked for makes the page drop the
  replayed frames it had missed: it ends on the last frame, with a hole before it.
- With two faults a full replay that is cut off resumes with its tail only. In particular
  the bridge that loses its link twice: the frames queued before the first loss raise its
  committed number past what the replay, which clears, has delivered; the second time it
  resumes after that number without a reset (`useWebDeviceBridge.ts:141-160`,
  `PtyHostSocket.ts:460-463`; `Limits` of `link` = 2).
- A second page, opened while its attach still waits, draws the second half of a frame
  that was cut for the first one, until its own replay arrives
  (`WebTerminal.tsx:326-335`; two pages). `UndisturbedContiguous` speaks of one attach
  and one lost link for these two reasons.
- The detach of one page disposes of the bridge for all pages of the session
  (`useWebDeviceBridge.ts:213-217`).
- Chunks beyond `MAX_BUFFERED_CHUNKS` that arrive before `WebTerminal` has mounted are
  dropped and nothing attaches again (`terminalStream.ts:46`).
- When the bridge's socket cannot connect for a first attach, the commands taken from the
  queue together with it are dropped (`useWebDeviceBridge.ts:291-303`). A status report
  that a full outbox refuses does the same to the commands behind it; the model has no
  status reports, and `MirrorCurrent` does not cover this.
- The contract gives the command queue 256 entries
  (`.trellis/spec/backend/web-service-contracts.md:336`), the code 512
  (`MAX_TERMINAL_COMMANDS`).

*Session life cycle.*
- A tab that a probe opened while its creation was still under way on a lost connection,
  and that is closed before the PTY is registered, leaves a process that no entry lists
  (the exception in `NoOrphanProcess`).
- A create whose failure follows a lost connection may leave a session without a tab; a
  close that is lost with its connection is not sent again.
- An exit frame may overtake the `Attached` answer: it is in the control queue.

*Life of the daemon process.*
- Shutdown answers, waits 200 ms and exits without looking again (`D/server.rs:1779`), and
  the watchdog exits after separate looks at clients and work: a client that connects or a
  session that is created in between dies with the process. A comment at
  `src-tauri/src/features/terminal/commands.rs:280` says that the daemon guards the boundary
  against this race. A desktop that is started again at once can connect to a daemon that
  is ending, and nothing connects again.
- The record is created and then written, where
  `.trellis/spec/backend/pty-daemon-contracts.md:210` calls the writing atomic. A launch that
  reads it in between, or after a daemon died in between, fails (`broken`); in the latter
  case every later launch does, although line 242 of the contract has a dead daemon's file
  removed.
- A live daemon that does not answer its handshake in time loses its record, and two
  daemons serve, which line 233 of the contract forbids (`MaxTimeouts`; the reason for the
  premise of `RecordNamesServer`).
- `is_pid_alive` takes a process that was given the number of a dead daemon for it; the
  handshake then fails and the start goes on (`PidAlive`).
- The version check of `connect_or_spawn` lists sessions before a page listens, and with
  that sends the kept reports to nobody, which the comment at `D/server.rs:1374` means to
  avoid. Live reports between connection and listening are lost in the same way, and later
  ones overtake the kept ones.

*Management operations.*
- A confirmation of `accepted` or `running` that arrives after the page has reported
  completion sets the helper's copy back (`web_daemon.rs:848`), and the page then reports
  a finished operation as `operation_interrupted`, a code that `docs/功能清单.md:793`
  describes as that of an execution that was broken off. The server refuses the second
  result, so that the browser still sees the first (`ResultTruthful`), but it answers
  with an Error, which ends the device connection. If the report joins the outbox after
  the confirmation of the completion was handled, nothing ever removes it: every later
  connection ends with the same error, until the application restarts.
- The same happens when the outbox refuses `running` after `accepted` was reported: the
  operation is reported as rejected, for which there is no transition. `Refusable` of the
  run leaves `running` out, and `ResultAlways` assumes the same; with it TLC finds
  `ResultTruthful` violated. The other theorems allow every refusal.
- A restart of the desktop before `accepted` has reached the server lets the operation be
  carried out again (`lost` in `ExecutedOnce`).
- A completion that was refused `MAX_COMPLETION_REPORT_ATTEMPTS` times is given up; the
  operation is later reported as interrupted although it was carried out.
- When the 128 entries of the operation queue overflow, the connection ends before the
  confirmations behind the request are read, where `docs/功能清单.md:793` speaks of a full
  queue that goes on consuming them.
- `update_operation_status` reads, decides and writes without a transaction
  (`apps/server/src/storage.rs:832`); the model takes it as one step. `waiting_device`
  can overwrite `accepted` only if the device reconnects between a failed send and the
  next statement.
- A call of the page whose answer is lost between page and helper is not modelled.

## 5. Proofs

`PtyStreamProofs` proves, for any set of clients and any limits that satisfy
`ClientsAssumption` and `LimitsAssumption` (finite set of clients, low watermark
below the high one, retention of at least one frame):

- `TypeCorrect`: `Spec => []TypeOK`. The step case has a lemma per action; the
  helpers that build replies (`Sorted`, `ReplayEntries`) get lemmas of their own,
  for which `Sorted` ranks elements instead of recursing.
- `NoLostWakeup`: `Spec => []PausedOwesMore`, inductive by itself with the types.
- `StreamInvariant`: `Spec => []StreamInv`. That an unpaused client has been sent all
  but what a newer checkpoint covers is not inductive: a flush sends one retained frame after another and must know that
  nothing between them was lost. `StreamInv` adds that output is covered by the
  checkpoint, retained, or older than all that is retained (`OutputKept`), that
  the retained frames continue the stream of the client being flushed
  (`FlushContinues`: this is what the gap check establishes and the session lock
  preserves), and that an attaching client has had every chunk held for it, even
  when paused (`SentOrSkipped`).
- `CurrentWithoutCheckpoints`: if the checkpoint feature is off, then
  `Spec => []UnpausedIsCurrent`, from the former; so the truncated stream of
  `PtyForeignCheckpoint` is the work of checkpoints alone.

`RouteFailoverProofs` proves, for any queue, keys, requests and every policy that
`validate_failover_config` accepts (`QueueAssumption`, `PolicyAssumption`):

- `TypeCorrect`: `Spec => []TypeOK`, with what a request holds in each phase
  (`Consistent`); the bound on sends is part of it.
- A lemma, `StepKinds`, reads every action of a request as one of four kinds: it
  settles its permit, obtains one, keeps what it has, or is dropped with it. The
  theorems below are inductions over these kinds and the steps of time and user.
- `OneProbe`: without resets, `Spec => []SingleProbe`. Not inductive alone: it
  needs that a request with a probe permit has its circuit marked, and that only
  half-open circuits are marked (`ProbesMarked`), which is what a reset breaks.
- `OnlyProbesDecide`: without resets, `Spec => ProbesDecide`, from the same
  invariant.
- `ProbeOwned`: if clients leave only once their stream has begun,
  `Spec => []ProbeHasOwner`, with any number of resets.
- `BelowThresholdAlways`: `Spec => []ClosedBelowThreshold`. It rests on the
  two saturating counters having the same limit, and on the failure threshold of
  streams, 1, being the smallest the configuration accepts.

`WebOperationsProofs` proves, for any set of operations, any number of faults and any
reports that may be refused:

- `OnceAlways`: `Spec => []ExecutedOnce`. Alone it is not inductive: an operation could
  come back to the page as a new one. `OnceInv` says that an operation that has used up
  its executions is early nowhere any more, neither in the helper's copy nor in the
  page's snapshot, and either known to the helper or past early at the server. That
  rests on what relates the parties: whatever is under way has been seen (`KnownInv`), a
  request that has not been seen still carries the server's status (`RequestInv`), the
  server confirms nothing early (`ServerInv`), and the page works on one operation that
  is not in the rest of its snapshot (`PageInv`).
- `KeptAlways`: `Spec => []CompletionKept`; confirmations let go of a completion only
  when they are final, and then the operation has ended (`ServerInv`).
- `EndedForGood`: `Spec => [][Ended(o) => status'[o] = status[o]]_vars` for every
  operation.

`Inv`, the conjunction of all these, has one lemma per conjunct with one step per action;
`RecordEffect`, `ReportEffect`, `HandleUpdateEffect` and `PageCalls` say once what the
shared operators do.

`WebMirrorProofs` proves, for any set of pages, any bounds and any of the faults:

- `TypeCorrect`: `Spec => []TypeOK`. The types are split by party (daemon, bridge, pages,
  device connection), so that a step opens only what it changes; `TypeInv` adds that
  nothing is buffered for a terminal that is not open.
- `AckTruthful`: `Spec => AckOnlyQueued`. `AckInv` says that the frames of a chunk that has
  been handed over and is still current are queued; a new attach makes the chunks under way
  those of an earlier generation (`Disown`), so that their late answers commit nothing.
- `OrderAlways`: `Spec => []DrawnInOrder`. The screen alone is not inductive. `OrderInv`
  takes the screen, the render queue and what the page has accepted as one line: between
  clearings the queued pieces are in order and after what is on the screen, and nothing in
  the line is newer than the newest frame accepted, unless a replay that clears is to
  come. `ShownEffect` says what one piece does to that line, `OrderedRead` and
  `OrderedDraw` what reading and drawing do.
- `UndisturbedAlways`: `Spec => []UndisturbedContiguous`. What the bridge has collected
  since its attach is one line of pieces `G`, and chunk `n` is what lies between the cuts
  `K[n-1]` and `K[n]`, wherever it is on its way (`Cuts`, `IsChunk`). The line is legal:
  frames are whole and each begins where it is due (`LegalLine`); what the daemon has
  still to send continues it (`Supply`, `DueAfter`); the chunks a page waits for follow
  the last it took (`Lined`); and the page has read a beginning of the line and draws all
  of it (`Drawn`, `ViewOf`, `DrawnOf`). `Mirror` is their conjunction and `Held` says that
  such `G` and `K` exist, so that every action has one lemma that names the next ones
  (`MirrorProduce` to `MirrorSend`). `Calm` and `Single` are the premise of the property;
  `Connected`, `Tidy` and `BlankPages` say what stays empty under it. `Supply` also shows
  where the premise is needed: until the first link is lost a replay that clears comes
  first or not at all, so that whatever is committed is a frame of the line.

`DaemonLifecycleProofs` proves, for any number of launches, versions, processes and
crashes:

- `TypeCorrect`: `Spec => []TypeOK`, with one lemma per actor.
- `RecordAlways`: `Spec => []RecordNamesServer`. The invariant must speak of whoever may
  remove the record. A daemon owns it from its creation on (`Owned`); while the
  application looks for a daemon none is on its way to the record (`Looking`, `Settled`);
  and when it is about to remove what it could not reach, no daemon serves any more
  (`OnlyTarget`). A handshake that a live daemon answers too late breaks exactly this last
  part, which is why the property has its premise. `RecordKept` and `RecordLeaves` are the
  two kinds of steps that most actions are.

`SessionLifecycleProofs` proves, for any sessions, connections, output, restarts and
crashes that satisfy `LifecycleAssumption`:

- `TypeCorrect`: `Spec => []TypeOK`.
- `ExitsAfterOutput`: `Spec => []ExitAfterOutput`. Chunks are conserved between process,
  channel, batch and buffer, and the status follows the last of them through the reader
  and the event thread (`FlowInv`); an exit on its way to the client, or held back by an
  attach, is that of a session whose event thread has ended (`ExitInv`).
- `NoOrphans`: `Spec => []NoOrphanProcess`. A session is created once (`CreateInv`); a
  close is that of a closed tab (`CloseInv`), and a tab is opened only once its session is
  settled, so that a close then finds a process it can end, unless a probe opened the tab
  (`SettledInv`). Hence whatever runs, or is about to, has an entry, with the stated
  exception (`OrphanInv`).
- `CreationsTruthful`: `Spec => []CreationTruthful`. On the client's connection a request
  to create or to probe is asked, carried out or answered, each at most once (`AnswerInv`,
  `PendingInv`); two queues lead to the client, one of them for Attached alone
  (`QueueInv`); nothing is under way for what has not begun (`Quiet`); and until the first
  link is lost a creation that failed has left nothing (`FirstInv`).

The conjuncts of `Inv` hold each other up; each has one lemma with one step per action.

`WebResultProofs` continues `WebOperationsProofs`:

- `ResultAlways`: `RunningTaken` implies `Spec => []ResultTruthful`, where `RunningTaken`
  is that the outbox never refuses `running`; section 4 says what happens otherwise.
  Whether the first result wins is decided by the order of the frames. `NumberInv` and
  `CounterInv` number them; `BoxInv` and `WireInv` say that a report lies
  behind those it follows from, and a completion behind the first one, unless the server
  has them already; `SentInv`, that what was sent on this connection is recorded or under
  way; `AckInv`, that no confirmation says more than the record. `PathInv`, `AskedInv`,
  `FreshInv` and `RefusedInv` tie what page and helper believe to what was reported, and
  `TruthInv` and `InterruptInv` are the property with what it needs to know of
  interruptions. Well-founded induction over numbers gives the least report.
- `TypeAlways`: `Spec => []TypeOK`, from the same invariant without `RunningTaken`.

`PtyDeliveryProofs` follows the frames of a client through its queues. Send queue,
reply and held chunks form one line (`Coming`) that ends in the terminal's inbox, and
every step is, for each client, one of nine events: it does nothing to the client
(`Rested`), adds a live frame (`Fed`), attaches it (`Joined`), ends its connection (`Cut`),
serves a request (`Served`), delivers a frame (`Delivered`), writes one (`Wrote`), sends a
request (`Uploaded`) or connects it (`Reached`). The theorems are inductions over these.

- `CreditAlways`: `Spec => []CreditConservation`, for any clients and limits, with
  checkpoints and any number of lost connections. `ChargeOf` is the sum; it
  survives a step because frames that are not settled come in order after those that are
  (`SettledOf`), no filter drops them (`AheadOf`), and acknowledgements pass the daemon in
  the same order (`AcksOf`). `KnownOf` and `SentOf` bound every number by what was output
  and sent, `LinkInv` says that a client without subscription has nothing queued, and
  `ReplyInv` that the answer to an attach contains no live output.
- `ScreenAlways`: `~CheckpointReplay` implies `Spec => []ScreenContiguous`; with
  checkpoints what is replayed is no run of the output. The invariant says what the queue
  will leave on the screen once it is written (`Content`), and that this is a run to which
  the rest of the line may be appended (`DrawnOf`, `FitsOf`, `ClosedOf`, `WholeOf`). The
  frames the filter would take twice are below what was rendered. Up to the first
  loss, and after it until the terminal has been attached again, what is committed is what
  has been written, so that the replay begins where the screen ends; the premise of
  `ScreenContiguous` is what this needs.
- `SkipsNothing`: `OwnCheckpoints` implies `Spec => NoChunkSkipped`, for any losses. The
  premise is that there are no checkpoints or only one client: a checkpoint of another
  client may cover output this one has not been sent, which the flush then passes over.
  What is still to come live follows the end of the attach answer, in order, and is all
  the output from there, or from what was received, to what was sent (`LiveOf`); the
  checkpoint and those under way are of what the client has been sent (`CoveredOf`).
- `ReadsLog`: `~CheckpointReplay` implies `Spec /\ []Undisturbed => Reader!Safety`, the
  initial states and the step simulation of `StreamReader`; its liveness stays with
  `PtyTerminal`. `Undisturbed` says that nothing has been evicted and no terminal has lost
  a second connection: after an eviction a screen begins within the log, and section 4
  says what a second loss does. A contiguous run is a prefix if nothing is missing before
  it, for what is on the screen and for all that will be (`StartOf`), which holds
  because what was sent is on its way again after every reset (`SupplyOf`). The lemmas
  `PrefixOf`, `LogGrows` and `ConcatPrefix` turn sets of numbers into prefixes: a
  strictly rising sequence whose numbers are a lower part of a set begins its sorted list.
- `RebuildAlways`: `OneTerminal` implies `Spec => []RebuildComplete`, for any number of
  observers, any limits and any checkpoints. The checkpoint shows the output up to
  its number, but for the chunks in `late`, which were written to the screen between
  serialization and numbering, and the frames after it are retained (`CheckpointInv`); so does every
  checkpoint under way (`UploadsOf`) and the screen serialized for the next one
  (`SnapshotOf`), because the screen of a terminal that has not been
  reset shows all output up to the number it was rendered to, and every frame after that
  is on its way (`FirstOf`); and no checkpoint passes over what is still to be sent
  (`CoveredOf`). `SortedConcat` joins the two parts. With two terminals the property does
  not hold (section 4).

The temporal steps are the usual invariance rule; everything else is first order
and is discharged by SMT (arithmetic) and Zenon (extensionality of sets).

Every invariant and every action property of the passing runs has a theorem. Where a
theorem has a premise on a constant (`CheckpointReplay`, `OwnCheckpoints`, `OneTerminal`,
`CancelPhases`, `MaxResets`), a run that expects a violation, section 4 or its entry
above says what happens without it; the step simulation of `StreamReader` is proved for
behaviours that stay `Undisturbed`.
Out of the prover's reach is liveness
(`CaughtUp`, the liveness part of `ImplementsReader`, `RequestEnds`, `Serves`,
`CloseCompletes`, `DeathRecorded`, `ExitReachesTab`, `MirrorCurrent`, `OperationEnds`,
`AppServed`, `IdleEnds`, `BacklogSent`).

## 6. Not modelled

- *Beside the daemon's process and hook relay*: what the record contains, permissions,
  how each platform starts a process; task status, approvals and external notifiers.
- *Memory and spool of `SessionBuffer`*, with failing writes: `PtyStream` has one set of
  retained frames.
- *Remote parts with protocols of their own*: the ssh agent bridge, remote handoff, the
  conversations that run in Rust, pairing and accounts of the relay.
- *Input and output, file formats, presentation*: git, history, statistics, providers and
  their databases, sync, extensions, files, migrations, desktop pet, settings. They are
  most of the source; their code is sequential reading, parsing, storing and drawing,
  with nothing between two actors for a model to decide.
- *Time*: timeouts are nondeterministic choices wherever they occur.

`PROJECT.json` gives the reason for each component.

## 7. Plan

Done: the output stream, local routing, the life cycle of sessions and of the
daemon, the Web mirror of a terminal, management operations, each with its proofs. What
is left, in order of importance:

1. `SessionBuffer`: memory, spool and failing writes implement the `retained` set
   of `PtyStream` (refinement), with the attach answer over evicted frames.
2. Conversations of the Web device, which add events to the outbox that are
   acknowledged by sequence.
