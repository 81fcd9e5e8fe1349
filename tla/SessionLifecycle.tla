--------------------------- MODULE SessionLifecycle ---------------------------
(***************************************************************************)
(* The life of a PTY session: from the request that creates it, through    *)
(* the daemon's connection threads (server.rs), the PTY manager            *)
(* (pty/manager.rs) and the session's own event thread (pty_events.rs), to *)
(* the exit status a tab of the desktop shows (PtyHostSocket.ts,           *)
(* terminalStore.ts).                                                      *)
(*                                                                         *)
(* The daemon handles each connection in a thread of its own, one frame    *)
(* after the other, and finishes what it has read when the peer is gone:   *)
(* a creation asked on a lost connection goes on beside the connection     *)
(* that replaced it.  A session is three things that come and go apart:    *)
(* the entry in the daemon's table, the PTY in the manager's table, and    *)
(* the process.  Output is one counter per session; its path to a screen   *)
(* is the subject of PtyStream.                                            *)
(***************************************************************************)
EXTENDS Integers, Sequences, FiniteSets, FiniteSetsExt

CONSTANTS
  Sessions,     \* session ids; pty_prepare_create never gives one twice
  MaxSessions,  \* MAX_SESSIONS
  BufferCap,    \* TOTAL_BUFFER_MAX_BYTES, in chunks of output
  MaxOut,       \* bound: chunks a process writes
  MaxConns,     \* bound: connections the desktop opens, one more than it loses
  MaxRestarts,  \* bound: restarts of the desktop application
  MaxCrashes    \* bound: crashes of the daemon

ASSUME LifecycleAssumption ==
  /\ IsFiniteSet(Sessions) /\ MaxSessions \in Nat \ {0} /\ BufferCap \in Nat
  /\ MaxOut \in Nat /\ MaxConns \in Nat \ {0} /\ MaxRestarts \in Nat /\ MaxCrashes \in Nat

Conns == 1..MaxConns

\* A request of the client: to create a session, to attach after a create that
\* failed ("probe"), for a restored tab, or after a reconnection, and to close.
Attaching == {"probe", "restore", "reattach"}
Requests == [op : {"create", "close"} \union Attaching, s : Sessions]
Frames == [k : {"ok", "err"}, op : {"create", "close"} \union Attaching, s : Sessions]
            \union [k : {"exit"}, s : Sessions]

VARIABLES
  entry, born,      \* the session table: "none", "alive", "exited"; when it was reserved
  pty,              \* the ids in PtyManager.sessions
  proc,             \* the process: "none", "running", "dead"
  made, unread,     \* chunks it has written; those the reader has not read
  reader,           \* the reader thread: "none", "reading", "done"
  chan,             \* the channel to the event thread, of capacity one
  sink,             \* the event thread: chunks it holds, a status, whether it ended
  kept,             \* chunks appended to the session's buffer
  thread,           \* what each connection's thread is doing, for which session,
                    \* and whether the attach it completes holds an exit frame
  inbox,            \* frames on the way to the thread
  subscribed,       \* ClientHandle.attached
  control, output,  \* the two queues of a connection's writer
  conn, opened,     \* the client's connection (0: none); how many it has opened
  todo, waiting,    \* requests not yet sent; requests in pendingRequests
  attached, closed, pendingStatus, retry,  \* PtyHostSocket's fields of these names
  tab, shown,       \* terminalStore: the tab, and sessionStatuses
  probed,           \* history: tabs that opened by way of a probe
  restarts, crashes \* bounded counters

daemon == <<entry, born, pty, kept, subscribed>>
process == <<proc, made, unread, reader, chan, sink>>
client == <<conn, opened, todo, waiting, attached, closed, pendingStatus, retry, tab,
            shown, probed, restarts>>
vars == <<daemon, process, client, thread, inbox, control, output, crashes>>

Idle == [step |-> "idle", s |-> "none", exit |-> FALSE]
Gone == [Idle EXCEPT !.step = "gone"]
Sleeping == [held |-> 0, status |-> FALSE, ended |-> FALSE]

TypeOK ==
  /\ entry \in [Sessions -> {"none", "alive", "exited"}] /\ born \in [Sessions -> Nat]
  /\ pty \subseteq Sessions /\ proc \in [Sessions -> {"none", "running", "dead"}]
  /\ made \in [Sessions -> 0..MaxOut] /\ unread \in [Sessions -> 0..MaxOut]
  /\ kept \in [Sessions -> 0..MaxOut]
  /\ reader \in [Sessions -> {"none", "reading", "done"}]
  /\ \A s \in Sessions : chan[s] \in {<<>>, <<"output">>, <<"status">>}
  /\ sink \in [Sessions -> [held : 0..2, status : BOOLEAN, ended : BOOLEAN]]
  /\ \A c \in Conns :
       /\ thread[c].step \in {"idle", "reserved", "spawned", "attaching", "joining", "closing", "gone"}
       /\ inbox[c] \in Seq(Requests) /\ control[c] \in Seq(Frames) /\ output[c] \in Seq(Frames)
  /\ subscribed \in [Conns -> SUBSET Sessions]
  /\ conn \in 0..opened /\ opened \in 0..MaxConns
  /\ todo \subseteq Requests /\ waiting \subseteq Requests
  /\ attached \subseteq Sessions /\ closed \subseteq Sessions
  /\ pendingStatus \subseteq Sessions /\ retry \in BOOLEAN /\ probed \subseteq Sessions
  /\ tab \in [Sessions -> {"none", "creating", "open", "failed", "closed", "saved", "forgotten"}]
  /\ shown \in [Sessions -> {"none", "running", "exited"}]
  /\ restarts \in 0..MaxRestarts /\ crashes \in 0..MaxCrashes

Init ==
  /\ entry = [s \in Sessions |-> "none"] /\ born = [s \in Sessions |-> 0]
  /\ pty = {} /\ proc = [s \in Sessions |-> "none"]
  /\ made = [s \in Sessions |-> 0] /\ unread = made /\ kept = made
  /\ reader = [s \in Sessions |-> "none"] /\ chan = [s \in Sessions |-> <<>>]
  /\ sink = [s \in Sessions |-> Sleeping]
  /\ thread = [c \in Conns |-> Gone] /\ inbox = [c \in Conns |-> <<>>]
  /\ subscribed = [c \in Conns |-> {}]
  /\ control = inbox /\ output = inbox
  /\ conn = 0 /\ opened = 0 /\ todo = {} /\ waiting = {}
  /\ attached = {} /\ closed = {} /\ pendingStatus = {} /\ retry = FALSE
  /\ tab = [s \in Sessions |-> "none"] /\ shown = tab /\ probed = {}
  /\ restarts = 0 /\ crashes = 0

-----------------------------------------------------------------------------
(* The process and the reader thread of its PTY *)

Write(s) ==
  /\ proc[s] = "running" /\ made[s] < MaxOut
  /\ made' = [made EXCEPT ![s] = @ + 1] /\ unread' = [unread EXCEPT ![s] = @ + 1]
  /\ UNCHANGED <<proc, reader, chan, sink, daemon, client, thread, inbox, control, output, crashes>>

Exit(s) ==
  /\ proc[s] = "running"
  /\ proc' = [proc EXCEPT ![s] = "dead"]
  /\ UNCHANGED <<made, unread, reader, chan, sink, daemon, client, thread, inbox, control,
                 output, crashes>>

\* Variant: the status is sent as soon as the process is dead.
ReadStatusFirst(s) ==
  /\ reader[s] = "reading" /\ chan[s] = <<>>
  /\ \/ /\ unread[s] > 0
        /\ unread' = [unread EXCEPT ![s] = @ - 1] /\ chan' = [chan EXCEPT ![s] = <<"output">>]
        /\ UNCHANGED reader
     \/ /\ proc[s] = "dead"
        /\ chan' = [chan EXCEPT ![s] = <<"status">>] /\ reader' = [reader EXCEPT ![s] = "done"]
        /\ UNCHANGED unread
  /\ UNCHANGED <<proc, made, sink, daemon, client, thread, inbox, control, output, crashes>>

\* sender.send: waits for room in the channel; after the last chunk, the status.
Read(s) ==
  /\ reader[s] = "reading" /\ chan[s] = <<>>
  /\ \/ /\ unread[s] > 0
        /\ unread' = [unread EXCEPT ![s] = @ - 1]
        /\ chan' = [chan EXCEPT ![s] = <<"output">>]
        /\ UNCHANGED reader
     \/ /\ unread[s] = 0 /\ proc[s] = "dead"
        /\ chan' = [chan EXCEPT ![s] = <<"status">>]
        /\ reader' = [reader EXCEPT ![s] = "done"]
        /\ UNCHANGED unread
  /\ UNCHANGED <<proc, made, sink, daemon, client, thread, inbox, control, output, crashes>>

-----------------------------------------------------------------------------
(* The event thread of a session *)

\* Variant: a status that arrives while a batch is collected is lost.
TakeEventNoStatus(s) ==
  /\ chan[s] # <<>> /\ ~sink[s].status /\ sink[s].held < 2
  /\ chan' = [chan EXCEPT ![s] = <<>>]
  /\ sink' = IF Head(chan[s]) = "output" THEN [sink EXCEPT ![s].held = @ + 1]
             ELSE [sink EXCEPT ![s].status = (sink[s].held = 0)]
  /\ UNCHANGED <<proc, made, unread, reader, daemon, client, thread, inbox, control, output,
                 crashes>>

\* recv: a chunk joins the batch, or waits behind it (carried); a status ends it.
TakeEvent(s) ==
  /\ chan[s] # <<>> /\ ~sink[s].status /\ sink[s].held < 2
  /\ chan' = [chan EXCEPT ![s] = <<>>]
  /\ sink' = IF Head(chan[s]) = "output" THEN [sink EXCEPT ![s].held = @ + 1]
                                          ELSE [sink EXCEPT ![s].status = TRUE]
  /\ UNCHANGED <<proc, made, unread, reader, daemon, client, thread, inbox, control, output,
                 crashes>>

\* Variant: the batch is appended and kept.
EmitOutputAgain(s) ==
  /\ sink[s].held > 0
  /\ kept' = IF entry[s] = "none" THEN kept ELSE [kept EXCEPT ![s] = @ + sink[s].held]
  /\ UNCHANGED <<process, entry, born, pty, subscribed, client, thread, inbox, control, output,
                 crashes>>

\* emit_daemon_output: the batch, less a carried chunk; dropped without an entry.
EmitOutput(s) ==
  /\ sink[s].held > 0
  /\ \E n \in {sink[s].held} \union (IF sink[s].status THEN {} ELSE 1..sink[s].held) :
       /\ sink' = [sink EXCEPT ![s].held = @ - n]
       /\ kept' = IF entry[s] = "none" THEN kept ELSE [kept EXCEPT ![s] = @ + n]
  /\ UNCHANGED <<proc, made, unread, reader, chan, entry, born, pty, subscribed, client, thread,
                 inbox, control, output, crashes>>

Entries(table) == {s \in Sessions : table[s] # "none"}

\* enforce_total_buffer_cap: exited entries, the oldest first, until the rest fits.
Evicted(table) ==
  LET exited == {s \in Sessions : table[s] = "exited"}
      TooMuch(removed) == MapThenSumSet(LAMBDA s : kept[s], Entries(table) \ removed) > BufferCap
  IN  {s \in exited : TooMuch({r \in exited : born[r] < born[s]})}

\* push_to_attached, for an exit frame: held back while the attach is completed.
HoldsExit(c, s) == thread[c].step = "attaching" /\ thread[c].s = s
PushExit(s) ==
  /\ control' = [c \in Conns |-> IF s \in subscribed[c] /\ ~HoldsExit(c, s) /\ c = conn
                                 THEN Append(control[c], [k |-> "exit", s |-> s])
                                 ELSE control[c]]
  /\ thread' = [c \in Conns |-> IF s \in subscribed[c] /\ HoldsExit(c, s)
                                THEN [thread[c] EXCEPT !.exit = TRUE] ELSE thread[c]]

\* emit_daemon_status, and the event thread ends.
EmitStatus(s) ==
  LET table == [entry EXCEPT ![s] = IF @ = "none" THEN @ ELSE "exited"]
  IN  /\ sink[s].status /\ ~sink[s].ended /\ sink[s].held = 0
      /\ sink' = [sink EXCEPT ![s].ended = TRUE]
      /\ entry' = [r \in Sessions |-> IF r \in Evicted(table) THEN "none" ELSE table[r]]
      /\ PushExit(s)
      /\ UNCHANGED <<proc, made, unread, reader, chan, born, pty, kept, subscribed, client, inbox,
                     output, crashes>>

-----------------------------------------------------------------------------
(* The thread of a connection: one frame after the other *)

\* ClientWriter: nothing is queued for a peer that is gone.
Reply(queue, c, f) == IF c = conn THEN [queue EXCEPT ![c] = Append(@, f)] ELSE queue
Ok(f) == [k |-> "ok", op |-> f.op, s |-> f.s]
Err(f) == [k |-> "err", op |-> f.op, s |-> f.s]
Creation(s) == [op |-> "create", s |-> s]
Busy(c, step, s) == thread' = [thread EXCEPT ![c] = [step |-> step, s |-> s, exit |-> FALSE]]
Done(c) == thread' = [thread EXCEPT ![c] = Idle]

Reads(c, ops) ==
  /\ thread[c].step = "idle" /\ inbox[c] # <<>> /\ Head(inbox[c]).op \in ops
  /\ inbox' = [inbox EXCEPT ![c] = Tail(@)]

\* reserve_session and the subscription of the creating client.
Reserve(c) ==
  LET f == Head(inbox[c])
  IN  /\ Reads(c, {"create"})
      /\ IF entry[f.s] = "none" /\ Cardinality(Entries(entry)) < MaxSessions
         THEN /\ entry' = [entry EXCEPT ![f.s] = "alive"]
              /\ born' = [born EXCEPT ![f.s] = 1 + Max({born[s] : s \in Sessions})]
              /\ subscribed' = [subscribed EXCEPT ![c] = @ \union {f.s}]
              /\ Busy(c, "reserved", f.s)
              /\ UNCHANGED control
         ELSE /\ control' = Reply(control, c, Err(f))
              /\ UNCHANGED <<entry, born, subscribed, thread>>
      /\ UNCHANGED <<pty, kept, process, client, output, crashes>>

\* Variant: a creation that fails keeps the reservation.
SpawnKeepsEntry(c) ==
  LET s == thread[c].s
  IN  /\ thread[c].step = "reserved"
      /\ \/ /\ proc' = [proc EXCEPT ![s] = "running"] /\ reader' = [reader EXCEPT ![s] = "reading"]
            /\ Busy(c, "spawned", s)
            /\ UNCHANGED control
         \/ /\ control' = Reply(control, c, Err(Creation(s)))
            /\ Done(c)
            /\ UNCHANGED <<proc, reader>>
      /\ UNCHANGED <<made, unread, chan, sink, daemon, client, inbox, output, crashes>>

\* create_with_launch starts the process and its reader thread, or fails: then the
\* reservation and this client's subscription go.
Spawn(c) ==
  LET s == thread[c].s
  IN  /\ thread[c].step = "reserved"
      /\ \/ /\ proc' = [proc EXCEPT ![s] = "running"] /\ reader' = [reader EXCEPT ![s] = "reading"]
            /\ Busy(c, "spawned", s)
            /\ UNCHANGED <<entry, subscribed, control>>
         \/ /\ entry' = [entry EXCEPT ![s] = "none"]
            /\ subscribed' = [subscribed EXCEPT ![c] = @ \ {s}]
            /\ control' = Reply(control, c, Err(Creation(s)))
            /\ Done(c)
            /\ UNCHANGED <<proc, reader>>
      /\ UNCHANGED <<made, unread, chan, sink, born, pty, kept, client, inbox, output, crashes>>

\* The PTY enters the manager's table; Created, unless the entry is gone by then.
Register(c) ==
  LET s == thread[c].s
  IN  /\ thread[c].step = "spawned"
      /\ pty' = pty \union {s}
      /\ control' = Reply(control, c, IF entry[s] = "none" THEN Err(Creation(s)) ELSE Ok(Creation(s)))
      /\ Done(c)
      /\ UNCHANGED <<entry, born, kept, subscribed, process, client, inbox, output, crashes>>

\* Attach: subscribed, and Attached goes to the output queue before complete_attach.
Attach(c) ==
  LET f == Head(inbox[c])
  IN  /\ Reads(c, Attaching)
      /\ IF entry[f.s] = "none"
         THEN /\ control' = Reply(control, c, Err(f))
              /\ UNCHANGED <<subscribed, output, thread>>
         ELSE /\ subscribed' = [subscribed EXCEPT ![c] = @ \union {f.s}]
              /\ output' = Reply(output, c, Ok(f))
              /\ Busy(c, "attaching", f.s)
              /\ UNCHANGED control
      /\ UNCHANGED <<entry, born, pty, kept, process, client, crashes>>

\* Variant: what was held back is dropped.
CompleteAttachDrops(c) ==
  /\ thread[c].step = "attaching"
  /\ Done(c)
  /\ UNCHANGED <<daemon, process, client, inbox, control, output, crashes>>

CompleteAttach(c) ==
  /\ thread[c].step = "attaching"
  /\ control' = IF thread[c].exit THEN Reply(control, c, [k |-> "exit", s |-> thread[c].s])
                                  ELSE control
  /\ Done(c)
  /\ UNCHANGED <<daemon, process, client, inbox, output, crashes>>

\* Variants: the process is left to end by itself; and the thread does not wait.
KillNothing(c) ==
  /\ Reads(c, {"close"})
  /\ LET s == Head(inbox[c]).s
     IN  pty' = pty \ {s} /\ Busy(c, IF s \in pty THEN "joining" ELSE "closing", s)
  /\ UNCHANGED <<process, entry, born, kept, subscribed, client, control, output, crashes>>
KillAndForget(c) ==
  /\ Reads(c, {"close"})
  /\ pty' = pty \ {Head(inbox[c]).s} /\ Busy(c, "closing", Head(inbox[c]).s)
  /\ UNCHANGED <<process, entry, born, kept, subscribed, client, control, output, crashes>>

\* PtyManager.close: out of its table and killed; then the thread waits for the reader.
\* A PTY that another thread has not registered yet is not found, which is no error.
Kill(c) ==
  LET s == Head(inbox[c]).s
  IN  /\ Reads(c, {"close"})
      /\ pty' = pty \ {s}
      /\ proc' = IF s \in pty /\ proc[s] = "running" THEN [proc EXCEPT ![s] = "dead"] ELSE proc
      /\ Busy(c, IF s \in pty THEN "joining" ELSE "closing", s)
      /\ UNCHANGED <<made, unread, reader, chan, sink, entry, born, kept, subscribed, client,
                     control, output, crashes>>

\* The entry goes, and every client's subscription.
FinishClose(c) ==
  LET s == thread[c].s
  IN  /\ \/ thread[c].step = "closing"
         \/ thread[c].step = "joining" /\ reader[s] = "done"
      /\ entry' = [entry EXCEPT ![s] = "none"]
      /\ subscribed' = [d \in Conns |-> subscribed[d] \ {s}]
      /\ control' = Reply(control, c, Ok([op |-> "close", s |-> s]))
      /\ Done(c)
      /\ UNCHANGED <<born, pty, kept, process, client, inbox, output, crashes>>

\* The thread has read everything a lost connection had delivered.
Leave(c) ==
  /\ c # conn /\ thread[c].step = "idle" /\ inbox[c] = <<>>
  /\ thread' = [thread EXCEPT ![c] = Gone]
  /\ subscribed' = [subscribed EXCEPT ![c] = {}]
  /\ UNCHANGED <<entry, born, pty, kept, process, client, inbox, control, output, crashes>>

-----------------------------------------------------------------------------
(* The client: PtyHostSocket and the tabs of terminalStore *)

Request(op, s) == [op |-> op, s |-> s]

OpenTab(s) ==
  /\ tab[s] = "none"
  /\ tab' = [tab EXCEPT ![s] = "creating"]
  /\ attached' = attached \union {s}
  /\ todo' = todo \union {Request("create", s)}
  /\ UNCHANGED <<conn, opened, waiting, closed, pendingStatus, retry, shown, probed, restarts,
                 daemon, process, thread, inbox, control, output, crashes>>

\* closeSession and PtyHostSocket.close: the tombstone first, then the request.
CloseTab(s) ==
  /\ tab[s] = "open"
  /\ tab' = [tab EXCEPT ![s] = "closed"]
  /\ closed' = closed \union {s} /\ attached' = attached \ {s}
  /\ pendingStatus' = pendingStatus \ {s}
  /\ retry' = (retry /\ attached' # {})
  /\ todo' = {r \in todo : r.s # s} \union {Request("close", s)}
  /\ UNCHANGED <<conn, opened, waiting, shown, probed, restarts, daemon, process, thread, inbox,
                 control, output, crashes>>

Connect ==
  /\ conn = 0 /\ todo # {} /\ opened < MaxConns
  /\ opened' = opened + 1 /\ conn' = opened'
  /\ thread' = [thread EXCEPT ![conn'] = Idle]
  /\ UNCHANGED <<todo, waiting, attached, closed, pendingStatus, retry, tab, shown, probed,
                 restarts, daemon, process, inbox, control, output, crashes>>

Send ==
  /\ conn # 0
  /\ \E r \in todo :
       /\ inbox' = [inbox EXCEPT ![conn] = Append(@, r)]
       /\ todo' = todo \ {r} /\ waiting' = waiting \union {r}
  /\ UNCHANGED <<conn, opened, attached, closed, pendingStatus, retry, tab, shown, probed,
                 restarts, daemon, process, thread, control, output, crashes>>

\* reconnectAttachedSessions, when its timer fires.
Reconnect ==
  /\ retry
  /\ retry' = FALSE
  /\ todo' = todo \union {Request("reattach", s) : s \in attached \ closed}
  /\ UNCHANGED <<conn, opened, waiting, attached, closed, pendingStatus, tab, shown, probed,
                 restarts, daemon, process, thread, inbox, control, output, crashes>>

\* createSession after a create that succeeded: subscribeStatus hands a waiting exit
\* to the new listener in a microtask, and then the status is set to running.
Opened(s) ==
  /\ tab' = [tab EXCEPT ![s] = "open"] /\ shown' = [shown EXCEPT ![s] = "running"]
  /\ pendingStatus' = pendingStatus \ {s}

OnExit(s) ==
  /\ IF s \in closed THEN UNCHANGED <<shown, pendingStatus>>
     ELSE IF tab[s] = "open" THEN shown' = [shown EXCEPT ![s] = "exited"] /\ UNCHANGED pendingStatus
     ELSE pendingStatus' = pendingStatus \union {s} /\ UNCHANGED shown
  /\ UNCHANGED <<todo, waiting, attached, tab, probed>>

OnOk(f) ==
  /\ waiting' = waiting \ {Request(f.op, f.s)}
  /\ IF f.op \in {"create", "probe"} THEN Opened(f.s) ELSE UNCHANGED <<tab, shown, pendingStatus>>
  /\ probed' = IF f.op = "probe" THEN probed \union {f.s} ELSE probed
  /\ UNCHANGED <<todo, attached>>

OnErr(f) ==
  /\ waiting' = waiting \ {Request(f.op, f.s)}
  /\ todo' = IF f.op = "create" THEN todo \union {Request("probe", f.s)} ELSE todo
  /\ attached' = IF f.op \in Attaching THEN attached \ {f.s} ELSE attached
  /\ tab' = IF f.op = "probe" THEN [tab EXCEPT ![f.s] = "failed"] ELSE tab
  /\ pendingStatus' = IF f.op = "probe" THEN pendingStatus \ {f.s} ELSE pendingStatus
  /\ UNCHANGED <<shown, probed>>

OnFrame(f) ==
  /\ CASE f.k = "exit" -> OnExit(f.s) [] f.k = "ok" -> OnOk(f) [] f.k = "err" -> OnErr(f)
  /\ UNCHANGED <<conn, opened, closed, retry, restarts>>

\* pop_next: the control queue first.
DeliverControl ==
  /\ conn # 0 /\ control[conn] # <<>>
  /\ OnFrame(Head(control[conn]))
  /\ control' = [control EXCEPT ![conn] = Tail(@)]
  /\ UNCHANGED <<daemon, process, thread, inbox, output, crashes>>

DeliverOutput ==
  /\ conn # 0 /\ control[conn] = <<>> /\ output[conn] # <<>>
  /\ OnFrame(Head(output[conn]))
  /\ output' = [output EXCEPT ![conn] = Tail(@)]
  /\ UNCHANGED <<daemon, process, thread, inbox, control, crashes>>

\* A restored tab: what pty_daemon_sessions says, then a listener and an attach whose
\* answer is not looked at.  Without an entry it goes on as a new session.
Restore(s) ==
  /\ tab[s] = "saved"
  /\ IF entry[s] = "none"
     THEN /\ tab' = [tab EXCEPT ![s] = "forgotten"]
          /\ UNCHANGED <<shown, attached, todo>>
     ELSE /\ tab' = [tab EXCEPT ![s] = "open"]
          /\ shown' = [shown EXCEPT ![s] = IF entry[s] = "alive" THEN "running" ELSE "exited"]
          /\ attached' = attached \union {s}
          /\ todo' = todo \union {Request("restore", s)}
  /\ UNCHANGED <<conn, opened, waiting, closed, pendingStatus, retry, probed, restarts, daemon,
                 process, thread, inbox, control, output, crashes>>

-----------------------------------------------------------------------------
(* Faults *)

\* handleDisconnect: every request in flight is rejected.  A create is followed by a
\* probe, a probe gives the creation up.
Rejected ==
  LET of(op) == {s \in Sessions : Request(op, s) \in waiting}
  IN  /\ conn' = 0 /\ waiting' = {}
      /\ todo' = todo \union {Request("probe", s) : s \in of("create")}
      /\ attached' = attached \ of("probe")
      /\ pendingStatus' = pendingStatus \ of("probe")
      /\ tab' = [s \in Sessions |-> IF s \in of("probe") THEN "failed" ELSE tab[s]]
      /\ retry' = (attached' # {})
      /\ UNCHANGED <<opened, closed, shown, probed, restarts>>

\* The connection is lost, or closed by a request that timed out: part of what was
\* on the way to the daemon may still arrive, nothing comes back.
Severed ==
  /\ conn # 0 /\ opened < MaxConns
  /\ \E n \in 0..Len(inbox[conn]) : inbox' = [inbox EXCEPT ![conn] = SubSeq(@, 1, n)]
  /\ control' = [control EXCEPT ![conn] = <<>>] /\ output' = [output EXCEPT ![conn] = <<>>]

Drop ==
  /\ Severed /\ Rejected
  /\ UNCHANGED <<daemon, process, thread, crashes>>

\* The application ends without closing its sessions, and starts again.
Restart ==
  /\ restarts < MaxRestarts
  /\ Severed
  /\ restarts' = restarts + 1
  /\ tab' = [s \in Sessions |-> CASE tab[s] = "open" -> "saved"
                                 [] tab[s] = "creating" -> "forgotten"
                                 [] OTHER -> tab[s]]
  /\ conn' = 0 /\ todo' = {} /\ waiting' = {} /\ attached' = {} /\ closed' = {}
  /\ pendingStatus' = {} /\ retry' = FALSE /\ shown' = [s \in Sessions |-> "none"]
  /\ UNCHANGED <<opened, probed, daemon, process, thread, crashes>>

\* The daemon dies with its terminals; the client is told to start another.
Crash ==
  /\ crashes < MaxCrashes /\ conn # 0 /\ opened < MaxConns
  /\ crashes' = crashes + 1
  /\ Rejected
  /\ entry' = [s \in Sessions |-> "none"] /\ pty' = {} /\ kept' = [s \in Sessions |-> 0]
  /\ proc' = [s \in Sessions |-> IF proc[s] = "running" THEN "dead" ELSE proc[s]]
  /\ reader' = [s \in Sessions |-> "none"] /\ chan' = [s \in Sessions |-> <<>>]
  /\ sink' = [s \in Sessions |-> Sleeping] /\ unread' = [s \in Sessions |-> 0]
  /\ thread' = [c \in Conns |-> Gone] /\ inbox' = [c \in Conns |-> <<>>]
  /\ subscribed' = [c \in Conns |-> {}] /\ control' = inbox' /\ output' = inbox'
  /\ UNCHANGED <<born, made>>

-----------------------------------------------------------------------------
SessionStep(s) == Read(s) \/ TakeEvent(s) \/ EmitOutput(s) \/ EmitStatus(s)
ThreadStep(c) ==
  \/ Reserve(c) \/ Spawn(c) \/ Register(c) \/ Attach(c) \/ CompleteAttach(c) \/ Kill(c)
  \/ FinishClose(c) \/ Leave(c)
ClientStep == Connect \/ Send \/ Reconnect \/ DeliverControl \/ DeliverOutput

Next ==
  \/ \E s \in Sessions : Write(s) \/ Exit(s) \/ SessionStep(s)
  \/ \E c \in Conns : ThreadStep(c)
  \/ \E s \in Sessions : OpenTab(s) \/ CloseTab(s) \/ Restore(s)
  \/ ClientStep
  \/ Drop \/ Restart \/ Crash

Spec == Init /\ [][Next]_vars

\* Threads run and the client works on; a process need not end, a user need not act.
Fairness ==
  /\ \A s \in Sessions : WF_vars(SessionStep(s))
  /\ \A c \in Conns : WF_vars(ThreadStep(c))
  /\ WF_vars(Connect) /\ WF_vars(Send) /\ WF_vars(Reconnect)
  /\ WF_vars(DeliverControl) /\ WF_vars(DeliverOutput)

FairSpec == Spec /\ Fairness

-----------------------------------------------------------------------------
(* Properties *)

\* A session is reported as exited only when everything its process wrote has gone
\* through the channel and the event thread; an exited entry holds all of it.
ExitAfterOutput ==
  \A s \in Sessions :
    /\ entry[s] = "exited" => kept[s] = made[s]
    /\ (\E c \in Conns : \E i \in DOMAIN control[c] : control[c][i] = [k |-> "exit", s |-> s])
         => unread[s] = 0 /\ chan[s] = <<>> /\ sink[s].held = 0

\* A process never runs without an entry that lists it, with one exception: its tab was
\* opened by the probe while the creation was still under way on the lost connection,
\* and closed before the PTY was registered.
NoOrphanProcess ==
  \A s \in Sessions : proc[s] = "running" /\ entry[s] = "none" => s \in probed /\ tab[s] # "open"

\* A tab tells the truth about its creation.  One that is open has had a process, unless
\* a probe opened it after a lost link; one that failed has left neither entry nor
\* process, while no link was lost.
CreationTruthful ==
  \A s \in Sessions :
    /\ tab[s] = "open" /\ (s \notin probed \/ conn = 1) => proc[s] # "none"
    /\ tab[s] = "failed" /\ conn = 1 => entry[s] = "none" /\ proc[s] # "running"

\* While the link holds, closing a tab ends its process and removes its session: the
\* wait for the reader ends, and the client is not held up by other requests.  (A tab
\* that a probe opened is the exception of NoOrphanProcess.)
CloseCompletes ==
  \A s \in Sessions, c \in Conns :
    (tab[s] = "closed" /\ s \notin probed /\ conn = c /\ Request("close", s) \in todo \union waiting)
      ~> ((entry[s] = "none" /\ proc[s] # "running") \/ conn # c)

\* No session stays alive in the table after its process has ended.
DeathRecorded == \A s \in Sessions : (entry[s] = "alive" /\ proc[s] = "dead") ~> (entry[s] # "alive")

\* An open tab whose connection is subscribed shows the exit of a process that ends,
\* also when the exit falls into an attach, as long as that connection lasts.
ExitReachesTab ==
  \A s \in Sessions, c \in Conns :
    (tab[s] = "open" /\ conn = c /\ s \in subscribed[c] /\ entry[s] = "alive" /\ proc[s] = "dead")
      ~> (shown[s] = "exited" \/ tab[s] # "open" \/ conn # c)

\* Any open tab whose process has ended comes to show it.
ExitEventuallyShown ==
  \A s \in Sessions : (tab[s] = "open" /\ proc[s] = "dead") ~> (shown[s] = "exited" \/ tab[s] # "open")
=============================================================================
