------------------------------ MODULE PtyStream ------------------------------
(***************************************************************************)
(* The output stream of one PTY session, from the daemon's session entry   *)
(* to the screens of the clients attached to it.                           *)
(*                                                                         *)
(* Daemon side (src-tauri/src/infrastructure/daemon/server.rs and its      *)
(* submodules): every chunk read from the PTY gets the next sequence       *)
(* number, is kept for replay, and is queued to every attached client      *)
(* whose window of unacknowledged characters is open.  A client whose      *)
(* window is full is paused; its acknowledgements reopen the window and    *)
(* flush what was kept for it.  A client that (re)attaches is sent the     *)
(* frames after the one it committed, or a reset and everything kept.      *)
(*                                                                         *)
(* Client side (PtyHostSocket.ts, TerminalProcessManager.ts): frames are   *)
(* filtered by sequence number, written to the screen, committed and       *)
(* acknowledged; after a lost connection the client attaches again from    *)
(* what it committed.  Terminals also upload checkpoints of their screen,  *)
(* which replace the retained frames they cover.  A terminal serializes    *)
(* its screen in one step and numbers the result in a later one.           *)
(*                                                                         *)
(* A chunk of output is its sequence number; a screen is the sequence of   *)
(* the chunks written to it since it was last cleared.  Every output frame *)
(* costs one unit of the flow-control window and of the send queues.       *)
(***************************************************************************)
EXTENDS Integers, Sequences, FiniteSets, SequencesExt

CONSTANTS
  Clients,           \* the connections that may watch the session
  Terminals,         \* clients whose frames go through TerminalProcessManager;
                     \* the others are observers (the Web bridge)
  Creator,           \* the terminal that created the session
  Nobody,            \* the value of "flushing" when no flush is running
  High, Low,         \* CLIENT_OUTPUT_HIGH_WATERMARK, CLIENT_OUTPUT_LOW_WATERMARK
  QueueMax,          \* CLIENT_OUTPUT_QUEUE_MAX_BYTES, in output frames
  Retain,            \* SESSION_BUFFER_MAX_BYTES + SESSION_SPOOL_MAX_BYTES, in frames
  CheckpointReplay,  \* the daemon announces the checkpoint_replay_v1 feature
  MaxSeq,            \* bound: the PTY produces at most MaxSeq events
  MaxDrops           \* bound: a client that has lost MaxDrops connections loses no more,
                     \* unless the daemon closes one

ASSUME ClientsAssumption ==
  /\ Terminals \subseteq Clients /\ Creator \in Terminals
  /\ Nobody \notin Clients /\ IsFiniteSet(Clients)
ASSUME LimitsAssumption ==
  /\ High \in Nat /\ Low \in Nat /\ Low < High
  /\ QueueMax \in Nat /\ Retain \in Nat \ {0}
  /\ CheckpointReplay \in BOOLEAN
  /\ MaxSeq \in Nat /\ MaxDrops \in Nat

VARIABLES
  nextSeq,     \* SessionEntry.next_sequence
  outputs,     \* history: the sequence numbers that carried output
  retained,    \* SessionBuffer: sequence numbers of the spooled and buffered frames
  checkpoint,  \* SessionBuffer.checkpoint
  flushing,    \* the client whose ACK handler holds the session and client locks
  attached, attaching, held, unack, paused, lastSent, lastAcked,  \* ClientHandle
  reply,       \* the Attached answer built by handle_frame, not yet queued
  out,         \* ClientWriterState.output
  link,        \* the connection as the client sees it
  requests,    \* messages from the client the daemon has not handled
  received, committed,   \* PtyHostSocket.latestReceivedSequence, latestCommittedSequence
  rendered,    \* TerminalProcessManager: TerminalOutputState.latestCommittedSequence
  inbox,       \* frames handed to the terminal, not yet written
  screen,      \* what the terminal displays
  snapshot,    \* the screen serialized for a checkpoint that is not numbered yet
  drops        \* history: how many connections each client has lost

session == <<nextSeq, outputs, retained, checkpoint>>
handles == <<attached, attaching, held, unack, paused, lastSent, lastAcked, reply>>
viewers == <<received, committed, rendered, inbox, screen, snapshot>>
vars == <<session, flushing, handles, out, link, requests, viewers, drops>>

-----------------------------------------------------------------------------
(* Frames and requests. *)

ReplayFrame(s) == [kind |-> "replay", seq |-> s, body |-> IF s \in outputs THEN <<s>> ELSE <<>>]
OutputFrame(s) == [kind |-> "output", seq |-> s, body |-> <<s>>]
ResetFrame == [kind |-> "reset", seq |-> 0, body |-> <<>>]
AttachedFrame(s) == [kind |-> "attached", seq |-> s, body |-> <<>>]

AttachRequest(after) == [kind |-> "attach", seq |-> after, body |-> <<>>, late |-> {}]
AckRequest(s) == [kind |-> "ack", seq |-> s, body |-> <<>>, late |-> {}]
CheckpointRequest(s, b, l) == [kind |-> "checkpoint", seq |-> s, body |-> b, late |-> l]

NoCheckpoint == [seq |-> -1, body |-> <<>>, late |-> {}]
NoSnapshot == [stage |-> "none", body |-> <<>>]

\* The elements of a finite set of naturals in increasing order: the i-th is the
\* one with i elements up to it.
UpTo(S, n) == {r \in S : r <= n}
Sorted(S) == [i \in 1..Cardinality(S) |-> CHOOSE s \in S : Cardinality(UpTo(S, s)) = i]
Newest(n, S) == {s \in S : Cardinality({r \in S : r > s}) < n}
Override(f, S, v) == [c \in Clients |-> IF c \in S THEN v ELSE f[c]]

LatestSeq == nextSeq - 1
Open(c) == link[c] \in {"connected", "up"}
Idle(c) == snapshot[c].stage = "none"
LiveQueued(c) == Cardinality({i \in DOMAIN out[c] : out[c][i].kind = "output"})

-----------------------------------------------------------------------------
Init ==
  /\ nextSeq = 1 /\ outputs = {} /\ retained = {} /\ checkpoint = NoCheckpoint
  /\ flushing = Nobody
  /\ attached = [c \in Clients |-> c = Creator]
  /\ attaching = [c \in Clients |-> FALSE]
  /\ held = [c \in Clients |-> <<>>]
  /\ unack = [c \in Clients |-> 0]
  /\ paused = [c \in Clients |-> FALSE]
  /\ lastSent = [c \in Clients |-> 0]
  /\ lastAcked = [c \in Clients |-> 0]
  /\ reply = [c \in Clients |-> <<>>]
  /\ out = [c \in Clients |-> <<>>]
  /\ link = [c \in Clients |-> IF c = Creator THEN "up" ELSE "down"]
  /\ requests = [c \in Clients |-> <<>>]
  /\ received = [c \in Clients |-> 0]
  /\ committed = [c \in Clients |-> 0]
  /\ rendered = [c \in Clients |-> 0]
  /\ inbox = [c \in Clients |-> <<>>]
  /\ screen = [c \in Clients |-> <<>>]
  /\ snapshot = [c \in Clients |-> NoSnapshot]
  /\ drops = [c \in Clients |-> 0]

-----------------------------------------------------------------------------
(* The daemon. *)

\* ClientWriter::close + clear_client_session_state for the clients in S: the
\* queues are never drained again.  The flow-control fields are cleared by the
\* caller.
CloseWriters(S, state) ==
  /\ link' = Override(link, S, state)
  /\ attached' = Override(attached, S, FALSE)
  /\ attaching' = Override(attaching, S, FALSE)
  /\ reply' = Override(reply, S, <<>>)
  /\ lastAcked' = Override(lastAcked, S, 0)
  /\ requests' = Override(requests, S, <<>>)

ClearFlow(c) ==
  /\ held' = [held EXCEPT ![c] = <<>>]
  /\ unack' = [unack EXCEPT ![c] = 0]
  /\ paused' = [paused EXCEPT ![c] = FALSE]
  /\ lastSent' = [lastSent EXCEPT ![c] = 0]
  /\ out' = [out EXCEPT ![c] = <<>>]

\* Wrong variant, rejected by the properties: the counter moves before the frame is kept.
PushOutputAfterIncrement == retained' = Newest(Retain, retained \cup {nextSeq + 1})
\* SessionBuffer::push_output and enforce_spool_cap: append, then give up whole
\* frames from the oldest end.
PushOutput == retained' = Newest(Retain, retained \cup {nextSeq})

\* emit_daemon_output: one chunk read from the PTY, under the session lock.
\* A client that is attaching has the frame held for it, one with room in its
\* window has it queued, a paused one skips it (the frame stays retained).
Emit ==
  LET holding == {c \in Clients : attached[c] /\ attaching[c]}
      live == {c \in Clients : attached[c] /\ ~attaching[c] /\ ~paused[c]}
      sending == {c \in live : unack[c] < High}
      full == {c \in holding : Len(held[c]) >= QueueMax}
                \cup {c \in sending : LiveQueued(c) >= QueueMax}
      taking == (holding \cup sending) \ full
  IN /\ flushing = Nobody
     /\ nextSeq <= MaxSeq
     /\ nextSeq' = nextSeq + 1
     /\ outputs' = outputs \cup {nextSeq}
     /\ PushOutput
     /\ held' = [c \in Clients |->
                   IF c \in full THEN <<>>
                   ELSE IF c \in holding THEN Append(held[c], OutputFrame(nextSeq))
                   ELSE held[c]]
     /\ out' = [c \in Clients |->
                  IF c \in full THEN <<>>
                  ELSE IF c \in sending THEN Append(out[c], OutputFrame(nextSeq))
                  ELSE out[c]]
     /\ unack' = [c \in Clients |->
                    IF c \in full THEN 0
                    ELSE IF c \in taking THEN unack[c] + 1 ELSE unack[c]]
     /\ paused' = [c \in Clients |->
                     /\ c \notin full
                     /\ \/ paused[c]
                        \/ c \in taking /\ unack[c] + 1 >= High
                        \/ c \in live \ sending]
     /\ lastSent' = [c \in Clients |->
                       IF c \in full THEN 0
                       ELSE IF c \in taking THEN nextSeq ELSE lastSent[c]]
     /\ CloseWriters(full, "closing")
     /\ UNCHANGED <<checkpoint, flushing, viewers, drops>>

\* Resize: an empty frame in the replay only; consecutive ones are merged.
Resize ==
  LET trailing == {s \in retained : s \notin outputs /\ \A r \in retained : r <= s}
  IN /\ flushing = Nobody
     /\ nextSeq <= MaxSeq
     /\ nextSeq' = nextSeq + 1
     /\ retained' = (retained \ trailing) \cup {nextSeq}
     /\ UNCHANGED <<outputs, checkpoint, flushing, handles, out, link, requests, viewers, drops>>

\* The daemon handles the requests of a connection one at a time, in order.
Handles(c, kind) ==
  /\ flushing = Nobody
  /\ Open(c) /\ ~attaching[c]
  /\ requests[c] # <<>> /\ Head(requests[c]).kind = kind
PopRequest(c) == requests' = [requests EXCEPT ![c] = Tail(@)]

\* SessionBuffer::oldest_sequence(), 0 when the buffer is empty.
OldestSeq ==
  IF checkpoint # NoCheckpoint THEN checkpoint.seq
  ELSE IF retained # {} THEN Min(retained) ELSE 0

ReplayReset(after) == after = 0 \/ after + 1 < OldestSeq

\* replay_entries / replay_entries_after: the checkpoint, then the retained frames.
ReplayEntries(after) ==
  LET wanted(s) == ReplayReset(after) \/ s > after
      frames == Sorted({s \in retained : wanted(s)})
  IN (IF checkpoint # NoCheckpoint /\ wanted(checkpoint.seq)
        THEN <<[kind |-> "replay", seq |-> checkpoint.seq, body |-> checkpoint.body]>>
        ELSE <<>>)
     \o [i \in DOMAIN frames |-> ReplayFrame(frames[i])]

\* websocket_attached_frames: optional reset, the entries, then the barrier.
AttachedFrames(after) ==
  (IF ReplayReset(after) THEN <<ResetFrame>> ELSE <<>>)
    \o ReplayEntries(after) \o <<AttachedFrame(LatestSeq)>>

\* Attach: the replay snapshot and the subscription under both locks.
HandleAttach(c) ==
  /\ Handles(c, "attach")
  /\ reply' = [reply EXCEPT ![c] = AttachedFrames(Head(requests[c]).seq)]
  /\ attached' = [attached EXCEPT ![c] = TRUE]
  /\ attaching' = [attaching EXCEPT ![c] = TRUE]
  /\ held' = [held EXCEPT ![c] = <<>>]
  /\ unack' = [unack EXCEPT ![c] = 0]
  /\ paused' = [paused EXCEPT ![c] = FALSE]
  /\ lastSent' = [lastSent EXCEPT ![c] = LatestSeq]
  /\ lastAcked' = [lastAcked EXCEPT ![c] = LatestSeq]
  /\ PopRequest(c)
  /\ UNCHANGED <<session, flushing, out, link, viewers, drops>>

\* ClientWriter::send_attached: the whole answer enters the queue at once.
AttachReply(c) ==
  /\ attaching[c] /\ reply[c] # <<>>
  /\ out' = [out EXCEPT ![c] = @ \o reply[c]]
  /\ reply' = [reply EXCEPT ![c] = <<>>]
  /\ UNCHANGED <<session, flushing, attached, attaching, held, unack, paused, lastSent,
                 lastAcked, link, requests, viewers, drops>>

\* complete_attach: what was produced since HandleAttach follows the answer.
CompleteAttach(c) ==
  /\ flushing = Nobody
  /\ attaching[c] /\ reply[c] = <<>>
  /\ \/ /\ LiveQueued(c) + Len(held[c]) <= QueueMax
        /\ attaching' = [attaching EXCEPT ![c] = FALSE]
        /\ out' = [out EXCEPT ![c] = @ \o held[c]]
        /\ held' = [held EXCEPT ![c] = <<>>]
        /\ UNCHANGED <<attached, reply, unack, paused, lastSent, lastAcked, link, requests>>
     \/ /\ LiveQueued(c) + Len(held[c]) > QueueMax
        /\ CloseWriters({c}, "closing")
        /\ ClearFlow(c)
  /\ UNCHANGED <<session, flushing, viewers, drops>>

\* acknowledge_output: only an ACK that advances and names something sent
\* counts.  When it reopens the window of a paused client the retained frames
\* are flushed, unless they no longer continue what the client was sent.
\* Wrong variant, rejected by the properties: the flush starts one frame late.
MissingSkipsOne(c) == {s \in retained : s > lastSent[c] + 1}
Missing(c) == {s \in retained : s > lastSent[c]}
\* Wrong variant, rejected by the properties: the flush never checks that the stream continues.
NoGap(c) == FALSE
Gap(c) == Missing(c) # {} /\ \A s \in Missing(c) : s > lastSent[c] + 1
Counts(c, s) == attached[c] /\ lastAcked[c] < s /\ s <= lastSent[c]
\* Wrong variant, rejected by the properties: an ACK settles the whole window.
RemainingNothing(c) == 0
Remaining(c) == IF unack[c] = 0 THEN 0 ELSE unack[c] - 1
\* Wrong variant, rejected by the properties: the low watermark itself does not reopen.
ReopensBelowLow(c) == paused[c] /\ Remaining(c) < Low
Reopens(c) == paused[c] /\ Remaining(c) <= Low

HandleAck(c) ==
  /\ Handles(c, "ack")
  /\ LET s == Head(requests[c]).seq
     IN \/ /\ ~Counts(c, s)
           /\ PopRequest(c)
           /\ UNCHANGED <<flushing, handles, out, link>>
        \/ /\ Counts(c, s)
           /\ ~(Reopens(c) /\ Gap(c))
           /\ PopRequest(c)
           /\ unack' = [unack EXCEPT ![c] = Remaining(c)]
           /\ lastAcked' = [lastAcked EXCEPT ![c] = s]
           /\ flushing' = IF Reopens(c) THEN c ELSE Nobody
           /\ UNCHANGED <<attached, attaching, held, paused, lastSent, reply, out, link>>
        \/ /\ Counts(c, s)
           /\ Reopens(c) /\ Gap(c)
           /\ CloseWriters({c}, "closing")
           /\ ClearFlow(c)
           /\ UNCHANGED flushing
  /\ UNCHANGED <<session, viewers, drops>>

\* flush_buffered_output_locked, one iteration: the writer thread runs meanwhile.
MissingOutput(c) == Missing(c) \cap outputs

FlushSend(c) ==
  /\ flushing = c
  /\ MissingOutput(c) # {} /\ unack[c] < High
  /\ \/ /\ LiveQueued(c) < QueueMax
        /\ \E s \in MissingOutput(c) :
             /\ \A r \in MissingOutput(c) : s <= r
             /\ out' = [out EXCEPT ![c] = Append(@, OutputFrame(s))]
             /\ lastSent' = [lastSent EXCEPT ![c] = s]
        /\ unack' = [unack EXCEPT ![c] = @ + 1]
        /\ UNCHANGED <<flushing, attached, attaching, held, paused, lastAcked, reply, link, requests>>
     \/ /\ LiveQueued(c) >= QueueMax
        /\ CloseWriters({c}, "closing")
        /\ ClearFlow(c)
        /\ flushing' = Nobody
  /\ UNCHANGED <<session, viewers, drops>>

\* Wrong variant, rejected by the properties: the pause ends though the window is full again.
FlushEndUnpausing(c) ==
  /\ flushing = c
  /\ MissingOutput(c) = {} \/ unack[c] >= High
  /\ paused' = [paused EXCEPT ![c] = FALSE]
  /\ flushing' = Nobody
  /\ UNCHANGED <<session, attached, attaching, held, unack, lastSent, lastAcked, reply, out,
                 link, requests, viewers, drops>>
FlushEnd(c) ==
  /\ flushing = c
  /\ MissingOutput(c) = {} \/ unack[c] >= High
  /\ paused' = [paused EXCEPT ![c] = unack[c] > Low]
  /\ flushing' = Nobody
  /\ UNCHANGED <<session, attached, attaching, held, unack, lastSent, lastAcked, reply, out,
                 link, requests, viewers, drops>>

\* Wrong variant, rejected by the properties: the checkpoint drops one frame too many.
UncoveredLate(n) == {s \in retained : s > n + 1}
Uncovered(n) == {s \in retained : s > n}

\* handle_binary_frame + accept_checkpoint: a checkpoint of a session the
\* connection is not attached to ends the connection; one that is ahead of the
\* output is rejected, one that is not newer than the stored one is ignored.
HandleCheckpoint(c) ==
  /\ Handles(c, "checkpoint")
  /\ LET req == Head(requests[c])
     IN \/ /\ ~attached[c]
           /\ CloseWriters({c}, "closing")
           /\ ClearFlow(c)
           /\ UNCHANGED <<checkpoint, retained>>
        \/ /\ attached[c]
           /\ PopRequest(c)
           /\ IF req.seq <= LatestSeq /\ checkpoint.seq < req.seq
                THEN /\ checkpoint' = [seq |-> req.seq, body |-> req.body, late |-> req.late]
                     /\ retained' = Uncovered(req.seq)
                ELSE UNCHANGED <<checkpoint, retained>>
           /\ UNCHANGED <<handles, out, link>>
  /\ UNCHANGED <<nextSeq, outputs, flushing, viewers, drops>>

-----------------------------------------------------------------------------
(* The clients. *)

\* The frames after the last reset: TerminalProcessManager keeps only these,
\* the ones before it are still written to the screen but commit nothing.
Stale(c) == \E i \in 2..Len(inbox[c]) : inbox[c][i].kind = "reset"
Queued(c) ==
  {inbox[c][i].seq : i \in {j \in DOMAIN inbox[c] :
      \A k \in j..Len(inbox[c]) : inbox[c][k].kind # "reset"}}

\* Wrong variant, rejected by the properties: a terminal does not filter what it has.
TakesAll(c, frame) == TRUE
\* enqueueOutputFrame: a terminal takes a frame once, an observer always.
Takes(c, frame) ==
  \/ c \notin Terminals
  \/ frame.kind = "reset"
  \/ frame.seq > rendered[c] /\ frame.seq \notin Queued(c)

\* The writer thread sends the oldest frame and the client's handler runs.
Deliver(c) ==
  LET frame == Head(out[c])
      fresh == frame.kind # "output" \/ frame.seq > received[c]
      shown == frame.kind # "attached" /\ fresh /\ Takes(c, frame)
  IN /\ Open(c) /\ Idle(c) /\ out[c] # <<>>
     /\ out' = [out EXCEPT ![c] = Tail(@)]
     /\ received' = [received EXCEPT ![c] =
                       IF frame.kind = "attached" \/ (frame.kind = "output" /\ fresh)
                         THEN frame.seq ELSE @]
     /\ inbox' = [inbox EXCEPT ![c] = IF shown THEN Append(@, frame) ELSE @]
     /\ rendered' = [rendered EXCEPT ![c] =
                       IF frame.kind = "reset" /\ c \in Terminals THEN 0 ELSE @]
     /\ UNCHANGED <<session, flushing, handles, link, requests, committed, screen, snapshot, drops>>

\* xterm's write loop, once it has serialized the screen: one write may be queued
\* behind the empty one, of live frames or of a replayed one, and its callback
\* runs in the same loop.  A reset, or a frame without text, is not written.
LoopWrites(c, frame) ==
  \/ Idle(c)
  \/ frame.body # <<>> /\ frame.kind = "output" /\ snapshot[c].stage \in {"serialized", "output"}
  \/ frame.body # <<>> /\ frame.kind = "replay" /\ snapshot[c].stage = "serialized"

\* flushPendingWrites + drainCommittedOutput (terminals), the Web bridge's
\* publish queue (observers), and PtyHostSocket.acknowledge.
Commits(c, frame) ==
  IF c \in Terminals THEN frame.kind # "reset" /\ ~Stale(c) ELSE frame.kind = "output"

Commit(c) ==
  LET frame == Head(inbox[c])
      advance(n) == IF Commits(c, frame) /\ frame.seq > n THEN frame.seq ELSE n
  IN /\ inbox[c] # <<>> /\ LoopWrites(c, frame)
     /\ inbox' = [inbox EXCEPT ![c] = Tail(@)]
     /\ screen' = [screen EXCEPT ![c] =
                     IF frame.kind = "reset" THEN <<>> ELSE @ \o frame.body]
     /\ rendered' = [rendered EXCEPT ![c] = IF c \in Terminals THEN advance(@) ELSE @]
     /\ committed' = [committed EXCEPT ![c] = advance(@)]
     /\ requests' = [requests EXCEPT ![c] =
                       IF Commits(c, frame) /\ frame.seq > 0 /\ frame.body # <<>> /\ Open(c)
                         THEN Append(@, AckRequest(frame.seq)) ELSE @]
     /\ snapshot' = [snapshot EXCEPT ![c].stage = IF Idle(c) THEN @ ELSE frame.kind]
     /\ UNCHANGED <<session, flushing, handles, out, link, received, drops>>

\* flushSnapshotPass: one checkpoint in flight.  The callback of an empty write
\* serializes the screen (serializeTerminalAfterWrite) ...
Serialize(c) ==
  /\ CheckpointReplay /\ c \in Terminals /\ Open(c) /\ Idle(c)
  /\ \A i \in DOMAIN requests[c] : requests[c][i].kind # "checkpoint"
  /\ \/ link[c] = "up"
     \/ link[c] = "connected" /\ drops[c] < MaxDrops
  /\ snapshot' = [snapshot EXCEPT ![c] = [stage |-> "serialized", body |-> screen[c]]]
  /\ UNCHANGED <<session, flushing, handles, out, link, requests, received, committed, rendered,
                 inbox, screen, drops>>

\* History: the chunks written since the screen was serialized.
Late(c) == {screen[c][i] : i \in {j \in DOMAIN screen[c] : j > Len(snapshot[c].body)}}

\* ... and when xterm's loop is over, and before any other handler of the page,
\* the await returns: the number is what has been committed by now.  The upload
\* may go out on a new connection before the attach does; the daemon then ends
\* the connection, so that case is bounded like a drop.
SendCheckpoint(c) ==
  /\ ~Idle(c)
  /\ snapshot' = [snapshot EXCEPT ![c] = NoSnapshot]
  /\ requests' = [requests EXCEPT ![c] =
                    IF Open(c) THEN Append(@, CheckpointRequest(rendered[c], snapshot[c].body, Late(c)))
                    ELSE @]
  /\ UNCHANGED <<session, flushing, handles, out, link, received, committed, rendered, inbox,
                 screen, drops>>

\* The connection is lost (heartbeat timeout, transport error, sleep) ...
Drop(c) ==
  /\ flushing = Nobody
  /\ Open(c) /\ Idle(c) /\ drops[c] < MaxDrops
  /\ drops' = [drops EXCEPT ![c] = @ + 1]
  /\ CloseWriters({c}, "down")
  /\ ClearFlow(c)
  /\ UNCHANGED <<session, flushing, viewers>>

\* ... or the daemon closed it and the client notices.
NoticeClose(c) ==
  /\ link[c] = "closing" /\ Idle(c)
  /\ link' = [link EXCEPT ![c] = "down"]
  /\ drops' = [drops EXCEPT ![c] = @ + 1]
  /\ UNCHANGED <<session, flushing, handles, out, requests, viewers>>

\* connect(): a new authenticated connection, not attached to anything.
Connect(c) ==
  /\ link[c] = "down" /\ Idle(c)
  /\ link' = [link EXCEPT ![c] = "connected"]
  /\ UNCHANGED <<session, flushing, handles, out, requests, viewers, drops>>

\* reconnectAttachedSessions / attach: resume after what was committed.
SendAttach(c) ==
  /\ link[c] = "connected" /\ Idle(c)
  /\ link' = [link EXCEPT ![c] = "up"]
  /\ received' = [received EXCEPT ![c] = committed[c]]
  /\ requests' = [requests EXCEPT ![c] = Append(@, AttachRequest(committed[c]))]
  /\ UNCHANGED <<session, flushing, handles, out, committed, rendered, inbox, screen,
                 snapshot, drops>>

-----------------------------------------------------------------------------
DaemonStep(c) ==
  \/ HandleAttach(c) \/ AttachReply(c) \/ CompleteAttach(c)
  \/ HandleAck(c) \/ FlushSend(c) \/ FlushEnd(c) \/ HandleCheckpoint(c)
ClientStep(c) ==
  Deliver(c) \/ Commit(c) \/ NoticeClose(c) \/ Connect(c) \/ SendAttach(c)
Checkpointing(c) == Serialize(c) \/ SendCheckpoint(c)

Next ==
  \/ Emit \/ Resize
  \/ \E c \in Clients : DaemonStep(c) \/ ClientStep(c) \/ Checkpointing(c) \/ Drop(c)

\* The threads of the daemon, the writer threads, the render loop and the
\* reconnect timer keep running; nothing obliges the PTY to produce output,
\* the user to resize, the snapshot timer to fire or a connection to break.  A
\* handler of a client only waits while a serialized screen is being numbered,
\* which takes one run of xterm's loop every ten seconds: however often that
\* happens, some handler that is ready has its turn.
Fairness ==
  \A c \in Clients :
    /\ WF_vars(HandleAttach(c)) /\ WF_vars(AttachReply(c)) /\ WF_vars(CompleteAttach(c))
    /\ WF_vars(HandleAck(c)) /\ WF_vars(FlushSend(c) \/ FlushEnd(c))
    /\ WF_vars(HandleCheckpoint(c))
    /\ SF_vars(ClientStep(c)) /\ WF_vars(SendCheckpoint(c))

Spec == Init /\ [][Next]_vars
FairSpec == Spec /\ Fairness
-----------------------------------------------------------------------------
(* Properties. *)

Frames == [kind : {"reset", "replay", "output", "attached"}, seq : Nat, body : Seq(Nat)]
Requests ==
  [kind : {"attach", "ack", "checkpoint"}, seq : Nat, body : Seq(Nat), late : SUBSET Nat]
Snapshots == [stage : {"none", "serialized", "output", "replay"}, body : Seq(Nat)]

\* The types of the variables; the daemon keeps only sequence numbers it has
\* given out, and has none of a client's beyond them; only terminals serialize.
SessionTypeOK ==
  /\ nextSeq \in Nat \ {0}
  /\ outputs \subseteq 1..LatestSeq
  /\ retained \subseteq 1..LatestSeq
  /\ checkpoint = NoCheckpoint \/ checkpoint \in [seq : 0..LatestSeq, body : Seq(Nat), late : SUBSET Nat]
HandlesTypeOK ==
  /\ flushing \in Clients \cup {Nobody}
  /\ attached \in [Clients -> BOOLEAN]
  /\ attaching \in [Clients -> BOOLEAN]
  /\ paused \in [Clients -> BOOLEAN]
  /\ unack \in [Clients -> Nat]
  /\ lastSent \in [Clients -> 0..LatestSeq]
  /\ lastAcked \in [Clients -> Nat]
ChannelsTypeOK ==
  /\ held \in [Clients -> Seq(Frames)]
  /\ reply \in [Clients -> Seq(Frames)]
  /\ out \in [Clients -> Seq(Frames)]
  /\ requests \in [Clients -> Seq(Requests)]
  /\ link \in [Clients -> {"down", "connected", "up", "closing"}]
ViewersTypeOK ==
  /\ received \in [Clients -> Nat]
  /\ committed \in [Clients -> Nat]
  /\ rendered \in [Clients -> Nat]
  /\ inbox \in [Clients -> Seq(Frames)]
  /\ screen \in [Clients -> Seq(Nat)]
  /\ snapshot \in [Clients -> Snapshots]
  /\ \A c \in Clients : snapshot[c].stage # "none" => CheckpointReplay /\ c \in Terminals
TypeOK == SessionTypeOK /\ HandlesTypeOK /\ ChannelsTypeOK /\ ViewersTypeOK /\ drops \in [Clients -> Nat]

\* The window is never lost: the characters the daemon counts as
\* unacknowledged are exactly those of the live frames still held, queued, in
\* the terminal's inbox or acknowledged in a message on its way.  A frame a
\* filter drops without an ACK, or one acknowledged twice, breaks it, and the
\* client would stall, or be flooded, for good.
Unacked(c, q) ==
  Cardinality({i \in DOMAIN q : q[i].kind \in {"output", "ack"} /\ q[i].seq > lastAcked[c]})
CreditConservation ==
  \A c \in Clients : attached[c] =>
    unack[c] = Unacked(c, held[c]) + Unacked(c, out[c]) + Unacked(c, inbox[c])
                 + Unacked(c, requests[c])

\* No lost wake-up: a paused client owes more than the low watermark, so ACKs
\* that will reopen its window are still to come (acknowledge_output only looks
\* at the pause when an ACK arrives, nothing else ever reopens it).
PausedOwesMore ==
  \A c \in Clients : attached[c] /\ paused[c] /\ flushing # c => unack[c] > Low

\* A client that is not paused has been sent all the output there is: the next
\* chunk queued to it continues the stream (the comment in
\* flush_buffered_output_locked: a truncated stream is never appended).
UnpausedIsCurrent ==
  \A c \in Clients :
    attached[c] /\ ~paused[c] => \A o \in outputs : o <= lastSent[c]

\* The live stream skips nothing: when a live frame is received, no chunk of
\* output lies between it and the one received before it.  Holds while only
\* this client checkpoints; the flush refuses to send across a gap.
NoChunkSkipped ==
  [][\A c \in Clients :
       out[c] # <<>> /\ Head(out[c]).kind = "output" /\ received'[c] > received[c] =>
         \A o \in outputs : o <= received[c] \/ o >= received'[c]]_vars

\* What a terminal that has lost at most one connection displays is a run of the
\* output with no chunk missing, repeated or out of order.  With a second loss
\* this is no longer so: committed is not set back by a reset, so a connection
\* that is lost before a replay is complete is resumed after output that the
\* reset has cleared (PtyHostSocket.ts:1013).
Run(s) == s # <<>> => s = Sorted({o \in outputs : s[1] <= o /\ o <= Last(s)})
ScreenContiguous == \A c \in Terminals : drops[c] <= 1 => Run(screen[c])

\* What keeps the live stream whole while clients pause, frames are evicted and
\* checkpoints come in: three facts that are inductive together.
\* A chunk of output is covered by the checkpoint, retained, or older than
\* everything retained (evicted).
OutputKept ==
  \A o \in outputs :
    \/ o <= checkpoint.seq
    \/ o \in retained
    \/ retained # {} /\ \A r \in retained : o < r
\* A flush is only under way for a paused client whose stream the retained
\* frames continue.
FlushContinues ==
  \A c \in Clients : flushing = c =>
    /\ attached[c] /\ ~attaching[c] /\ paused[c]
    /\ retained # {} => \E q \in retained : q <= lastSent[c] + 1
\* A client that is not paused, or for which every chunk is held, has been sent
\* all the output there is, except what a checkpoint newer than the last frame
\* sent to it has replaced.
SentOrSkipped ==
  \A c \in Clients : attached[c] /\ (attaching[c] \/ ~paused[c]) =>
    \A o \in outputs : o <= lastSent[c] \/ lastSent[c] < checkpoint.seq
StreamInv == OutputKept /\ FlushContinues /\ SentOrSkipped

\* With nothing evicted and no terminal disconnected, the checkpoint and the
\* retained frames rebuild the output, in order and each chunk once, but for
\* the chunks that were written behind its serialization, which the number of the
\* checkpoint covers and its body lacks (sessionSnapshotPersistence.ts:185,
\* TerminalProcessManager.ts:187).  After a lost connection this is no longer so:
\* from the reset that has been received to its writing, a checkpoint labels the
\* old screen with sequence number 0 (TerminalProcessManager.ts:310).  Nor is it
\* with two terminals: one is not sent what the other's checkpoint covers, and
\* its own next checkpoint lacks it.
RebuildComplete ==
  nextSeq <= Retain + 1 /\ (\A c \in Terminals : drops[c] = 0) =>
    checkpoint.body \o Sorted(retained \cap outputs) = Sorted(outputs \ checkpoint.late)

\* Nothing is stuck: once the PTY is quiet and connections hold, every client
\* shows the last chunk of output.
CaughtUp ==
  <>[](\A c \in Clients : outputs # {} =>
         screen[c] # <<>> /\ \A o \in outputs : o <= Last(screen[c]))

\* The terminals are readers of one append-only log (StreamReader).
Reader == INSTANCE StreamReader WITH
  Readers <- Terminals,
  log <- Sorted(outputs),
  view <- [c \in Terminals |-> screen[c]]
ImplementsReader == Reader!Spec
=============================================================================
