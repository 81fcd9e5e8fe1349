------------------------------ MODULE WebMirror ------------------------------
(***************************************************************************)
(* A terminal mirrored in a browser: from the PTY daemon, through the      *)
(* desktop's Web bridge (useWebDeviceBridge.ts), the outbox of the device  *)
(* connection and the relay server, to the page that draws it              *)
(* (useAppModel.ts, terminalStream.ts, WebTerminal.tsx).                   *)
(*                                                                         *)
(* The bridge subscribes to the session, collects frames, cuts them into   *)
(* numbered chunks and publishes these one at a time.  Nothing is stored   *)
(* on the way: a browser that loses its connection, or sees the device     *)
(* come back, asks the bridge to attach again after the last frame it has  *)
(* drawn, and the daemon replays.  Three numbers filter what arrives: the  *)
(* chunk number, the frame number, and the pieces of a frame.              *)
(*                                                                         *)
(* A frame of output is its sequence number.  A frame in Big is cut into   *)
(* two pieces (batchWebTerminalFrames cuts at 48 KiB); a screen is the     *)
(* sequence of the pieces drawn since it was last cleared.                 *)
(***************************************************************************)
EXTENDS Integers, Sequences, FiniteSets, SequencesExt, Functions

CONSTANTS
  Browsers,   \* the pages that may show the terminal
  Big,        \* sequence numbers of the frames that are cut into two pieces
  BatchMax,   \* webTerminalBatchKiB, in pieces
  OutboxMax,  \* the send queue of the device connection, in chunks
  BufferMax,  \* MAX_BUFFERED_CHUNKS
  MaxSeq,     \* bound: the PTY produces at most MaxSeq frames
  MaxFaults,  \* bound: how many faults happen altogether
  Limits      \* bound: how often each fault happens

Faults == {"link", "refused", "device", "browser", "giveup", "evict", "overflow",
           "leave", "reload"}

ASSUME MirrorAssumption ==
  /\ IsFiniteSet(Browsers) /\ Big \subseteq Nat \ {0}
  /\ BatchMax \in Nat \ {0} /\ OutboxMax \in Nat \ {0} /\ BufferMax \in Nat \ {0}
  /\ MaxSeq \in Nat /\ MaxFaults \in Nat /\ Limits \in [Faults -> Nat]

VARIABLES
  produced,   \* the last sequence number the PTY has produced
  oldest,     \* the oldest one the daemon retains
  subscribed, \* the daemon sends live output to the bridge's connection
  pipe,       \* frames between the daemon and the bridge
  bridge,     \* terminalBridges: "none", "opening" (its first attach), "up"
  retry,      \* its PtyHostSocket's reconnectTimer is set
  awaiting,   \* an attach command waits for its answer
  pending,    \* pendingFrames, already cut into pieces
  failed,     \* outputFailed
  chunks,     \* terminalOutputSequences: the last chunk number given
  publish,    \* publishQueue
  committed,  \* PtyHostSocket.latestCommittedSequence of the bridge's connection
  queued,     \* history: frames whose last piece this generation has put in the outbox
  attaches,   \* history: attach commands the bridge has taken
  outbox, deviceUp,       \* the send queue of the device connection
  commands,   \* terminal commands the bridge has not taken
  online,     \* the page has a connection
  mode,       \* its terminal: "closed", "open" (a tab), "mounted" (WebTerminal listens)
  waiting,    \* chunks that TerminalStream has buffered
  reading,    \* the pieces that flush has not handled
  last,       \* lastChunkSequence
  view,       \* partialFrames, acceptedSequence, replayFrames
  paint,      \* renderQueue
  rendered,   \* SessionStream.rendered
  screen,     \* what the terminal displays
  faults      \* how often each fault has happened

daemon == <<produced, oldest, subscribed, pipe>>
bridging == <<bridge, retry, awaiting, pending, failed, chunks, publish, committed, queued,
              attaches>>
device == <<outbox, deviceUp, commands>>
drawing == <<paint, rendered, screen>>
page == <<mode, waiting, reading, last, view, drawing>>
vars == <<daemon, bridging, device, online, page, faults>>

-----------------------------------------------------------------------------
(* Frames, pieces and chunks. *)

Frame(kind, s) == [kind |-> kind, seq |-> s]
Reset == Frame("reset", 0)
\* The empty replay frame of an "attached" answer: to a command, or to Relink.
End(command) == Frame(IF command THEN "attached" ELSE "relinked", 0)
Ends(f) == f.kind \in {"attached", "relinked"}
Count(s) == IF s \in Big THEN 2 ELSE 1
Piece(f, i) ==
  [kind |-> f.kind, seq |-> f.seq, start |-> i = 1, end |-> i = Count(f.seq)]
PiecesOf(f) == [i \in 1..Count(f.seq) |-> Piece(f, i)]

Max2(a, b) == IF a >= b THEN a ELSE b

\* batchWebTerminalFrames: the pieces in order, BatchMax to a chunk.
Batches(pieces) ==
  LET n == (Len(pieces) + BatchMax - 1) \div BatchMax
  IN [k \in 1..n |-> SubSeq(pieces, (k - 1) * BatchMax + 1,
                            IF k = n THEN Len(pieces) ELSE k * BatchMax)]

\* acknowledgements: the live frames whose last piece is in the batch.
Acks(pieces) ==
  {pieces[i].seq : i \in {j \in DOMAIN pieces : pieces[j].kind = "output" /\ pieces[j].end}}

\* websocket_attached_frames, as the daemon answers an attach (PtyStream).
ReplayReset(after) == after = 0 \/ after + 1 < oldest
AttachedFrames(after, command) ==
  LET from == IF ReplayReset(after) THEN oldest ELSE Max2(oldest, after + 1)
  IN (IF ReplayReset(after) THEN <<Reset>> ELSE <<>>)
       \o [i \in 1..Max2(0, produced - from + 1) |-> Frame("replay", from + i - 1)]
       \o <<End(command)>>

-----------------------------------------------------------------------------
NewView == [partial |-> <<>>, accepted |-> 0, replaying |-> FALSE, replay |-> <<>>]
Happens(f) ==
  /\ faults[f] < Limits[f] /\ FoldFunction(+, 0, faults) < MaxFaults
  /\ faults' = [faults EXCEPT ![f] = @ + 1]

Init ==
  /\ produced = 0 /\ oldest = 1 /\ subscribed = FALSE /\ pipe = <<>>
  /\ bridge = "none" /\ retry = FALSE /\ awaiting = FALSE /\ pending = <<>> /\ failed = FALSE
  /\ chunks = 0 /\ publish = <<>> /\ committed = 0 /\ queued = {}
  /\ attaches = 0
  /\ outbox = <<>> /\ deviceUp = TRUE /\ commands = <<>>
  /\ online = [b \in Browsers |-> FALSE]
  /\ mode = [b \in Browsers |-> "closed"]
  /\ waiting = [b \in Browsers |-> <<>>]
  /\ reading = [b \in Browsers |-> <<>>]
  /\ last = [b \in Browsers |-> 0]
  /\ view = [b \in Browsers |-> NewView]
  /\ paint = [b \in Browsers |-> <<>>]
  /\ rendered = [b \in Browsers |-> 0]
  /\ screen = [b \in Browsers |-> <<>>]
  /\ faults = [f \in Faults |-> 0]

-----------------------------------------------------------------------------
(* The daemon.  It answers an attach at once: what it produces between the     *)
(* request and the answer it might as well have produced before the request.   *)

\* A chunk read from the PTY goes to the bridge's connection once it is attached.
Produce ==
  /\ produced < MaxSeq
  /\ produced' = produced + 1
  /\ pipe' = IF subscribed THEN Append(pipe, Frame("output", produced + 1)) ELSE pipe
  /\ UNCHANGED <<oldest, subscribed, bridging, device, online, page, faults>>

\* SessionBuffer gives up its oldest frame; the newest is always retained.
Evict ==
  /\ oldest < produced /\ Happens("evict")
  /\ oldest' = oldest + 1
  /\ UNCHANGED <<produced, subscribed, pipe, bridging, device, online, page>>

Attach(after, command) ==
  /\ pipe' = pipe \o AttachedFrames(after, command)
  /\ subscribed' = TRUE

-----------------------------------------------------------------------------
(* The bridge. *)

\* restartOutput: what has not been handed over is skipped, what has is not
\* recalled but no longer acknowledges anything.
Handed(queue) == IF queue # <<>> /\ Head(queue).handed THEN <<Head(queue)>> ELSE <<>>
\* Wrong variant, rejected by the properties: the retired queue still acknowledges.
DisownNothing(queue) == Handed(queue)
Disown(queue) ==
  [i \in DOMAIN Handed(queue) |-> [Handed(queue)[i] EXCEPT !.current = FALSE]]
RestartOutput ==
  /\ pending' = <<>> /\ failed' = FALSE /\ queued' = {}
  /\ publish' = Disown(publish)

\* attachWebTerminal, called by drainTerminalCommands one command at a time.
TakeAttach ==
  /\ commands # <<>> /\ ~awaiting
  /\ Head(commands).type = "attach"
  /\ commands' = Tail(commands)
  /\ Attach(Head(commands).after, TRUE)
  /\ attaches' = attaches + 1
  /\ bridge' = IF bridge = "none" THEN "opening" ELSE "up"
  /\ awaiting' = TRUE
  /\ RestartOutput
  /\ UNCHANGED <<produced, oldest, retry, chunks, committed, outbox, deviceUp, online, page, faults>>

\* socket.connect fails for a new bridge: the commands taken with this one are
\* dropped with it.
Refused ==
  /\ commands # <<>> /\ ~awaiting
  /\ Head(commands).type = "attach" /\ bridge = "none"
  /\ Happens("refused")
  /\ \E n \in 1..Len(commands) : commands' = SubSeq(commands, n + 1, Len(commands))
  /\ UNCHANGED <<daemon, bridging, outbox, deviceUp, online, page>>

\* The bridge is gone with its connection, whichever page asked.
Dispose ==
  /\ bridge' = "none" /\ retry' = FALSE /\ awaiting' = FALSE /\ committed' = 0
  /\ RestartOutput
  /\ pipe' = <<>> /\ subscribed' = FALSE

TakeDetach ==
  /\ commands # <<>> /\ ~awaiting
  /\ Head(commands).type = "detach"
  /\ commands' = Tail(commands)
  /\ Dispose
  /\ UNCHANGED <<produced, oldest, chunks, attaches, outbox, deviceUp, online, page, faults>>

\* subscribeOutput's listener.  The end of a replay is also the answer that the
\* attach command waits for.
Collect ==
  /\ pipe # <<>>
  /\ pipe' = Tail(pipe)
  /\ pending' = IF failed THEN pending ELSE pending \o PiecesOf(Head(pipe))
  /\ IF Head(pipe) = End(TRUE)
       THEN awaiting' = FALSE /\ bridge' = "up"
       ELSE UNCHANGED <<awaiting, bridge>>
  /\ UNCHANGED <<produced, oldest, subscribed, retry, failed, chunks, publish, committed,
                 queued, attaches, device, online, page, faults>>

\* flush, 16 ms after the first frame was collected.
Flush ==
  /\ pending # <<>>
  /\ pending' = <<>>
  /\ LET batches == Batches(pending)
     IN /\ chunks' = chunks + Len(batches)
        /\ publish' = publish \o
             [k \in DOMAIN batches |-> [seq |-> chunks + k, pieces |-> batches[k],
                                        handed |-> FALSE, current |-> TRUE]]
  /\ UNCHANGED <<daemon, bridge, retry, awaiting, failed, committed, queued, attaches, device, online,
                 page, faults>>

\* The publish queue hands one chunk at a time to WebDeviceOutbox::push.
\* Wrong variant, rejected by the properties: what follows a lost chunk is sent.
RunsAlways == TRUE
Runs == ~failed
Admit ==
  /\ publish # <<>> /\ ~Head(publish).handed /\ Runs /\ Len(outbox) < OutboxMax
  /\ outbox' = Append(outbox, [seq |-> Head(publish).seq, pieces |-> Head(publish).pieces])
  /\ publish' = [publish EXCEPT ![1].handed = TRUE]
  /\ queued' = queued \cup Acks(Head(publish).pieces)
  /\ UNCHANGED <<daemon, bridge, retry, awaiting, pending, failed, chunks, committed, attaches,
                 deviceUp, commands, online, page, faults>>

\* The answer arrives: only a current chunk acknowledges its frames.
PublishDone ==
  LET chunk == Head(publish)
  IN /\ publish # <<>> /\ chunk.handed
     /\ publish' = Tail(publish)
     /\ committed' \in (IF chunk.current THEN Acks(chunk.pieces) ELSE {}) \cup {committed}
     /\ \A n \in Acks(chunk.pieces) \cup {committed} : chunk.current => n <= committed'
     /\ UNCHANGED <<daemon, bridge, retry, awaiting, pending, failed, chunks, queued, attaches, device,
                    online, page, faults>>

\* The outbox stays full until the retries are used up (a retry is no step): the
\* stream has failed, and the chunks behind this one are skipped when their turn
\* comes (Runs); only an attach starts the stream again.
GiveUp ==
  /\ publish # <<>> /\ ~Head(publish).handed /\ ~failed /\ Len(outbox) >= OutboxMax
  /\ Happens("giveup")
  /\ failed' = TRUE /\ publish' = Tail(publish)
  /\ UNCHANGED <<daemon, bridge, retry, awaiting, pending, chunks, committed, queued, attaches, device,
                 online, page>>

\* The bridge's connection to the daemon is lost.  A first attach under way
\* fails and removes the bridge, otherwise the reconnect timer is set.
LinkDrop ==
  /\ subscribed /\ Happens("link")
  /\ IF bridge = "opening"
       THEN Dispose /\ UNCHANGED attaches
       ELSE /\ retry' = TRUE /\ awaiting' = FALSE /\ pipe' = <<>> /\ subscribed' = FALSE
            /\ UNCHANGED <<bridge, committed, pending, failed, queued, publish, attaches>>
  /\ UNCHANGED <<produced, oldest, chunks, device, online, page>>

\* reconnectAttachedSessions: resume after the last acknowledged frame, also when
\* an attach has opened the connection in the meantime.
Relink ==
  /\ retry /\ retry' = FALSE
  /\ Attach(committed, FALSE)
  /\ UNCHANGED <<produced, oldest, bridge, awaiting, pending, failed, chunks, publish,
                 committed, queued, attaches, device, online, page, faults>>

\* The desktop's window is reloaded: the bridge and the chunk numbers live in
\* its memory, the device connection and its commands do not.
Reload ==
  /\ Happens("reload")
  /\ Dispose /\ chunks' = 0
  /\ UNCHANGED <<produced, oldest, attaches, device, online, page>>

-----------------------------------------------------------------------------
(* The page. *)

\* One piece, as the loop of WebTerminal's flush handles it.  A reset starts a
\* replay that is drawn only when it is complete; a frame is drawn only when
\* its last piece is there.
Entry(p, clear) ==
  [clear |-> clear, body |-> IF p.seq = 0 THEN <<>> ELSE <<[seq |-> p.seq, start |-> p.start]>>,
   seq |-> IF p.end THEN p.seq ELSE 0]
Continues(v, p) ==
  IF p.start \/ (v.partial # <<>> /\ (v.partial[1].seq # p.seq \/ v.partial[1].kind # p.kind))
    THEN <<>> ELSE v.partial
\* Wrong variant, rejected by the properties: frames are not filtered by their number.
RepeatedNever(v, p) == FALSE
Repeated(v, p) == p.seq > 0 /\ p.seq <= v.accepted
\* The view after a piece ...
TakePiece(v, p) ==
  LET whole == Append(Continues(v, p), p)
      complete == [v EXCEPT !.partial = <<>>, !.accepted = Max2(@, p.seq)]
  IN IF p.kind = "reset" THEN [NewView EXCEPT !.replaying = TRUE]
     ELSE IF Repeated(v, p) THEN [v EXCEPT !.partial = Continues(v, p)]
     ELSE IF ~p.end THEN [v EXCEPT !.partial = whole]
     ELSE IF v.replaying /\ ~Ends(p) THEN [complete EXCEPT !.replay = v.replay \o whole]
     ELSE [complete EXCEPT !.replaying = FALSE, !.replay = <<>>]
\* ... and what it gives to the render queue.  The empty frame at the end of a
\* replay only counts when it is the whole replay.
Shown(v, p) ==
  LET whole == IF Ends(p) /\ ~(v.replaying /\ v.replay = <<>>) THEN <<>>
               ELSE Append(Continues(v, p), p)
      batch == IF v.replaying THEN v.replay \o whole ELSE whole
  IN IF p.kind = "reset" \/ Repeated(v, p) \/ ~p.end \/ (v.replaying /\ ~Ends(p)) THEN <<>>
     ELSE [i \in DOMAIN batch |-> Entry(batch[i], v.replaying /\ i = 1)]

\* flush, one piece.
Read(b) ==
  /\ reading[b] # <<>>
  /\ reading' = [reading EXCEPT ![b] = Tail(@)]
  /\ view' = [view EXCEPT ![b] = TakePiece(@, Head(reading[b]))]
  /\ paint' = [paint EXCEPT ![b] = @ \o Shown(view[b], Head(reading[b]))]
  /\ UNCHANGED <<daemon, bridging, device, online, mode, waiting, last, rendered, screen, faults>>

\* flush_outbound, broadcast_browser, and onMessage of every page that is
\* connected and shows the terminal: TerminalStream.publish.  A chunk on its way
\* is lost with the connection, as is one sent while there is none.  WebTerminal
\* skips a chunk whose number it has seen.
\* Wrong variant, rejected by the properties: one too many is kept.
NewestPlusOne(s) == SubSeq(s, Max2(1, Len(s) - BufferMax), Len(s))
Newest(s) == SubSeq(s, Max2(1, Len(s) - BufferMax + 1), Len(s))
Buffers(b) == online[b] /\ mode[b] = "open"
Listens(b) == online[b] /\ mode[b] = "mounted" /\ Head(outbox).seq > last[b]
Send ==
  LET chunk == Head(outbox)
  IN /\ deviceUp /\ outbox # <<>>
     /\ outbox' = Tail(outbox)
     /\ waiting' = [b \in Browsers |-> IF Buffers(b) THEN Newest(Append(waiting[b], chunk))
                                       ELSE waiting[b]]
     /\ reading' = [b \in Browsers |-> IF Listens(b) THEN chunk.pieces ELSE reading[b]]
     /\ last' = [b \in Browsers |-> IF Listens(b) THEN chunk.seq ELSE last[b]]
     /\ IF \E b \in Browsers : Buffers(b) /\ Len(waiting[b]) >= BufferMax
          THEN Happens("overflow") ELSE UNCHANGED faults
     /\ UNCHANGED <<daemon, bridging, deviceUp, commands, online, mode, view, drawing>>

\* The effect of WebTerminal starts: it subscribes and takes what is buffered.
Mount(b) ==
  /\ mode[b] = "open"
  /\ mode' = [mode EXCEPT ![b] = "mounted"]
  /\ UNCHANGED <<daemon, bridging, device, online, waiting, reading, last, view, drawing, faults>>

\* flush: the next of these chunks.
Unpack(b) ==
  /\ mode[b] = "mounted" /\ waiting[b] # <<>> /\ reading[b] = <<>>
  /\ waiting' = [waiting EXCEPT ![b] = Tail(@)]
  /\ LET chunk == Head(waiting[b])
     IN IF chunk.seq <= last[b] THEN UNCHANGED <<reading, last>>
        ELSE /\ reading' = [reading EXCEPT ![b] = chunk.pieces]
             /\ last' = [last EXCEPT ![b] = chunk.seq]
  /\ UNCHANGED <<daemon, bridging, device, online, mode, view, drawing, faults>>

\* drain: xterm has parsed the entry, markRendered.
Draw(b) ==
  /\ paint[b] # <<>>
  /\ LET entry == Head(paint[b])
     IN /\ paint' = [paint EXCEPT ![b] = Tail(@)]
        /\ screen' = [screen EXCEPT ![b] = (IF entry.clear THEN <<>> ELSE @) \o entry.body]
        /\ rendered' = [rendered EXCEPT ![b] = Max2(@, entry.seq)]
  /\ UNCHANGED <<daemon, bridging, device, online, mode, waiting, reading, last, view, faults>>

\* sendTerminal: the server forwards a command to a device that is connected.
AttachFrom(after) == [type |-> "attach", after |-> after]
SendCommands(s) == commands' = IF deviceUp THEN commands \o s ELSE commands

\* connectBrowserSocket: connected and "ready"; an open terminal is attached
\* again after the last frame drawn (0: everything).
Ready(b) ==
  /\ ~online[b]
  /\ online' = [online EXCEPT ![b] = TRUE]
  /\ SendCommands(IF mode[b] = "closed" THEN <<>> ELSE <<AttachFrom(rendered[b])>>)
  /\ UNCHANGED <<daemon, bridging, outbox, deviceUp, page, faults>>

\* attachTerminal: a new tab.
Open(b) ==
  /\ online[b] /\ mode[b] = "closed"
  /\ mode' = [mode EXCEPT ![b] = "open"]
  /\ SendCommands(<<AttachFrom(0)>>)
  /\ UNCHANGED <<daemon, bridging, outbox, deviceUp, online, waiting, reading, last, view,
                 drawing, faults>>

\* detachTerminal: the tab and its WebTerminal are gone.
Leave(b) ==
  /\ online[b] /\ mode[b] # "closed" /\ Happens("leave")
  /\ mode' = [mode EXCEPT ![b] = "closed"]
  /\ waiting' = [waiting EXCEPT ![b] = <<>>] /\ reading' = [reading EXCEPT ![b] = <<>>]
  /\ last' = [last EXCEPT ![b] = 0]
  /\ view' = [view EXCEPT ![b] = NewView] /\ paint' = [paint EXCEPT ![b] = <<>>]
  /\ rendered' = [rendered EXCEPT ![b] = 0] /\ screen' = [screen EXCEPT ![b] = <<>>]
  /\ SendCommands(<<[type |-> "detach", after |-> 0]>>)
  /\ UNCHANGED <<daemon, bridging, outbox, deviceUp, online>>

BrowserDrop(b) ==
  /\ online[b] /\ Happens("browser")
  /\ online' = [online EXCEPT ![b] = FALSE]
  /\ UNCHANGED <<daemon, bridging, device, page>>

-----------------------------------------------------------------------------
(* The device connection. *)

\* It breaks: the last chunks written to it never arrive at the server, the
\* last commands never at the bridge.
DeviceDrop ==
  /\ deviceUp /\ Happens("device")
  /\ deviceUp' = FALSE
  /\ \E n \in 0..Len(outbox) : outbox' = SubSeq(outbox, n + 1, Len(outbox))
  /\ \E n \in 0..Len(commands) : commands' = SubSeq(commands, 1, n)
  /\ UNCHANGED <<daemon, bridging, online, page>>

\* It is established again; the server announces the device, and every page that
\* shows the terminal attaches again.
\* Wrong variant, rejected by the properties: no page attaches again.
AnnouncedNobody == {}
Announced == {b \in Browsers : online[b] /\ mode[b] # "closed"}
DeviceUp ==
  /\ ~deviceUp /\ deviceUp' = TRUE
  /\ \E order \in SetToSeqs(Announced) :
       commands' = commands \o [i \in DOMAIN order |-> AttachFrom(rendered[order[i]])]
  /\ UNCHANGED <<daemon, bridging, outbox, online, page, faults>>

-----------------------------------------------------------------------------
BridgeStep ==
  TakeAttach \/ TakeDetach \/ Collect \/ Flush \/ Admit \/ PublishDone \/ Relink
Fault ==
  \/ Evict \/ GiveUp \/ Refused \/ LinkDrop \/ Reload \/ DeviceDrop
  \/ \E b \in Browsers : BrowserDrop(b) \/ Leave(b)

\* flush is one synchronous loop: nothing else of the page runs in between, and
\* what runs elsewhere meanwhile might as well run before or after.
Idle ==
  \A b \in Browsers : reading[b] = <<>> /\ (mode[b] = "mounted" => waiting[b] = <<>>)

\* What the program does by itself.
Progress ==
  \/ \E b \in Browsers : Unpack(b) \/ Read(b)
  \/ Idle /\ (\/ BridgeStep \/ Send \/ DeviceUp
              \/ \E b \in Browsers : Ready(b) \/ Mount(b) \/ Draw(b))

Next == Progress \/ (Idle /\ (Produce \/ Fault \/ \E b \in Browsers : Open(b)))

Spec == Init /\ [][Next]_vars
\* The connections, the bridge and the pages do not stop; the PTY may be silent,
\* nobody has to open a terminal, and no fault has to happen.
FairSpec == Spec /\ WF_vars(Progress)
-----------------------------------------------------------------------------
(* Properties. *)

Marks == {"reset", "attached", "relinked"}
Kinds == Marks \cup {"replay", "output"}
FrameSet == {f \in [kind : Kinds, seq : Nat] : f.seq = 0 <=> f.kind \in Marks}
PieceSet ==
  {p \in [kind : Kinds, seq : Nat, start : BOOLEAN, end : BOOLEAN] :
     /\ p.seq = 0 <=> p.kind \in Marks
     /\ IF p.seq \in Big THEN p.start = ~p.end ELSE p.start /\ p.end}
ChunkSet == [seq : Nat, pieces : Seq(PieceSet)]
ShapeSet == [seq : Nat, start : BOOLEAN]
EntrySet == {e \in [clear : BOOLEAN, body : Seq(ShapeSet), seq : Nat] : Len(e.body) <= 1}

\* The types of the variables; a page that has not started to draw buffers no
\* more than MAX_BUFFERED_CHUNKS.
TypeOK ==
  /\ produced \in Nat /\ oldest \in Nat \ {0} /\ subscribed \in BOOLEAN
  /\ pipe \in Seq(FrameSet) /\ pending \in Seq(PieceSet)
  /\ bridge \in {"none", "opening", "up"}
  /\ retry \in BOOLEAN /\ awaiting \in BOOLEAN /\ failed \in BOOLEAN /\ deviceUp \in BOOLEAN
  /\ publish \in Seq([seq : Nat, pieces : Seq(PieceSet), handed : BOOLEAN, current : BOOLEAN])
  /\ chunks \in Nat /\ committed \in Nat /\ attaches \in Nat /\ queued \subseteq Nat
  /\ outbox \in Seq(ChunkSet)
  /\ commands \in Seq([type : {"attach", "detach"}, after : Nat])
  /\ online \in [Browsers -> BOOLEAN] /\ mode \in [Browsers -> {"closed", "open", "mounted"}]
  /\ waiting \in [Browsers -> Seq(ChunkSet)] /\ reading \in [Browsers -> Seq(PieceSet)]
  /\ \A b \in Browsers : mode[b] = "open" => Len(waiting[b]) <= BufferMax
  /\ last \in [Browsers -> Nat] /\ rendered \in [Browsers -> Nat]
  /\ view \in [Browsers -> [partial : Seq(PieceSet), accepted : Nat, replaying : BOOLEAN,
                             replay : Seq(PieceSet)]]
  /\ paint \in [Browsers -> Seq(EntrySet)] /\ screen \in [Browsers -> Seq(ShapeSet)]
  /\ faults \in [Faults -> Nat]

\* Whatever is lost, resent or attached twice, a page never draws a piece twice
\* and never out of order (flush filters by frame number and by the start of a
\* frame; a second attempt replaces a first one).
Position(p) == 2 * p.seq + (IF p.start THEN 0 ELSE 1)
DrawnInOrder ==
  \A b \in Browsers : \A i, j \in DOMAIN screen[b] :
    i < j => Position(screen[b][i]) < Position(screen[b][j])

\* What a page shows is a run of whole frames, none missing (the last one may
\* have a piece to come).
Whole(s) ==
  \A i \in DOMAIN s :
    /\ s[i].start \/ (i > 1 /\ s[i - 1].seq = s[i].seq)
    /\ i > 1 /\ s[i].start => s[i].seq = s[i - 1].seq + 1
    /\ i > 1 /\ s[i].start => s[i - 1].start = (s[i - 1].seq \notin Big)
MirrorContiguous == \A b \in Browsers : Whole(screen[b])

\* As long as the terminal has been attached once, the bridge has lost the daemon
\* at most once, and no page and no device has been lost, nothing between the
\* daemon and the page loses, tears or repeats a frame: neither the cutting into
\* chunks, nor a full outbox, nor what the daemon has evicted, nor the replay after
\* the bridge has lost the daemon.  A page opened beside the first one can draw the
\* second half of a cut frame before its own replay, and after a second lost
\* connection output is resumed after frames only the first one had delivered.
UndisturbedContiguous ==
  attaches + Len(commands) <= 1 /\ faults["link"] <= 1
    /\ (\A f \in Faults \ {"link", "giveup", "evict"} : faults[f] = 0)
    => MirrorContiguous

\* An acknowledgement is only given for a frame whose last piece the current
\* generation has queued (.trellis/spec/backend/web-service-contracts.md:67:
\* retired output queues cannot ACK newer attaches).
AckOnlyQueued == [][committed' > committed => committed' \in queued]_vars

\* The mirror recovers: when the bridge stays up, every page that goes on
\* showing the terminal ends on the last frame the PTY has produced.
Current(b) == produced > 0 => screen[b] # <<>> /\ Last(screen[b]).seq = produced
MirrorSettles ==
  \A b \in Browsers :
    <>[](bridge = "up" /\ ~failed /\ mode[b] # "closed") => <>[]Current(b)

\* MirrorSettles holds after any single fault, other than a reload of the desktop's window,
\* which starts the chunk numbers again, and the loss of chunks that came before
\* the page's terminal was there.
MirrorCurrent ==
  [](/\ FoldFunction(+, 0, faults) <= 1
     /\ faults["reload"] = 0 /\ faults["overflow"] = 0) => MirrorSettles
=============================================================================
