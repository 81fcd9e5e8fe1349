---------------------------- MODULE WebMirrorProofs ----------------------------
(***************************************************************************)
(* Theorems about WebMirror, for any number of pages, any sizes of its     *)
(* queues, any frames that are cut and any number of faults.               *)
(***************************************************************************)
EXTENDS WebMirror, FiniteSetTheorems, SequenceTheorems, TLAPS

(* Frames, pieces and chunks. *)

\* Every frame the daemon sends is a frame.
LEMMA FrameTypes ==
  /\ Reset \in FrameSet /\ \A c \in BOOLEAN : End(c) \in FrameSet
  /\ \A s \in Nat \ {0} : Frame("replay", s) \in FrameSet /\ Frame("output", s) \in FrameSet
  BY DEF Reset, End, Frame, FrameSet, Kinds, Marks

\* What makes a record a piece.
LEMMA IsPiece ==
  ASSUME NEW k \in Kinds, NEW s \in Nat, NEW first \in BOOLEAN, NEW final \in BOOLEAN,
         s = 0 <=> k \in Marks, IF s \in Big THEN first = ~final ELSE first /\ final
  PROVE  [kind |-> k, seq |-> s, start |-> first, end |-> final] \in PieceSet
<1> DEFINE r == [kind |-> k, seq |-> s, start |-> first, end |-> final]
<1>1. r \in [kind : Kinds, seq : Nat, start : BOOLEAN, end : BOOLEAN]
  OBVIOUS
<1>2. r.kind = k /\ r.seq = s /\ r.start = first /\ r.end = final
  OBVIOUS
<1> HIDE DEF r
<1>3. (r.seq = 0 <=> r.kind \in Marks) /\ IF r.seq \in Big THEN r.start = ~r.end ELSE r.start /\ r.end
  BY <1>2, Zenon
<1>4. r \in PieceSet
  BY <1>1, <1>3 DEF PieceSet
<1> QED  BY <1>4 DEF r

\* The pieces of a frame; only the first starts it and only the last ends it.
LEMMA PiecesType ==
  ASSUME NEW f \in FrameSet
  PROVE  PiecesOf(f) \in Seq(PieceSet)
<1>1. f.kind \in Kinds /\ f.seq \in Nat /\ (f.seq = 0 <=> f.kind \in Marks)
  BY DEF FrameSet
<1>2. Count(f.seq) \in {1, 2} /\ Count(f.seq) \in Nat
  BY DEF Count
<1>3. ASSUME NEW i \in 1..Count(f.seq) PROVE Piece(f, i) \in PieceSet
  <2>1. IF f.seq \in Big THEN (i = 1) = ~(i = Count(f.seq)) ELSE i = 1 /\ i = Count(f.seq)
    BY <1>2, <1>3 DEF Count
  <2>2. (i = 1) \in BOOLEAN /\ (i = Count(f.seq)) \in BOOLEAN
    OBVIOUS
  <2> QED  BY <1>1, <2>1, <2>2, IsPiece DEF Piece
<1>4. PiecesOf(f) \in [1..Count(f.seq) -> PieceSet]
  BY <1>3 DEF PiecesOf
<1> QED  BY <1>2, <1>4, SeqDef

\* The answer to an attach consists of frames.
LEMMA AttachedType ==
  ASSUME oldest \in Nat \ {0}, produced \in Nat, NEW after \in Nat, NEW command \in BOOLEAN
  PROVE  AttachedFrames(after, command) \in Seq(FrameSet)
<1> DEFINE from == IF ReplayReset(after) THEN oldest ELSE Max2(oldest, after + 1)
           n == Max2(0, produced - from + 1)
           replay == [i \in 1..n |-> Frame("replay", from + i - 1)]
           begin == IF ReplayReset(after) THEN <<Reset>> ELSE <<>>
<1>1. from \in Nat \ {0}
  BY DEF Max2
<1>2. n \in Nat
  BY <1>1 DEF Max2
<1>3. replay \in [1..n -> FrameSet]
  <2>1. \A i \in 1..n : from + i - 1 \in Nat \ {0}
    BY <1>1, <1>2
  <2> HIDE DEF from, n
  <2> QED  BY <2>1, FrameTypes
<1>4. replay \in Seq(FrameSet)
  <2> HIDE DEF replay, n
  <2> QED  BY <1>2, <1>3, SeqDef
<1>5. begin \in Seq(FrameSet) /\ <<End(command)>> \in Seq(FrameSet)
  BY FrameTypes
<1>6. AttachedFrames(after, command) = begin \o replay \o <<End(command)>>
  BY DEF AttachedFrames
<1> HIDE DEF from, n, replay, begin
<1>7. begin \o replay \in Seq(FrameSet)
  BY <1>4, <1>5, ConcatProperties
<1> QED  BY <1>5, <1>6, <1>7, ConcatProperties

\* Multiples of the same factor keep their order.
LEMMA TimesMonotonic ==
  ASSUME NEW b \in Nat, NEW k \in Nat, NEW m \in Nat, k <= m
  PROVE  k * b <= m * b /\ k * b \in Nat
  OBVIOUS

\* batchWebTerminalFrames only cuts the sequence.
LEMMA BatchesType ==
  ASSUME NEW pieces \in Seq(PieceSet)
  PROVE  \E n \in Nat : Batches(pieces) \in [1..n -> Seq(PieceSet)]
<1> DEFINE x == Len(pieces) + BatchMax - 1
           n == x \div BatchMax
<1>0. BatchMax \in Nat \ {0} /\ Len(pieces) \in Nat
  BY MirrorAssumption
<1>1. x \in Nat
  BY <1>0
<1>2. n \in Nat /\ n * BatchMax <= x
  BY <1>0, <1>1
<1>3. ASSUME NEW k \in 1..n
      PROVE  SubSeq(pieces, (k - 1) * BatchMax + 1, IF k = n THEN Len(pieces) ELSE k * BatchMax)
               \in Seq(PieceSet)
  <2>1. (k - 1) * BatchMax \in Nat /\ k * BatchMax \in Nat
    BY <1>0, <1>2
  <2>2. k # n => k * BatchMax <= Len(pieces)
    <3>1. k # n => (k + 1) * BatchMax <= n * BatchMax
      BY <1>0, <1>2, TimesMonotonic
    <3>2. (k + 1) * BatchMax = k * BatchMax + BatchMax
      BY <1>0, <1>2
    <3> QED  BY <1>0, <1>2, <2>1, <3>1, <3>2
  <2> DEFINE a == (k - 1) * BatchMax + 1
             z == IF k = n THEN Len(pieces) ELSE k * BatchMax
  <2>3. a \in Nat \ {0} /\ z \in Nat /\ z <= Len(pieces)
    BY <1>0, <2>1, <2>2
  <2> HIDE DEF a, z
  <2>4. \A i \in a..z : pieces[i] \in PieceSet
    BY <1>0, <2>3, ElementOfSeq
  <2>5. SubSeq(pieces, a, z) \in Seq(PieceSet)
    BY <2>3, <2>4, SubSeqProperties
  <2> QED  BY <2>5 DEF a, z
<1>4. Batches(pieces) \in [1..n -> Seq(PieceSet)]
  BY <1>3 DEF Batches
<1> QED  BY <1>2, <1>4

\* What a batch acknowledges are sequence numbers.
LEMMA AcksType ==
  ASSUME NEW pieces \in Seq(PieceSet)
  PROVE  Acks(pieces) \subseteq Nat
<1>1. \A i \in DOMAIN pieces : pieces[i] \in PieceSet
  OBVIOUS
<1>2. \A p \in PieceSet : p.seq \in Nat
  BY DEF PieceSet
<1> QED  BY <1>1, <1>2 DEF Acks

-----------------------------------------------------------------------------
(* The view of a page. *)

Views == [partial : Seq(PieceSet), accepted : Nat, replaying : BOOLEAN, replay : Seq(PieceSet)]

\* What is drawn of a piece is at most one shape.
LEMMA EntryType ==
  ASSUME NEW p \in PieceSet, NEW clear \in BOOLEAN
  PROVE  Entry(p, clear) \in EntrySet
<1> DEFINE shape == IF p.seq = 0 THEN <<>> ELSE <<[seq |-> p.seq, start |-> p.start]>>
           n == IF p.end THEN p.seq ELSE 0
<1>1. p.seq \in Nat /\ p.start \in BOOLEAN
  BY DEF PieceSet
<1>2. shape \in Seq(ShapeSet) /\ Len(shape) <= 1
  <2> DEFINE x == [seq |-> p.seq, start |-> p.start]
  <2>1. x \in ShapeSet
    BY <1>1 DEF ShapeSet
  <2>2. shape = <<>> \/ shape = <<x>>
    OBVIOUS
  <2> HIDE DEF x, shape
  <2>3. CASE shape = <<>>
    BY <2>3, EmptySeq
  <2>4. CASE shape = <<x>>
    <3>1. <<x>> \in Seq(ShapeSet) /\ Len(<<x>>) = 1
      BY <2>1
    <3> QED  BY <2>4, <3>1
  <2> QED  BY <2>2, <2>3, <2>4
<1>3. n \in Nat
  BY <1>1
<1>4. Entry(p, clear) = [clear |-> clear, body |-> shape, seq |-> n]
  BY DEF Entry
<1> HIDE DEF shape, n
<1> QED  BY <1>2, <1>3, <1>4 DEF EntrySet

\* A piece leaves the view a view, and what it shows are entries.
LEMMA PieceEffect ==
  ASSUME NEW v \in Views, NEW p \in PieceSet
  PROVE  TakePiece(v, p) \in Views /\ Shown(v, p) \in Seq(EntrySet)
<1>1. Continues(v, p) \in Seq(PieceSet)
  <2>1. v.partial \in Seq(PieceSet) /\ <<>> \in Seq(PieceSet)
    BY DEF Views
  <2>2. Continues(v, p) = <<>> \/ Continues(v, p) = v.partial
    BY Zenon DEF Continues
  <2> QED  BY <2>1, <2>2
<1> DEFINE whole == Append(Continues(v, p), p)
           complete == [v EXCEPT !.partial = <<>>, !.accepted = Max2(@, p.seq)]
<1>2. whole \in Seq(PieceSet)
  BY <1>1
<1>3. p.seq \in Nat /\ NewView \in Views
  BY DEF PieceSet, Views, NewView
<1>4. /\ complete \in Views
      /\ v.replay \o whole \in Seq(PieceSet)
      /\ [NewView EXCEPT !.replaying = TRUE] \in Views
  <2>1. v.replay \in Seq(PieceSet) /\ v.accepted \in Nat
    BY DEF Views
  <2>2. Max2(v.accepted, p.seq) \in Nat
    BY <1>3, <2>1 DEF Max2
  <2>3. complete \in Views
    <3> DEFINE w == [v EXCEPT !.partial = <<>>]
    <3>0. <<>> \in Seq(PieceSet)
      OBVIOUS
    <3>1. w \in Views /\ w.accepted = v.accepted
      BY <3>0 DEF Views
    <3>2. complete = [w EXCEPT !.accepted = Max2(v.accepted, p.seq)]
      OBVIOUS
    <3> HIDE DEF complete, w
    <3>3. \A m \in Nat : [w EXCEPT !.accepted = m] \in Views
      BY <3>1 DEF Views
    <3> QED  BY <2>2, <3>2, <3>3
  <2>4. v.replay \o whole \in Seq(PieceSet)
    <3> HIDE DEF whole
    <3> QED  BY <1>2, <2>1, ConcatProperties
  <2>5. [NewView EXCEPT !.replaying = TRUE] \in Views
    BY <1>3 DEF Views
  <2> QED  BY <2>3, <2>4, <2>5
<1>5. TakePiece(v, p) \in Views
  <2>1. \A c \in Seq(PieceSet) : [v EXCEPT !.partial = c] \in Views
    BY DEF Views
  <2>2. \A c \in Seq(PieceSet) : [complete EXCEPT !.replay = c] \in Views
    BY <1>4 DEF Views
  <2>3. [complete EXCEPT !.replaying = FALSE, !.replay = <<>>] \in Views
    BY <1>4 DEF Views
  <2>4. TakePiece(v, p) \in
          {[NewView EXCEPT !.replaying = TRUE], [v EXCEPT !.partial = Continues(v, p)],
           [v EXCEPT !.partial = whole], [complete EXCEPT !.replay = v.replay \o whole],
           [complete EXCEPT !.replaying = FALSE, !.replay = <<>>]}
    BY Zenon DEF TakePiece
  <2> HIDE DEF whole, complete
  <2> QED  BY <1>1, <1>2, <1>4, <2>1, <2>2, <2>3, <2>4
<1>6. Shown(v, p) \in Seq(EntrySet)
  <2> DEFINE some == IF Ends(p) /\ ~(v.replaying /\ v.replay = <<>>) THEN <<>> ELSE whole
             batch == IF v.replaying THEN v.replay \o some ELSE some
             entries == [i \in DOMAIN batch |-> Entry(batch[i], v.replaying /\ i = 1)]
  <2>1. some \in Seq(PieceSet) /\ v.replay \in Seq(PieceSet)
    BY <1>2 DEF Views
  <2>2. batch \in Seq(PieceSet)
    <3> HIDE DEF some
    <3> QED  BY <2>1
  <2>3. entries \in Seq(EntrySet)
    <3> HIDE DEF batch
    <3>1. DOMAIN batch = 1..Len(batch) /\ Len(batch) \in Nat
      BY <2>2
    <3>2. \A i \in DOMAIN batch : Entry(batch[i], v.replaying /\ i = 1) \in EntrySet
      <4> TAKE i \in DOMAIN batch
      <4>1. batch[i] \in PieceSet
        BY <2>2, <3>1
      <4>2. (v.replaying /\ i = 1) \in BOOLEAN
        OBVIOUS
      <4> QED  BY <4>1, <4>2, EntryType
    <3>3. entries \in [1..Len(batch) -> EntrySet]
      BY <3>1, <3>2
    <3> HIDE DEF entries
    <3> QED  BY <3>1, <3>3, SeqDef
  <2>4. Shown(v, p) \in {<<>>, entries}
    BY DEF Shown
  <2>5. <<>> \in Seq(EntrySet)
    OBVIOUS
  <2> HIDE DEF entries
  <2> QED  BY <2>3, <2>4, <2>5
<1> QED  BY <1>5, <1>6
-----------------------------------------------------------------------------
(* Types of the whole state, one part per party. *)

PublishSet == [seq : Nat, pieces : Seq(PieceSet), handed : BOOLEAN, current : BOOLEAN]
CommandSet == [type : {"attach", "detach"}, after : Nat]

DaemonOK ==
  produced \in Nat /\ oldest \in Nat \ {0} /\ subscribed \in BOOLEAN /\ pipe \in Seq(FrameSet)
BridgeOK ==
  /\ bridge \in {"none", "opening", "up"}
  /\ retry \in BOOLEAN /\ awaiting \in BOOLEAN /\ failed \in BOOLEAN
  /\ pending \in Seq(PieceSet) /\ publish \in Seq(PublishSet)
  /\ chunks \in Nat /\ committed \in Nat /\ attaches \in Nat /\ queued \subseteq Nat
DeviceOK ==
  outbox \in Seq(ChunkSet) /\ deviceUp \in BOOLEAN /\ commands \in Seq(CommandSet)
\* Nothing is buffered for a page that does not show the terminal.
PageOK ==
  /\ online \in [Browsers -> BOOLEAN] /\ mode \in [Browsers -> {"closed", "open", "mounted"}]
  /\ waiting \in [Browsers -> Seq(ChunkSet)] /\ reading \in [Browsers -> Seq(PieceSet)]
  /\ \A b \in Browsers : mode[b] = "open" => Len(waiting[b]) <= BufferMax
  /\ \A b \in Browsers : mode[b] = "closed" => waiting[b] = <<>>
  /\ last \in [Browsers -> Nat] /\ view \in [Browsers -> Views]
DrawOK ==
  /\ paint \in [Browsers -> Seq(EntrySet)] /\ rendered \in [Browsers -> Nat]
  /\ screen \in [Browsers -> Seq(ShapeSet)]
FaultsOK == faults \in [Faults -> Nat]
TypeInv == DaemonOK /\ BridgeOK /\ DeviceOK /\ PageOK /\ DrawOK /\ FaultsOK

\* A part whose variables do not change keeps its types.
LEMMA Kept ==
  /\ DaemonOK /\ UNCHANGED daemon => DaemonOK'
  /\ BridgeOK /\ UNCHANGED bridging => BridgeOK'
  /\ DeviceOK /\ UNCHANGED device => DeviceOK'
  /\ PageOK /\ UNCHANGED <<online, mode, waiting, reading, last, view>> => PageOK'
  /\ DrawOK /\ UNCHANGED drawing => DrawOK'
  /\ FaultsOK /\ UNCHANGED faults => FaultsOK'
<1>1. DaemonOK /\ UNCHANGED daemon => DaemonOK'
  BY DEF DaemonOK, daemon
<1>2. BridgeOK /\ UNCHANGED bridging => BridgeOK'
  BY DEF BridgeOK, bridging
<1>3. DeviceOK /\ UNCHANGED device => DeviceOK'
  BY DEF DeviceOK, device
<1>4. PageOK /\ UNCHANGED <<online, mode, waiting, reading, last, view>> => PageOK'
  BY DEF PageOK
<1>5. DrawOK /\ UNCHANGED drawing => DrawOK'
  BY DEF DrawOK, drawing
<1>6. FaultsOK /\ UNCHANGED faults => FaultsOK'
  BY DEF FaultsOK
<1> QED  BY <1>1, <1>2, <1>3, <1>4, <1>5, <1>6

\* A fault is counted.
LEMMA HappensType ==
  ASSUME FaultsOK, NEW f \in Faults, Happens(f)
  PROVE  FaultsOK'
<1>1. faults' = [faults EXCEPT ![f] = @ + 1]
  BY Zenon DEF Happens
<1> QED  BY <1>1 DEF FaultsOK

\* An attach of the bridge is answered with frames.
LEMMA AttachEffect ==
  ASSUME DaemonOK, NEW after \in Nat, NEW command \in BOOLEAN, Attach(after, command),
         UNCHANGED <<produced, oldest>>
  PROVE  DaemonOK'
<1>1. AttachedFrames(after, command) \in Seq(FrameSet)
  BY AttachedType DEF DaemonOK
<1>2. pipe' \in Seq(FrameSet)
  BY <1>1, ConcatProperties DEF DaemonOK, Attach
<1> QED  BY <1>2 DEF DaemonOK, Attach

\* What restartOutput leaves of the queue acknowledges nothing.
LEMMA DisownEffect ==
  ASSUME NEW queue \in Seq(PublishSet)
  PROVE  Disown(queue) \in Seq(PublishSet) /\ \A i \in DOMAIN Disown(queue) : ~Disown(queue)[i].current
<1>1. Handed(queue) \in Seq(PublishSet)
  <2>1. CASE queue # <<>> /\ Head(queue).handed
    <3>1. Head(queue) \in PublishSet
      BY <2>1, HeadTailProperties
    <3>2. Handed(queue) = <<Head(queue)>>
      BY <2>1 DEF Handed
    <3> QED  BY <3>1, <3>2
  <2>2. CASE ~(queue # <<>> /\ Head(queue).handed)
    BY <2>2, EmptySeq DEF Handed
  <2> QED  BY <2>1, <2>2
<1> DEFINE h == Handed(queue)
<1>2. Disown(queue) = [i \in DOMAIN h |-> [h[i] EXCEPT !.current = FALSE]]
  BY DEF Disown
<1> HIDE DEF h
<1>3. DOMAIN h = 1..Len(h) /\ Len(h) \in Nat
  BY <1>1 DEF h
<1>4. ASSUME NEW i \in DOMAIN h
      PROVE  [h[i] EXCEPT !.current = FALSE] \in PublishSet /\ ~[h[i] EXCEPT !.current = FALSE].current
  <2>1. h[i] \in PublishSet
    BY <1>1, <1>3 DEF h
  <2> QED  BY <2>1 DEF PublishSet
<1>5. Disown(queue) \in [1..Len(h) -> PublishSet]
  BY <1>2, <1>3, <1>4
<1> QED  BY <1>2, <1>3, <1>4, <1>5, SeqDef

\* restartOutput keeps the types.
LEMMA RestartEffect ==
  ASSUME BridgeOK, RestartOutput
  PROVE  /\ pending' \in Seq(PieceSet) /\ failed' \in BOOLEAN /\ queued' \subseteq Nat
         /\ publish' \in Seq(PublishSet)
<1>1. publish' \in Seq(PublishSet)
  BY DisownEffect DEF RestartOutput, BridgeOK
<1>2. pending' = <<>> /\ failed' = FALSE /\ queued' = {}
  BY DEF RestartOutput
<1> QED  BY <1>1, <1>2, EmptySeq

\* So does the end of a bridge.
LEMMA DisposeEffect ==
  ASSUME DaemonOK, BridgeOK, Dispose, UNCHANGED <<produced, oldest, attaches>>, chunks' \in Nat
  PROVE  DaemonOK' /\ BridgeOK'
<1>1. DaemonOK'
  BY EmptySeq DEF DaemonOK, Dispose
<1>2. BridgeOK'
  <2>1. RestartOutput
    BY DEF Dispose
  <2>2. bridge' = "none" /\ retry' = FALSE /\ awaiting' = FALSE /\ committed' = 0 /\ attaches' \in Nat
    BY DEF Dispose, BridgeOK
  <2> QED  BY <2>1, <2>2, RestartEffect DEF BridgeOK
<1> QED  BY <1>1, <1>2

\* flush only appends chunks that have not been handed over.
LEMMA FlushEffect ==
  ASSUME NEW queue \in Seq(PublishSet), NEW pieces \in Seq(PieceSet), NEW c \in Nat
  PROVE  LET new == [k \in DOMAIN Batches(pieces) |->
                       [seq |-> c + k, pieces |-> Batches(pieces)[k], handed |-> FALSE, current |-> TRUE]]
         IN /\ c + Len(Batches(pieces)) \in Nat
            /\ queue \o new \in Seq(PublishSet)
            /\ \A i \in DOMAIN (queue \o new) :
                 (queue \o new)[i].handed => i \in DOMAIN queue /\ (queue \o new)[i] = queue[i]
<1> DEFINE bs == Batches(pieces)
           new == [k \in DOMAIN bs |->
                     [seq |-> c + k, pieces |-> bs[k], handed |-> FALSE, current |-> TRUE]]
<1>1. PICK n \in Nat : bs \in [1..n -> Seq(PieceSet)]
  BY BatchesType
<1> HIDE DEF bs
<1>2. bs \in Seq(Seq(PieceSet)) /\ DOMAIN bs = 1..n /\ Len(bs) = n
  <2>1. bs \in Seq(Seq(PieceSet))
    BY <1>1, SeqDef
  <2> QED  BY <1>1, <2>1, LenProperties
<1>3. ASSUME NEW k \in 1..n
      PROVE  [seq |-> c + k, pieces |-> bs[k], handed |-> FALSE, current |-> TRUE] \in PublishSet
  BY <1>1 DEF PublishSet
<1>4. new \in [1..n -> PublishSet] /\ \A k \in 1..n : ~new[k].handed
  BY <1>2, <1>3
<1> HIDE DEF new
<1>5. new \in Seq(PublishSet)
  BY <1>4, SeqDef
<1>6. Len(new) = n
  BY <1>4, <1>5, LenProperties
<1>7. queue \o new \in Seq(PublishSet) /\ Len(queue \o new) = Len(queue) + n
  BY <1>5, <1>6, ConcatProperties
<1>8. ASSUME NEW i \in DOMAIN (queue \o new), (queue \o new)[i].handed
      PROVE  i \in DOMAIN queue /\ (queue \o new)[i] = queue[i]
  <2>1. i \in 1..Len(queue) + n /\ Len(queue) \in Nat
    BY <1>7, LenProperties
  <2>2. (queue \o new)[i] = IF i <= Len(queue) THEN queue[i] ELSE new[i - Len(queue)]
    BY <1>5, <1>6, <2>1, ConcatProperties
  <2>3. i <= Len(queue)
    BY <1>4, <1>8, <2>1, <2>2
  <2> QED  BY <2>1, <2>2, <2>3, LenProperties
<1>9. c + Len(bs) \in Nat
  BY <1>2
<1> QED  BY <1>7, <1>8, <1>9 DEF bs, new

\* TerminalStream keeps no more than MAX_BUFFERED_CHUNKS.
LEMMA NewestType ==
  ASSUME NEW s \in Seq(ChunkSet)
  PROVE  Newest(s) \in Seq(ChunkSet) /\ Len(Newest(s)) <= BufferMax
<1> DEFINE a == Max2(1, Len(s) - BufferMax + 1)
<1>1. BufferMax \in Nat \ {0} /\ Len(s) \in Nat
  BY MirrorAssumption
<1>2. a \in Nat \ {0} /\ a >= Len(s) - BufferMax + 1
  BY <1>1 DEF Max2
<1> HIDE DEF a
<1>3. \A i \in a..Len(s) : s[i] \in ChunkSet
  BY <1>1, <1>2, ElementOfSeq
<1>4. /\ SubSeq(s, a, Len(s)) \in Seq(ChunkSet)
      /\ Len(SubSeq(s, a, Len(s))) = IF a <= Len(s) THEN Len(s) - a + 1 ELSE 0
  BY <1>1, <1>2, <1>3, SubSeqProperties
<1> QED  BY <1>1, <1>2, <1>4 DEF Newest, a

\* The types hold at the start ...
LEMMA TypeInit ==
  ASSUME Init
  PROVE  TypeInv
<1>1. NewView \in Views
  BY DEF NewView, Views
<1>2. PageOK
  BY <1>1 DEF Init, PageOK
<1>3. DaemonOK /\ BridgeOK /\ DeviceOK
  <2>1. DaemonOK
    <3>1. produced = 0 /\ oldest = 1 /\ subscribed = FALSE /\ pipe = <<>>
      BY DEF Init
    <3>2. pipe \in Seq(FrameSet)
      BY <3>1, EmptySeq
    <3>3. produced \in Nat /\ oldest \in Nat \ {0}
      BY <3>1
    <3>4. subscribed \in BOOLEAN
      BY <3>1, Zenon
    <3> QED  BY <3>2, <3>3, <3>4 DEF DaemonOK
  <2>2. BridgeOK
    BY EmptySeq DEF Init, BridgeOK
  <2>3. DeviceOK
    BY EmptySeq DEF Init, DeviceOK
  <2> QED  BY <2>1, <2>2, <2>3
<1>4. DrawOK /\ FaultsOK
  BY EmptySeq DEF Init, DrawOK, FaultsOK
<1> QED  BY <1>2, <1>3, <1>4 DEF TypeInv

\* ... after what the daemon does and every loss of a connection ...
LEMMA TypeDaemon ==
  ASSUME TypeInv, Produce \/ Evict \/ Relink \/ LinkDrop \/ Reload \/ Refused
  PROVE  TypeInv'
<1> USE DEF TypeInv
<1>1. CASE Produce
  <2>1. Frame("output", produced + 1) \in FrameSet
    BY FrameTypes DEF DaemonOK
  <2>2. DaemonOK'
    BY <1>1, <2>1 DEF DaemonOK, Produce
  <2> QED  BY <1>1, <2>2, Kept DEF Produce, page
<1>2. CASE Evict
  <2>1. DaemonOK' /\ FaultsOK'
    BY <1>2, HappensType DEF DaemonOK, Evict, Faults
  <2> QED  BY <1>2, <2>1, Kept DEF Evict, page
<1>3. CASE Relink
  <2>1. DaemonOK'
    BY <1>3, AttachEffect DEF Relink, BridgeOK
  <2>2. BridgeOK'
    BY <1>3 DEF Relink, BridgeOK
  <2> QED  BY <1>3, <2>1, <2>2, Kept DEF Relink, page
<1>4. CASE LinkDrop
  <2>1. FaultsOK'
    BY <1>4, HappensType DEF LinkDrop, Faults
  <2>2. CASE bridge = "opening"
    BY <1>4, <2>1, <2>2, DisposeEffect, Kept DEF LinkDrop, BridgeOK, page
  <2>3. CASE bridge # "opening"
    <3>1. DaemonOK' /\ BridgeOK'
      BY <1>4, <2>3, EmptySeq DEF LinkDrop, DaemonOK, BridgeOK
    <3> QED  BY <1>4, <2>1, <3>1, Kept DEF LinkDrop, page
  <2> QED  BY <2>2, <2>3
<1>5. CASE Reload
  <2>1. FaultsOK'
    BY <1>5, HappensType DEF Reload, Faults
  <2>2. DaemonOK' /\ BridgeOK'
    BY <1>5, DisposeEffect DEF Reload
  <2> QED  BY <1>5, <2>1, <2>2, Kept DEF Reload, page
<1>6. CASE Refused
  <2>1. FaultsOK'
    BY <1>6, HappensType DEF Refused, Faults
  <2>2. DeviceOK'
    <3>1. PICK n \in 1..Len(commands) : commands' = SubSeq(commands, n + 1, Len(commands))
      BY <1>6 DEF Refused
    <3>2. \A i \in (n + 1)..Len(commands) : commands[i] \in CommandSet
      BY ElementOfSeq DEF DeviceOK
    <3>3. Len(commands) \in Int /\ n + 1 \in Int
      BY DEF DeviceOK
    <3>4. commands' \in Seq(CommandSet)
      BY <3>1, <3>2, <3>3, SubSeqProperties
    <3> QED  BY <1>6, <3>4 DEF Refused, DeviceOK
  <2> QED  BY <1>6, <2>1, <2>2, Kept DEF Refused, page
<1> QED  BY <1>1, <1>2, <1>3, <1>4, <1>5, <1>6

\* ... after what the bridge does ...
LEMMA TypeBridge ==
  ASSUME TypeInv, TakeAttach \/ TakeDetach \/ Collect \/ Flush \/ Admit \/ PublishDone \/ GiveUp
  PROVE  TypeInv'
<1> USE DEF TypeInv
<1>0. commands # <<>> => Head(commands) \in CommandSet /\ Tail(commands) \in Seq(CommandSet)
  BY HeadTailProperties DEF DeviceOK
<1>1. publish # <<>> => /\ Head(publish) \in PublishSet /\ Tail(publish) \in Seq(PublishSet)
                        /\ Head(publish).pieces \in Seq(PieceSet) /\ Head(publish).seq \in Nat
                        /\ Acks(Head(publish).pieces) \subseteq Nat
  <2>1. publish # <<>> => Head(publish) \in PublishSet /\ Tail(publish) \in Seq(PublishSet)
    BY HeadTailProperties DEF BridgeOK
  <2> QED  BY <2>1, AcksType DEF PublishSet
<1>2. CASE TakeAttach
  <2>1. Head(commands).after \in Nat /\ DeviceOK'
    BY <1>0, <1>2 DEF TakeAttach, DeviceOK, CommandSet
  <2>2. DaemonOK'
    BY <1>2, <2>1, AttachEffect DEF TakeAttach
  <2>3. BridgeOK'
    <3>1. RestartOutput
      BY <1>2 DEF TakeAttach
    <3> QED  BY <1>2, <3>1, RestartEffect DEF TakeAttach, BridgeOK
  <2> QED  BY <1>2, <2>1, <2>2, <2>3, Kept DEF TakeAttach, page
<1>3. CASE TakeDetach
  <2>1. DeviceOK'
    BY <1>0, <1>3 DEF TakeDetach, DeviceOK
  <2>2. DaemonOK' /\ BridgeOK'
    BY <1>3, DisposeEffect DEF TakeDetach, BridgeOK
  <2> QED  BY <1>3, <2>1, <2>2, Kept DEF TakeDetach, page
<1>4. CASE Collect
  <2>1. Head(pipe) \in FrameSet /\ Tail(pipe) \in Seq(FrameSet)
    BY <1>4, HeadTailProperties DEF Collect, DaemonOK
  <2>2. pending \o PiecesOf(Head(pipe)) \in Seq(PieceSet)
    BY <2>1, PiecesType, ConcatProperties DEF BridgeOK
  <2>3. DaemonOK' /\ BridgeOK'
    BY <1>4, <2>1, <2>2 DEF Collect, DaemonOK, BridgeOK
  <2> QED  BY <1>4, <2>3, Kept DEF Collect, page
<1>5. CASE Flush
  <2>1. pending \in Seq(PieceSet) /\ publish \in Seq(PublishSet) /\ chunks \in Nat
    BY DEF BridgeOK
  <2>2. chunks' \in Nat /\ publish' \in Seq(PublishSet)
    BY <1>5, <2>1, FlushEffect, Zenon DEF Flush
  <2>3. BridgeOK'
    BY <1>5, <2>2 DEF Flush, BridgeOK
  <2> QED  BY <1>5, <2>3, Kept DEF Flush, page
<1>6. CASE Admit
  <2>1. [seq |-> Head(publish).seq, pieces |-> Head(publish).pieces] \in ChunkSet
    BY <1>1, <1>6 DEF Admit, ChunkSet
  <2>2. DeviceOK'
    BY <1>6, <2>1, AppendProperties DEF Admit, DeviceOK
  <2>3. [publish EXCEPT ![1].handed = TRUE] \in Seq(PublishSet)
    <3>1. publish \in Seq(PublishSet) /\ 1 \in 1..Len(publish) /\ publish[1] \in PublishSet
      BY <1>6 DEF Admit, BridgeOK
    <3> DEFINE x == [publish[1] EXCEPT !.handed = TRUE]
    <3>2. x \in PublishSet
      BY <3>1 DEF PublishSet
    <3>3. [publish EXCEPT ![1].handed = TRUE] = [publish EXCEPT ![1] = x]
      OBVIOUS
    <3> HIDE DEF x
    <3> QED  BY <3>1, <3>2, <3>3, ExceptSeq
  <2>4. BridgeOK'
    BY <1>1, <1>6, <2>3 DEF Admit, BridgeOK
  <2> QED  BY <1>6, <2>2, <2>4, Kept DEF Admit, page
<1>7. CASE PublishDone
  <2>1. BridgeOK'
    BY <1>1, <1>7 DEF PublishDone, BridgeOK
  <2> QED  BY <1>7, <2>1, Kept DEF PublishDone, page
<1>8. CASE GiveUp
  <2>1. FaultsOK'
    BY <1>8, HappensType DEF GiveUp, Faults
  <2>2. BridgeOK'
    BY <1>1, <1>8 DEF GiveUp, BridgeOK
  <2> QED  BY <1>8, <2>1, <2>2, Kept DEF GiveUp, page
<1> QED  BY <1>2, <1>3, <1>4, <1>5, <1>6, <1>7, <1>8

\* ... after what a page does ...
LEMMA TypePage ==
  ASSUME TypeInv, NEW b \in Browsers,
         Read(b) \/ Unpack(b) \/ Mount(b) \/ Draw(b) \/ Ready(b) \/ Open(b) \/ Leave(b) \/ BrowserDrop(b)
  PROVE  TypeInv'
<1> USE DEF TypeInv
<1>0. /\ mode \in [Browsers -> {"closed", "open", "mounted"}] /\ online \in [Browsers -> BOOLEAN]
      /\ reading \in [Browsers -> Seq(PieceSet)] /\ waiting \in [Browsers -> Seq(ChunkSet)]
      /\ view \in [Browsers -> Views] /\ last \in [Browsers -> Nat]
  BY DEF PageOK
<1>1. ASSUME NEW s \in Seq(CommandSet), SendCommands(s), UNCHANGED <<outbox, deviceUp>>
      PROVE  DeviceOK'
  <2>1. commands \o s \in Seq(CommandSet)
    BY ConcatProperties DEF DeviceOK
  <2> QED  BY <1>1, <2>1 DEF SendCommands, DeviceOK
<1>2. CASE Read(b)
  <2>1. Head(reading[b]) \in PieceSet /\ Tail(reading[b]) \in Seq(PieceSet)
    BY <1>0, <1>2, HeadTailProperties DEF Read
  <2>2. /\ TakePiece(view[b], Head(reading[b])) \in Views
        /\ Shown(view[b], Head(reading[b])) \in Seq(EntrySet)
    BY <1>0, <2>1, PieceEffect
  <2>3. PageOK'
    BY <1>2, <2>1, <2>2 DEF Read, PageOK
  <2>4. paint[b] \o Shown(view[b], Head(reading[b])) \in Seq(EntrySet)
    BY <2>2, ConcatProperties DEF DrawOK
  <2>5. DrawOK'
    BY <1>2, <2>4 DEF Read, DrawOK
  <2> QED  BY <1>2, <2>3, <2>5, Kept DEF Read
<1>3. CASE Unpack(b)
  <2>1. Head(waiting[b]) \in ChunkSet /\ Tail(waiting[b]) \in Seq(ChunkSet)
    BY <1>0, <1>3, HeadTailProperties DEF Unpack
  <2>2. Head(waiting[b]).seq \in Nat /\ Head(waiting[b]).pieces \in Seq(PieceSet)
    BY <2>1 DEF ChunkSet
  <2>3. PageOK'
    BY <1>3, <2>1, <2>2 DEF Unpack, PageOK
  <2> QED  BY <1>3, <2>3, Kept DEF Unpack
<1>4. CASE Mount(b)
  <2>1. PageOK'
    BY <1>4 DEF Mount, PageOK
  <2> QED  BY <1>4, <2>1, Kept DEF Mount
<1>5. CASE Draw(b)
  <2>1. Head(paint[b]) \in EntrySet /\ Tail(paint[b]) \in Seq(EntrySet)
    BY <1>5, HeadTailProperties DEF Draw, DrawOK
  <2>2. Head(paint[b]).body \in Seq(ShapeSet) /\ Head(paint[b]).seq \in Nat
    BY <2>1 DEF EntrySet
  <2>3. (IF Head(paint[b]).clear THEN <<>> ELSE screen[b]) \o Head(paint[b]).body \in Seq(ShapeSet)
    BY <2>2, EmptySeq, ConcatProperties DEF DrawOK
  <2>4. Max2(rendered[b], Head(paint[b]).seq) \in Nat
    BY <2>2 DEF Max2, DrawOK
  <2>5. DrawOK'
    BY <1>5, <2>1, <2>3, <2>4 DEF Draw, DrawOK
  <2> QED  BY <1>5, <2>5, Kept DEF Draw
<1>6. CASE Ready(b)
  <2>1. rendered[b] \in Nat
    BY DEF DrawOK
  <2>2. (IF mode[b] = "closed" THEN <<>> ELSE <<AttachFrom(rendered[b])>>) \in Seq(CommandSet)
    <3>1. AttachFrom(rendered[b]) \in CommandSet
      BY <2>1 DEF AttachFrom, CommandSet
    <3>2. <<AttachFrom(rendered[b])>> \in Seq(CommandSet) /\ <<>> \in Seq(CommandSet)
      BY <3>1
    <3> QED  BY <3>2
  <2>3. DeviceOK'
    BY <1>1, <1>6, <2>2 DEF Ready
  <2>4. PageOK'
    BY <1>6 DEF Ready, PageOK, page
  <2> QED  BY <1>6, <2>3, <2>4, Kept DEF Ready, page
<1>7. CASE Open(b)
  <2>1. <<AttachFrom(0)>> \in Seq(CommandSet)
    BY DEF AttachFrom, CommandSet
  <2>2. DeviceOK'
    BY <1>1, <1>7, <2>1 DEF Open
  <2>3. PageOK'
    <3>1. waiting[b] = <<>> /\ BufferMax \in Nat
      BY <1>7, MirrorAssumption DEF Open, PageOK
    <3> QED  BY <1>7, <3>1 DEF Open, PageOK
  <2> QED  BY <1>7, <2>2, <2>3, Kept DEF Open
<1>8. CASE Leave(b)
  <2>1. [type |-> "detach", after |-> 0] \in CommandSet
    BY DEF CommandSet
  <2>2. DeviceOK' /\ FaultsOK'
    <3>1. <<[type |-> "detach", after |-> 0]>> \in Seq(CommandSet)
      BY <2>1
    <3>2. DeviceOK'
      BY <1>1, <1>8, <3>1 DEF Leave
    <3> QED  BY <1>8, <3>2, HappensType DEF Leave, Faults
  <2>3. NewView \in Views
    BY DEF NewView, Views
  <2>4. PageOK'
    BY <1>8, <2>3, EmptySeq DEF Leave, PageOK
  <2>5. DrawOK'
    BY <1>8, EmptySeq DEF Leave, DrawOK
  <2> QED  BY <1>8, <2>2, <2>4, <2>5, Kept DEF Leave
<1>9. CASE BrowserDrop(b)
  <2>1. FaultsOK'
    BY <1>9, HappensType DEF BrowserDrop, Faults
  <2>2. PageOK'
    BY <1>9 DEF BrowserDrop, PageOK, page
  <2> QED  BY <1>9, <2>1, <2>2, Kept DEF BrowserDrop, page
<1> QED  BY <1>2, <1>3, <1>4, <1>5, <1>6, <1>7, <1>8, <1>9

\* ... and after what the device connection carries.
LEMMA TypeDevice ==
  ASSUME TypeInv, Send \/ DeviceDrop \/ DeviceUp
  PROVE  TypeInv'
<1> USE DEF TypeInv
<1>1. CASE Send
  <2>1. /\ Head(outbox) \in ChunkSet /\ Tail(outbox) \in Seq(ChunkSet)
        /\ Head(outbox).seq \in Nat /\ Head(outbox).pieces \in Seq(PieceSet)
    <3>1. outbox # <<>> /\ outbox \in Seq(ChunkSet)
      BY <1>1 DEF Send, DeviceOK
    <3>2. Head(outbox) \in ChunkSet /\ Tail(outbox) \in Seq(ChunkSet)
      BY <3>1, HeadTailProperties
    <3> QED  BY <3>2 DEF ChunkSet
  <2>2. DeviceOK'
    BY <1>1, <2>1 DEF Send, DeviceOK
  <2>3. FaultsOK'
    BY <1>1, HappensType, Kept DEF Send, Faults
  <2>4. ASSUME NEW b \in Browsers
        PROVE  /\ Newest(Append(waiting[b], Head(outbox))) \in Seq(ChunkSet)
               /\ Len(Newest(Append(waiting[b], Head(outbox)))) <= BufferMax
    BY <2>1, NewestType, AppendProperties DEF PageOK
  <2>5. PageOK'
    <3>1. waiting' \in [Browsers -> Seq(ChunkSet)]
      BY <1>1, <2>4 DEF Send, PageOK
    <3>2. reading' \in [Browsers -> Seq(PieceSet)] /\ last' \in [Browsers -> Nat]
      BY <1>1, <2>1 DEF Send, PageOK
    <3>3. ASSUME NEW b \in Browsers
          PROVE  /\ mode'[b] = "open" => Len(waiting'[b]) <= BufferMax
                 /\ mode'[b] = "closed" => waiting'[b] = <<>>
      BY <1>1, <2>4 DEF Send, PageOK, Buffers
    <3> QED  BY <1>1, <3>1, <3>2, <3>3 DEF Send, PageOK
  <2> QED  BY <1>1, <2>2, <2>3, <2>5, Kept DEF Send
<1>2. CASE DeviceDrop
  <2>1. PICK n \in 0..Len(outbox) : outbox' = SubSeq(outbox, n + 1, Len(outbox))
    BY <1>2 DEF DeviceDrop
  <2>2. PICK m \in 0..Len(commands) : commands' = SubSeq(commands, 1, m)
    BY <1>2 DEF DeviceDrop
  <2>3. Len(outbox) \in Nat /\ Len(commands) \in Nat
    BY DEF DeviceOK
  <2>4. /\ \A i \in (n + 1)..Len(outbox) : outbox[i] \in ChunkSet
        /\ \A i \in 1..m : commands[i] \in CommandSet
    BY <2>3, ElementOfSeq DEF DeviceOK
  <2>5. outbox' \in Seq(ChunkSet)
    BY <2>1, <2>3, <2>4, SubSeqProperties
  <2>6. commands' \in Seq(CommandSet)
    BY <2>2, <2>3, <2>4, SubSeqProperties
  <2>7. DeviceOK' /\ FaultsOK'
    BY <1>2, <2>5, <2>6, HappensType DEF DeviceDrop, DeviceOK, Faults
  <2> QED  BY <1>2, <2>7, Kept DEF DeviceDrop, page
<1>3. CASE DeviceUp
  <2>1. PICK order \in SetToSeqs(Announced) :
          commands' = commands \o [i \in DOMAIN order |-> AttachFrom(rendered[order[i]])]
    BY <1>3 DEF DeviceUp
  <2> DEFINE n == Cardinality(Announced)
             more == [i \in DOMAIN order |-> AttachFrom(rendered[order[i]])]
  <2>2. Announced \subseteq Browsers /\ IsFiniteSet(Browsers)
    BY MirrorAssumption DEF Announced
  <2>3. n \in Nat
    BY <2>2, FS_Subset, FS_CardinalityType
  <2>4. order \in [1..n -> Announced]
    BY DEF SetToSeqs
  <2>5. ASSUME NEW i \in 1..n
        PROVE  AttachFrom(rendered[order[i]]) \in CommandSet
    BY <2>2, <2>4 DEF AttachFrom, CommandSet, DrawOK
  <2>6. more \in [1..n -> CommandSet]
    BY <2>4, <2>5
  <2> HIDE DEF n, more
  <2>7. more \in Seq(CommandSet)
    BY <2>3, <2>6, SeqDef
  <2>8. commands \o more \in Seq(CommandSet)
    BY <2>7, ConcatProperties DEF DeviceOK
  <2>9. DeviceOK'
    BY <1>3, <2>1, <2>8 DEF DeviceUp, DeviceOK, more
  <2> QED  BY <1>3, <2>9, Kept DEF DeviceUp, page
<1> QED  BY <1>1, <1>2, <1>3

\* Every step keeps the types.
LEMMA TypeStep ==
  ASSUME TypeInv, [Next]_vars
  PROVE  TypeInv'
<1>1. CASE UNCHANGED vars
  BY <1>1, Kept DEF vars, page, TypeInv
<1>2. CASE Next
  BY <1>2, TypeDaemon, TypeBridge, TypePage, TypeDevice
     DEF Next, Progress, Fault, BridgeStep
<1> QED  BY <1>1, <1>2

\* TypeInv is TypeOK, and says that nothing is buffered for a closed terminal.
LEMMA TypeParts ==
  ASSUME TypeInv
  PROVE  TypeOK
  BY DEF TypeInv, DaemonOK, BridgeOK, DeviceOK, PageOK, DrawOK, FaultsOK, TypeOK,
         PublishSet, CommandSet, Views

\* The strengthened type invariant holds in every behaviour.
LEMMA TypeAlways == Spec => []TypeInv
<1>1. Init => TypeInv
  BY TypeInit
<1>2. TypeInv /\ [Next]_vars => TypeInv'
  BY TypeStep
<1> QED  BY <1>1, <1>2, PTL DEF Spec

\* Every variable keeps its type, and no page that has not started to draw buffers
\* more than MAX_BUFFERED_CHUNKS.
THEOREM TypeCorrect == Spec => []TypeOK
  BY TypeAlways, TypeParts, PTL

-----------------------------------------------------------------------------
(* What the bridge acknowledges. *)

\* The frames that a chunk will acknowledge when its answer arrives have been
\* queued by this generation: a chunk of an earlier one acknowledges nothing.
AckInv ==
  \A i \in DOMAIN publish :
    publish[i].handed /\ publish[i].current => Acks(publish[i].pieces) \subseteq queued

\* The queue moves up.
LEMMA AckTail ==
  ASSUME TypeInv, AckInv, publish # <<>>, publish' = Tail(publish), queued' = queued
  PROVE  AckInv'
<1>1. publish \in Seq(PublishSet)
  BY DEF TypeInv, BridgeOK
<1>2. \A i \in DOMAIN publish' : i + 1 \in DOMAIN publish /\ publish'[i] = publish[i + 1]
  BY <1>1, HeadTailProperties
<1> QED  BY <1>2 DEF AckInv

\* A queue that is given up acknowledges nothing.
LEMMA AckRestart ==
  ASSUME TypeInv, RestartOutput
  PROVE  AckInv'
<1>1. publish \in Seq(PublishSet)
  BY DEF TypeInv, BridgeOK
<1> QED  BY <1>1, DisownEffect DEF RestartOutput, AckInv

\* Every step keeps what is queued apart from what is to be acknowledged.
LEMMA AckStep ==
  ASSUME TypeInv, AckInv, [Next]_vars
  PROVE  AckInv'
<1>1. CASE UNCHANGED <<publish, queued>>
  BY <1>1 DEF AckInv
<1>2. CASE TakeAttach \/ TakeDetach \/ Reload
  BY <1>2, AckRestart DEF TakeAttach, TakeDetach, Reload, Dispose
<1>3. CASE LinkDrop
  BY <1>1, <1>3, AckRestart DEF LinkDrop, Dispose
<1>4. CASE Flush
  <2>1. pending \in Seq(PieceSet) /\ publish \in Seq(PublishSet) /\ chunks \in Nat
    BY DEF TypeInv, BridgeOK
  <2> DEFINE q == publish \o [k \in DOMAIN Batches(pending) |->
                               [seq |-> chunks + k, pieces |-> Batches(pending)[k],
                                handed |-> FALSE, current |-> TRUE]]
  <2>2. \A i \in DOMAIN q : q[i].handed => i \in DOMAIN publish /\ q[i] = publish[i]
    BY <2>1, FlushEffect
  <2>3. publish' = q /\ queued' = queued
    BY <1>4 DEF Flush
  <2> HIDE DEF q
  <2> QED  BY <2>2, <2>3 DEF AckInv
<1>5. CASE Admit
  <2>1. publish \in Seq(PublishSet) /\ publish # <<>>
    BY <1>5 DEF TypeInv, BridgeOK, Admit
  <2>2. /\ publish' = [publish EXCEPT ![1].handed = TRUE]
        /\ queued' = queued \cup Acks(publish[1].pieces)
    BY <1>5 DEF Admit
  <2>3. ASSUME NEW i \in DOMAIN publish', publish'[i].handed, publish'[i].current
        PROVE  Acks(publish'[i].pieces) \subseteq queued'
    <3>1. i \in DOMAIN publish /\ publish[i] \in PublishSet
      BY <2>1, <2>2
    <3>2. CASE i = 1
      <4>1. publish'[i].pieces = publish[1].pieces
        BY <2>2, <3>1, <3>2 DEF PublishSet
      <4> QED  BY <2>2, <4>1
    <3>3. CASE i # 1
      <4>1. publish'[i] = publish[i]
        BY <2>2, <3>1, <3>3
      <4> QED  BY <2>2, <2>3, <3>1, <4>1 DEF AckInv
    <3> QED  BY <3>2, <3>3
  <2> QED  BY <2>3 DEF AckInv
<1>6. CASE PublishDone \/ GiveUp
  BY <1>6, AckTail DEF PublishDone, GiveUp
<1>7. CASE Produce \/ Evict \/ Refused \/ Collect \/ Relink \/ Send \/ DeviceDrop \/ DeviceUp
  BY <1>1, <1>7 DEF Produce, Evict, Refused, Collect, Relink, Send, DeviceDrop, DeviceUp, bridging
<1>8. ASSUME NEW b \in Browsers,
             \/ Read(b) \/ Unpack(b) \/ Mount(b) \/ Draw(b) \/ Ready(b) \/ Open(b)
             \/ Leave(b) \/ BrowserDrop(b)
      PROVE  AckInv'
  BY <1>1, <1>8 DEF Read, Unpack, Mount, Draw, Ready, Open, Leave, BrowserDrop, bridging
<1>9. CASE UNCHANGED vars
  BY <1>1, <1>9 DEF vars, bridging
<1> QED  BY <1>2, <1>3, <1>4, <1>5, <1>6, <1>7, <1>8, <1>9 DEF Next, Progress, Fault, BridgeStep

\* A step acknowledges only what AckInv says has been queued.
LEMMA AckEffect ==
  ASSUME TypeInv, AckInv, [Next]_vars, committed' > committed
  PROVE  committed' \in queued
<1>1. committed \in Nat /\ ~(committed' = committed) /\ ~(committed' = 0)
  BY DEF TypeInv, BridgeOK
<1>2. CASE PublishDone
  <2>1. publish # <<>> /\ publish \in Seq(PublishSet) /\ publish[1].handed
    BY <1>2 DEF PublishDone, TypeInv, BridgeOK
  <2>2. committed' \in Acks(publish[1].pieces) /\ publish[1].current
    <3>1. Head(publish) = publish[1]
      BY <2>1
    <3>2. committed' \in (IF publish[1].current THEN Acks(publish[1].pieces) ELSE {}) \cup {committed}
      BY <1>2, <3>1 DEF PublishDone
    <3> QED  BY <1>1, <3>2
  <2>3. 1 \in DOMAIN publish
    BY <2>1
  <2> QED  BY <2>1, <2>2, <2>3 DEF AckInv
<1>3. CASE UNCHANGED committed
  BY <1>1, <1>3
<1>4. CASE TakeDetach \/ Reload
  BY <1>1, <1>4 DEF TakeDetach, Reload, Dispose
<1>5. CASE LinkDrop
  BY <1>1, <1>5 DEF LinkDrop, Dispose
<1>6. CASE TakeAttach \/ Flush \/ Admit \/ GiveUp
  BY <1>3, <1>6 DEF TakeAttach, Flush, Admit, GiveUp
<1>7. CASE Produce \/ Evict \/ Refused \/ Collect \/ Relink \/ Send \/ DeviceDrop \/ DeviceUp
  BY <1>3, <1>7 DEF Produce, Evict, Refused, Collect, Relink, Send, DeviceDrop, DeviceUp, bridging
<1>8. ASSUME NEW b \in Browsers,
             \/ Read(b) \/ Unpack(b) \/ Mount(b) \/ Draw(b) \/ Ready(b) \/ Open(b)
             \/ Leave(b) \/ BrowserDrop(b)
      PROVE  committed' \in queued
  BY <1>3, <1>8 DEF Read, Unpack, Mount, Draw, Ready, Open, Leave, BrowserDrop, bridging
<1>9. CASE UNCHANGED vars
  BY <1>3, <1>9 DEF vars, bridging
<1> QED  BY <1>2, <1>4, <1>5, <1>6, <1>7, <1>8, <1>9 DEF Next, Progress, Fault, BridgeStep

\* AckInv holds in every behaviour.
LEMMA AckAlways == Spec => []AckInv
<1>1. Init => AckInv
  BY DEF Init, AckInv
<1>2. TypeInv /\ AckInv /\ [Next]_vars => AckInv'
  BY AckStep
<1> QED  BY <1>1, <1>2, TypeAlways, PTL DEF Spec

\* The bridge acknowledges a frame only when its last piece has been queued since
\* the last attach: chunks of a retired queue, whose answers still arrive, do not
\* move what a later replay starts from.
THEOREM AckTruthful == Spec => AckOnlyQueued
<1>1. TypeInv /\ AckInv /\ [Next]_vars => [committed' > committed => committed' \in queued]_vars
  BY AckEffect
<1> QED  BY <1>1, TypeAlways, AckAlways, PTL DEF Spec, AckOnlyQueued

-----------------------------------------------------------------------------
(* What a page draws. *)

Growing(s) == \A i, j \in DOMAIN s : i < j => Position(s[i]) < Position(s[j])

\* A view holds at most the first piece of a frame; a replay it collects is in
\* order and not ahead of the newest frame accepted.
ViewInv(v) ==
  /\ v.partial # <<>> => Len(v.partial) = 1 /\ v.partial[1].start /\ ~v.partial[1].end
  /\ ~v.replaying => v.replay = <<>>
  /\ Growing(v.replay)
  /\ \A i \in DOMAIN v.replay : v.replay[i].seq \in 1..v.accepted

\* Nothing clears the screen between two entries of the render queue.
NoClear(p, m, n) == \A k \in m..n : ~p[k].clear

\* The entries of a render queue are in order until the screen is cleared ...
PaintInv(p) ==
  \A i, j \in DOMAIN p :
    i < j /\ p[i].body # <<>> /\ p[j].body # <<>> /\ NoClear(p, i + 1, j)
      => Position(p[i].body[1]) < Position(p[j].body[1])
\* ... they come after what is on the screen ...
LineInv(s, p) ==
  \A i \in DOMAIN s, j \in DOMAIN p :
    p[j].body # <<>> /\ NoClear(p, 1, j) => Position(s[i]) < Position(p[j].body[1])
\* ... and unless a replay is to come, which will clear the screen, everything that
\* will stay on the screen has been accepted.
BoundInv(s, p, v) ==
  ~v.replaying =>
    /\ \A j \in DOMAIN p :
         p[j].body # <<>> /\ NoClear(p, j + 1, Len(p)) => p[j].body[1].seq <= v.accepted
    /\ NoClear(p, 1, Len(p)) => \A i \in DOMAIN s : s[i].seq <= v.accepted

Ordered(s, p, v) ==
  ViewInv(v) /\ PaintInv(p) /\ Growing(s) /\ LineInv(s, p) /\ BoundInv(s, p, v)
OrderInv == \A b \in Browsers : Ordered(screen[b], paint[b], view[b])

\* What a view of v adds to the render queue when it becomes w.
Added(v, a, w) ==
  /\ \A i, j \in DOMAIN a :
       i < j /\ a[i].body # <<>> /\ a[j].body # <<>>
         => Position(a[i].body[1]) < Position(a[j].body[1])
  /\ \A i \in DOMAIN a : a[i].clear <=> v.replaying /\ i = 1
  /\ ~w.replaying => \A i \in DOMAIN a : a[i].body # <<>> => a[i].body[1].seq <= w.accepted
  /\ ~v.replaying =>
       \A i \in DOMAIN a : a[i].body # <<>> => a[i].body[1].seq > v.accepted
  /\ ~w.replaying /\ v.replaying => a # <<>>
  /\ ~w.replaying /\ ~v.replaying => v.accepted <= w.accepted

\* Frames in order have their pieces in order.
LEMMA PositionOrder ==
  /\ \A x, y \in PieceSet \cup ShapeSet :
       x.seq < y.seq \/ (x.seq = y.seq /\ x.start /\ ~y.start) => Position(x) < Position(y)
  /\ \A x \in PieceSet \cup ShapeSet : Position(x) \in Nat /\ x.seq \in Nat
<1>1. \A x \in PieceSet \cup ShapeSet : x.seq \in Nat /\ x.start \in BOOLEAN
  BY DEF PieceSet, ShapeSet
<1>2. \A x \in PieceSet \cup ShapeSet : Position(x) = 2 * x.seq \/ Position(x) = 2 * x.seq + 1
  BY <1>1 DEF Position
<1>3. \A x \in PieceSet \cup ShapeSet :
        (x.start => Position(x) = 2 * x.seq) /\ (~x.start => Position(x) = 2 * x.seq + 1)
  BY <1>1 DEF Position
<1>4. \A x, y \in PieceSet \cup ShapeSet :
        x.seq < y.seq \/ (x.seq = y.seq /\ x.start /\ ~y.start) => Position(x) < Position(y)
  <2> TAKE x, y \in PieceSet \cup ShapeSet
  <2>1. CASE x.seq < y.seq
    BY <1>1, <1>2, <2>1
  <2>2. CASE x.seq = y.seq /\ x.start /\ ~y.start
    BY <1>1, <1>3, <2>2
  <2> QED  BY <2>1, <2>2
<1>5. \A x \in PieceSet \cup ShapeSet : Position(x) \in Nat
  BY <1>1, <1>2
<1> QED  BY <1>1, <1>4, <1>5

\* The pieces of a frame that has become whole: its second piece follows its
\* first, if that is there.
LEMMA WholeEffect ==
  ASSUME NEW v \in Views, NEW p \in PieceSet, ViewInv(v)
  PROVE  LET whole == Append(Continues(v, p), p)
         IN /\ whole \in Seq(PieceSet) /\ whole # <<>> /\ Growing(whole)
            /\ \A i \in DOMAIN whole : whole[i].seq = p.seq
            /\ p.start => whole = <<p>>
<1>1. Continues(v, p) = <<>> \/ Continues(v, p) = v.partial
  BY Zenon DEF Continues
<1>2. v.partial \in Seq(PieceSet)
  BY DEF Views
<1>3. CASE Continues(v, p) = <<>>
  <2>1. Append(Continues(v, p), p) = <<p>>
    BY <1>3
  <2>2. <<p>> \in Seq(PieceSet) /\ <<p>> # <<>> /\ DOMAIN <<p>> = {1} /\ <<p>>[1] = p
    OBVIOUS
  <2>3. Growing(<<p>>)
    BY <2>2 DEF Growing
  <2>4. \A i \in DOMAIN <<p>> : <<p>>[i].seq = p.seq
    BY <2>2
  <2> QED  BY <2>1, <2>2, <2>3, <2>4
<1>4. CASE Continues(v, p) # <<>>
  <2> DEFINE q == v.partial[1]
  <2>1. /\ Continues(v, p) = v.partial /\ v.partial # <<>> /\ ~p.start
        /\ q.seq = p.seq
    BY <1>1, <1>4 DEF Continues
  <2>2. Len(v.partial) = 1 /\ q.start /\ q \in PieceSet
    BY <1>2, <2>1 DEF ViewInv
  <2> DEFINE whole == Append(v.partial, p)
  <2>3. /\ whole \in Seq(PieceSet) /\ whole # <<>> /\ Len(whole) = 2
        /\ whole[1] = q /\ whole[2] = p
    <3> HIDE DEF whole, q
    <3>1. /\ whole \in Seq(PieceSet) /\ whole # <<>> /\ Len(whole) = Len(v.partial) + 1
          /\ \A i \in 1..Len(v.partial) : whole[i] = v.partial[i]
          /\ whole[Len(v.partial) + 1] = p
      BY <1>2, AppendProperties DEF whole
    <3>2. 1 + 1 = 2 /\ 1 \in 1..1
      OBVIOUS
    <3> QED  BY <2>2, <3>1, <3>2 DEF q
  <2> HIDE DEF whole, q
  <2>4. DOMAIN whole = {1, 2}
    BY <2>3, LenProperties
  <2>5. Position(q) < Position(p)
    BY <2>1, <2>2, PositionOrder
  <2>6. Growing(whole)
    BY <2>3, <2>4, <2>5 DEF Growing
  <2>7. \A i \in DOMAIN whole : whole[i].seq = p.seq
    BY <2>1, <2>3, <2>4
  <2> QED  BY <2>1, <2>3, <2>6, <2>7 DEF whole
<1> QED  BY <1>3, <1>4

\* Entries are in the order of their pieces; the first one clears if it is told to.
LEMMA EntriesEffect ==
  ASSUME NEW batch \in Seq(PieceSet), Growing(batch), NEW c \in BOOLEAN
  PROVE  LET a == [i \in DOMAIN batch |-> Entry(batch[i], c /\ i = 1)]
         IN /\ DOMAIN a = DOMAIN batch /\ (batch # <<>> => a # <<>>)
            /\ \A i, j \in DOMAIN a :
                 i < j /\ a[i].body # <<>> /\ a[j].body # <<>>
                   => Position(a[i].body[1]) < Position(a[j].body[1])
            /\ \A i \in DOMAIN a : /\ a[i].clear <=> c /\ i = 1
                                   /\ a[i].body # <<>> => a[i].body[1].seq = batch[i].seq
<1> DEFINE a == [i \in DOMAIN batch |-> Entry(batch[i], c /\ i = 1)]
<1>1. DOMAIN a = DOMAIN batch
  OBVIOUS
<1>2. ASSUME NEW i \in DOMAIN batch
      PROVE  /\ a[i].clear <=> c /\ i = 1
             /\ a[i].body # <<>> =>
                  a[i].body[1].seq = batch[i].seq /\ Position(a[i].body[1]) = Position(batch[i])
  <2>1. /\ a[i].clear = (c /\ i = 1)
        /\ a[i].body = IF batch[i].seq = 0 THEN <<>>
                       ELSE <<[seq |-> batch[i].seq, start |-> batch[i].start]>>
    BY DEF Entry
  <2> DEFINE x == [seq |-> batch[i].seq, start |-> batch[i].start]
  <2>2. a[i].body # <<>> => a[i].body = <<x>>
    BY <2>1
  <2>3. a[i].body # <<>> => a[i].body[1] = x
    <3> HIDE DEF a, x
    <3> QED  BY <2>2
  <2>4. Position(x) = Position(batch[i])
    BY DEF Position
  <2>5. x.seq = batch[i].seq
    OBVIOUS
  <2> HIDE DEF a, x
  <2> QED  BY <2>1, <2>3, <2>4, <2>5
<1>3. batch # <<>> => a # <<>>
  <2>1. batch # <<>> => 1 \in DOMAIN batch
    OBVIOUS
  <2>2. DOMAIN <<>> = {}
    OBVIOUS
  <2> HIDE DEF a
  <2> QED  BY <1>1, <2>1, <2>2
<1> HIDE DEF a
<1>4. \A i, j \in DOMAIN a :
        i < j /\ a[i].body # <<>> /\ a[j].body # <<>>
          => Position(a[i].body[1]) < Position(a[j].body[1])
  BY <1>1, <1>2 DEF Growing
<1>5. \A i \in DOMAIN a : /\ a[i].clear <=> c /\ i = 1
                          /\ a[i].body # <<>> => a[i].body[1].seq = batch[i].seq
  BY <1>1, <1>2
<1> QED  BY <1>1, <1>3, <1>4, <1>5 DEF a

\* An empty addition.
LEMMA AddedNothing ==
  ASSUME NEW v, NEW w, w.replaying \/ ~v.replaying,
         ~w.replaying => v.accepted <= w.accepted
  PROVE  Added(v, <<>>, w)
<1>1. DOMAIN <<>> = {}
  OBVIOUS
<1> QED  BY <1>1 DEF Added

\* A piece of a frame leaves a page in order, whatever came before it.
LEMMA ShownEffect ==
  ASSUME NEW v \in Views, NEW p \in PieceSet, ViewInv(v)
  PROVE  ViewInv(TakePiece(v, p)) /\ Added(v, Shown(v, p), TakePiece(v, p))
<1> DEFINE whole == Append(Continues(v, p), p)
           some == IF Ends(p) /\ ~(v.replaying /\ v.replay = <<>>) THEN <<>> ELSE whole
           batch == IF v.replaying THEN v.replay \o some ELSE some
           m == Max2(v.accepted, p.seq)
           w == TakePiece(v, p)
           a == Shown(v, p)
<1>1. /\ whole \in Seq(PieceSet) /\ whole # <<>> /\ Growing(whole)
      /\ \A i \in DOMAIN whole : whole[i].seq = p.seq
      /\ p.start => whole = <<p>>
  BY WholeEffect
<1>2. /\ v.partial \in Seq(PieceSet) /\ v.replay \in Seq(PieceSet) /\ v.accepted \in Nat
      /\ v.replaying \in BOOLEAN
  BY DEF Views
<1>3. /\ p.seq \in Nat /\ (p.seq = 0 <=> p.kind \in Marks)
      /\ p.start \in BOOLEAN /\ p.end \in BOOLEAN
      /\ IF p.seq \in Big THEN p.start = ~p.end ELSE p.start /\ p.end
  BY DEF PieceSet
<1>4. m \in Nat /\ v.accepted <= m /\ p.seq <= m /\ (m = v.accepted \/ m = p.seq)
  BY <1>2, <1>3 DEF Max2
<1>5. DOMAIN <<>> = {}
  OBVIOUS
<1>6. CASE p.kind = "reset"
  <2>1. a = <<>> /\ w = [NewView EXCEPT !.replaying = TRUE]
    BY <1>6 DEF Shown, TakePiece
  <2>2. w.replaying /\ w.partial = <<>> /\ w.replay = <<>>
    BY <2>1 DEF NewView
  <2> HIDE DEF a, w
  <2>3. ViewInv(w)
    BY <1>5, <2>2 DEF ViewInv, Growing
  <2> QED  BY <2>1, <2>2, <2>3, AddedNothing DEF a, w
<1>7. CASE p.kind # "reset" /\ Repeated(v, p)
  <2>1. a = <<>> /\ w = [v EXCEPT !.partial = Continues(v, p)]
    BY <1>7 DEF Shown, TakePiece
  <2>2. /\ w.replaying = v.replaying /\ w.accepted = v.accepted /\ w.replay = v.replay
        /\ w.partial = Continues(v, p)
    BY <2>1 DEF Views
  <2>3. w.partial = <<>> \/ w.partial = v.partial
    BY <2>2, Zenon DEF Continues
  <2> HIDE DEF a, w
  <2>4. ViewInv(w)
    BY <2>2, <2>3 DEF ViewInv
  <2>5. Added(v, <<>>, w)
    BY <1>2, <2>2, AddedNothing
  <2> QED  BY <2>1, <2>4, <2>5 DEF a, w
<1>8. CASE p.kind # "reset" /\ ~Repeated(v, p) /\ ~p.end
  <2>1. a = <<>> /\ w = [v EXCEPT !.partial = whole]
    BY <1>8 DEF Shown, TakePiece
  <2> HIDE DEF whole
  <2>2. /\ w.replaying = v.replaying /\ w.accepted = v.accepted /\ w.replay = v.replay
        /\ w.partial = whole
    BY <2>1 DEF Views
  <2>3. p.start /\ whole = <<p>>
    BY <1>1, <1>3, <1>8
  <2> HIDE DEF a, w
  <2>4. ViewInv(w)
    <3>1. Len(<<p>>) = 1 /\ <<p>>[1] = p
      OBVIOUS
    <3> QED  BY <1>8, <2>2, <2>3, <3>1 DEF ViewInv
  <2>5. Added(v, <<>>, w)
    BY <1>2, <2>2, AddedNothing
  <2> QED  BY <2>1, <2>4, <2>5 DEF a, w
<1>9. CASE p.kind # "reset" /\ ~Repeated(v, p) /\ p.end /\ v.replaying /\ ~Ends(p)
  <2> DEFINE r == v.replay \o whole
  <2>1. a = <<>> /\ w = [v EXCEPT !.partial = <<>>, !.accepted = m, !.replay = r]
    BY <1>9 DEF Shown, TakePiece
  <2> HIDE DEF r, m, whole
  <2>2. w.replaying = TRUE /\ w.accepted = m /\ w.replay = r /\ w.partial = <<>>
    BY <1>2, <1>9, <2>1 DEF Views
  <2>3. p.seq > v.accepted
    BY <1>2, <1>3, <1>9 DEF Repeated, Ends, Marks
  <2>4. /\ r \in Seq(PieceSet) /\ Len(r) = Len(v.replay) + Len(whole)
        /\ \A i \in 1..Len(v.replay) + Len(whole) :
             r[i] = IF i <= Len(v.replay) THEN v.replay[i] ELSE whole[i - Len(v.replay)]
    BY <1>1, <1>2, ConcatProperties DEF r
  <2>5. Len(v.replay) \in Nat /\ Len(whole) \in Nat /\ DOMAIN r = 1..Len(v.replay) + Len(whole)
        /\ DOMAIN v.replay = 1..Len(v.replay) /\ DOMAIN whole = 1..Len(whole)
    BY <1>1, <1>2, <2>4, LenProperties
  <2>6. ASSUME NEW i \in DOMAIN r
        PROVE  r[i].seq \in 1..m
    <3>1. CASE i <= Len(v.replay)
      BY <1>2, <1>4, <2>4, <2>5, <3>1 DEF ViewInv
    <3>2. CASE i > Len(v.replay)
      <4>1. i - Len(v.replay) \in DOMAIN whole /\ r[i] = whole[i - Len(v.replay)]
        BY <2>4, <2>5, <3>2
      <4> QED  BY <1>1, <1>2, <1>3, <1>4, <2>3, <4>1
    <3> QED  BY <2>5, <3>1, <3>2
  <2>7. ASSUME NEW i \in DOMAIN r, NEW j \in DOMAIN r, i < j
        PROVE  Position(r[i]) < Position(r[j])
    <3>1. CASE j <= Len(v.replay)
      BY <2>4, <2>5, <2>7, <3>1 DEF ViewInv, Growing
    <3>2. CASE i > Len(v.replay)
      <4>1. /\ i - Len(v.replay) \in DOMAIN whole /\ r[i] = whole[i - Len(v.replay)]
            /\ j - Len(v.replay) \in DOMAIN whole /\ r[j] = whole[j - Len(v.replay)]
        BY <2>4, <2>5, <2>7, <3>2
      <4>2. i - Len(v.replay) < j - Len(v.replay)
        BY <2>5, <2>7
      <4> QED  BY <1>1, <4>1, <4>2 DEF Growing
    <3>3. CASE i <= Len(v.replay) /\ j > Len(v.replay)
      <4>1. j - Len(v.replay) \in DOMAIN whole /\ r[j] = whole[j - Len(v.replay)]
        BY <2>4, <2>5, <3>3
      <4>2. i \in DOMAIN v.replay /\ r[i] = v.replay[i]
        BY <2>4, <2>5, <3>3
      <4>3. r[i].seq <= v.accepted /\ r[j].seq = p.seq
        BY <1>1, <1>2, <4>1, <4>2 DEF ViewInv
      <4>4. r[i] \in PieceSet /\ r[j] \in PieceSet
        BY <2>4, <2>5, ElementOfSeq
      <4> QED  BY <1>2, <1>3, <2>3, <4>3, <4>4, PositionOrder
    <3> QED  BY <2>5, <3>1, <3>2, <3>3
  <2> HIDE DEF a, w
  <2>8. ViewInv(w)
    BY <2>2, <2>6, <2>7 DEF ViewInv, Growing
  <2> QED  BY <2>1, <2>2, <2>8, AddedNothing DEF a, w
<1>10. CASE p.kind # "reset" /\ ~Repeated(v, p) /\ p.end /\ ~(v.replaying /\ ~Ends(p))
  <2> DEFINE e == [i \in DOMAIN batch |-> Entry(batch[i], v.replaying /\ i = 1)]
  <2>1. /\ a = e
        /\ w = [v EXCEPT !.partial = <<>>, !.accepted = m, !.replaying = FALSE, !.replay = <<>>]
    BY <1>10 DEF Shown, TakePiece
  <2>2. ~w.replaying /\ w.accepted = m /\ w.replay = <<>> /\ w.partial = <<>>
    <3> HIDE DEF m
    <3> QED  BY <2>1 DEF Views
  <2>3. ViewInv(w)
    <3> HIDE DEF w
    <3> QED  BY <1>5, <2>2 DEF ViewInv, Growing
  <2>4. CASE v.replaying
    <3>1. Ends(p) /\ p.seq = 0 /\ p.start /\ m = v.accepted
      <4>1. Ends(p) /\ p.seq = 0
        BY <1>3, <1>10, <2>4 DEF Ends, Marks
      <4>2. p.seq \notin Big
        BY <4>1, MirrorAssumption
      <4> QED  BY <1>2, <1>3, <1>4, <4>1, <4>2
    <3>2. batch # <<>> /\ batch \in Seq(PieceSet) /\ Growing(batch)
          /\ \A i \in DOMAIN batch : batch[i].seq <= m
      <4>1. CASE v.replay = <<>>
        <5>1. batch = <<>> \o whole
          BY <2>4, <4>1
        <5>2. batch = whole
          BY <1>1, <5>1, ConcatEmptySeq
        <5> HIDE DEF batch, whole
        <5> QED  BY <1>1, <1>2, <1>3, <1>4, <5>2
      <4>2. CASE v.replay # <<>>
        <5>1. batch = v.replay \o <<>>
          BY <2>4, <3>1, <4>2
        <5>2. batch = v.replay
          BY <1>2, <5>1, ConcatEmptySeq
        <5> HIDE DEF batch
        <5> QED  BY <1>2, <1>4, <4>2, <5>2 DEF ViewInv
      <4> QED  BY <4>1, <4>2
    <3> HIDE DEF batch, e, a, w, m
    <3>3. /\ DOMAIN e = DOMAIN batch /\ e # <<>>
          /\ \A i, j \in DOMAIN e :
               i < j /\ e[i].body # <<>> /\ e[j].body # <<>>
                 => Position(e[i].body[1]) < Position(e[j].body[1])
          /\ \A i \in DOMAIN e : /\ e[i].clear <=> v.replaying /\ i = 1
                                 /\ e[i].body # <<>> => e[i].body[1].seq = batch[i].seq
      BY <1>2, <3>2, EntriesEffect DEF e
    <3>4. Added(v, e, w)
      BY <2>2, <2>4, <3>2, <3>3 DEF Added
    <3> QED  BY <2>1, <2>3, <3>4 DEF a, w
  <2>5. CASE ~v.replaying
    <3>1. batch \in Seq(PieceSet) /\ Growing(batch)
          /\ \A i \in DOMAIN batch : batch[i].seq = p.seq /\ p.seq > v.accepted
      <4>1. CASE Ends(p)
        <5>1. batch = <<>>
          BY <2>5, <4>1
        <5> HIDE DEF batch
        <5> QED  BY <1>5, <5>1, EmptySeq DEF Growing
      <4>2. CASE ~Ends(p)
        <5>1. batch = whole
          BY <2>5, <4>2
        <5>2. p.seq > v.accepted
          BY <1>2, <1>3, <1>10, <4>2 DEF Repeated, Ends, Marks
        <5> HIDE DEF batch, whole
        <5> QED  BY <1>1, <5>1, <5>2
      <4> QED  BY <4>1, <4>2
    <3> HIDE DEF batch, e, a, w, m
    <3>2. /\ DOMAIN e = DOMAIN batch
          /\ \A i, j \in DOMAIN e :
               i < j /\ e[i].body # <<>> /\ e[j].body # <<>>
                 => Position(e[i].body[1]) < Position(e[j].body[1])
          /\ \A i \in DOMAIN e : /\ e[i].clear <=> v.replaying /\ i = 1
                                 /\ e[i].body # <<>> => e[i].body[1].seq = batch[i].seq
      BY <1>2, <3>1, EntriesEffect DEF e
    <3>3. Added(v, e, w)
      BY <1>4, <2>2, <2>5, <3>1, <3>2 DEF Added
    <3> QED  BY <2>1, <2>3, <3>3 DEF a, w
  <2> QED  BY <2>4, <2>5
<1> QED  BY <1>6, <1>7, <1>8, <1>9, <1>10

\* A frame is older than what was accepted before it: its place in the order.
LEMMA OlderPosition ==
  ASSUME NEW x \in ShapeSet, NEW y \in ShapeSet, NEW n \in Nat, x.seq <= n, y.seq > n
  PROVE  Position(x) < Position(y)
  BY PositionOrder

\* The body of an entry is a shape, if there is one.
LEMMA BodyType ==
  ASSUME NEW e \in EntrySet, e.body # <<>>
  PROVE  e.body[1] \in ShapeSet /\ e.body = <<e.body[1]>> /\ DOMAIN e.body = {1} /\ Len(e.body) = 1
<1>1. e.body \in Seq(ShapeSet) /\ Len(e.body) <= 1
  BY DEF EntrySet
<1> DEFINE t == e.body
<1>2. t \in Seq(ShapeSet) /\ Len(t) <= 1 /\ t # <<>>
  BY <1>1
<1> HIDE DEF t
<1>3. Len(t) = 1
  <2> DEFINE n == Len(t)
  <2>1. n \in Nat \ {0} /\ n <= 1
    BY <1>2, EmptySeq
  <2> HIDE DEF n
  <2>2. n = 1
    BY <2>1
  <2> QED  BY <2>2 DEF n
<1>4. t[1] \in ShapeSet /\ t = <<t[1]>> /\ DOMAIN t = {1}
  BY <1>2, <1>3
<1> QED  BY <1>3, <1>4 DEF t

\* What is added to the render queue keeps a page in order.
LEMMA OrderedRead ==
  ASSUME NEW v \in Views, NEW w \in Views, NEW s \in Seq(ShapeSet), NEW p \in Seq(EntrySet),
         NEW a \in Seq(EntrySet), Ordered(s, p, v), ViewInv(w), Added(v, a, w)
  PROVE  Ordered(s, p \o a, w)
<1> DEFINE q == p \o a
           n == Len(p)
<1>1. /\ q \in Seq(EntrySet) /\ Len(q) = n + Len(a)
      /\ \A i \in 1..n + Len(a) : q[i] = IF i <= n THEN p[i] ELSE a[i - n]
  BY ConcatProperties
<1>2. n \in Nat /\ Len(a) \in Nat /\ DOMAIN p = 1..n /\ DOMAIN a = 1..Len(a)
      /\ DOMAIN q = 1..n + Len(a)
  <2> HIDE DEF q
  <2> QED  BY <1>1, LenProperties
<1>3. v.accepted \in Nat /\ w.accepted \in Nat /\ v.replaying \in BOOLEAN /\ w.replaying \in BOOLEAN
  BY DEF Views
<1> HIDE DEF q, n
<1>4. \A i \in DOMAIN p : i \in DOMAIN q /\ q[i] = p[i]
  BY <1>1, <1>2
<1>5. \A i \in DOMAIN q : i > n => i - n \in DOMAIN a /\ q[i] = a[i - n]
  BY <1>1, <1>2
<1>6. \A i \in DOMAIN q : q[i] \in EntrySet
  BY <1>1, <1>2, ElementOfSeq
<1>7. \A i \in DOMAIN q : q[i].body # <<>> => q[i].body[1] \in ShapeSet
  BY <1>6, BodyType
\* What clears nothing up to an added entry comes from a view without a replay.
<1>8. ASSUME NEW m \in 1..n + 1, NEW j \in DOMAIN q, j > n, NoClear(q, m, j)
      PROVE  ~v.replaying /\ NoClear(p, m, n)
  <2>1. n + 1 \in m..j /\ n + 1 \in DOMAIN q /\ 1 \in DOMAIN a
    BY <1>2, <1>8
  <2>2. ~q[n + 1].clear
    BY <1>8, <2>1 DEF NoClear
  <2>3. q[n + 1] = a[1]
    BY <1>2, <1>5, <2>1
  <2>4. ~v.replaying
    BY <2>1, <2>2, <2>3 DEF Added
  <2>5. \A k \in m..n : k \in m..j /\ k \in DOMAIN p
    BY <1>2, <1>8
  <2> QED  BY <1>4, <1>8, <2>4, <2>5 DEF NoClear
<1>9. ASSUME NEW m \in Nat, NEW j \in DOMAIN p, m >= 1, NoClear(q, m, j)
      PROVE  NoClear(p, m, j)
  <2>1. \A k \in m..j : k \in DOMAIN p
    BY <1>2, <1>9
  <2> QED  BY <1>4, <1>9, <2>1 DEF NoClear
<1>10. PaintInv(q)
  <2> SUFFICES ASSUME NEW i \in DOMAIN q, NEW j \in DOMAIN q, i < j, q[i].body # <<>>,
                      q[j].body # <<>>, NoClear(q, i + 1, j)
               PROVE  Position(q[i].body[1]) < Position(q[j].body[1])
    BY DEF PaintInv
  <2>1. CASE j <= n
    <3>1. i \in DOMAIN p /\ j \in DOMAIN p /\ NoClear(p, i + 1, j)
      BY <1>2, <1>9, <2>1
    <3> QED  BY <1>4, <3>1 DEF Ordered, PaintInv
  <2>2. CASE i > n
    <3>1. /\ i - n \in DOMAIN a /\ q[i] = a[i - n] /\ j - n \in DOMAIN a /\ q[j] = a[j - n]
          /\ i - n < j - n
      BY <1>2, <1>5, <2>2
    <3> QED  BY <3>1 DEF Added
  <2>3. CASE i <= n /\ j > n
    <3>1. i \in DOMAIN p /\ i + 1 \in 1..n + 1
      BY <1>2, <2>3
    <3>2. ~v.replaying /\ NoClear(p, i + 1, n)
      BY <1>8, <2>3, <3>1
    <3>3. q[i].body[1].seq <= v.accepted
      BY <1>4, <3>1, <3>2 DEF Ordered, BoundInv, n
    <3>4. q[j].body[1].seq > v.accepted
      BY <1>5, <2>3, <3>2 DEF Added
    <3> QED  BY <1>3, <1>7, <3>3, <3>4, OlderPosition
  <2> QED  BY <1>2, <2>1, <2>2, <2>3
<1>11. LineInv(s, q)
  <2> SUFFICES ASSUME NEW i \in DOMAIN s, NEW j \in DOMAIN q, q[j].body # <<>>, NoClear(q, 1, j)
               PROVE  Position(s[i]) < Position(q[j].body[1])
    BY DEF LineInv
  <2>1. CASE j <= n
    <3>1. j \in DOMAIN p /\ NoClear(p, 1, j)
      BY <1>2, <1>9, <2>1
    <3> QED  BY <1>4, <3>1 DEF Ordered, LineInv
  <2>2. CASE j > n
    <3>1. ~v.replaying /\ NoClear(p, 1, n)
      BY <1>2, <1>8, <2>2
    <3>2. s[i].seq <= v.accepted /\ s[i] \in ShapeSet
      BY <3>1 DEF Ordered, BoundInv, n
    <3>3. q[j].body[1].seq > v.accepted
      BY <1>5, <2>2, <3>1 DEF Added
    <3> QED  BY <1>3, <1>7, <3>2, <3>3, OlderPosition
  <2> QED  BY <1>2, <2>1, <2>2
<1>12. BoundInv(s, q, w)
  <2> SUFFICES ASSUME ~w.replaying
               PROVE  /\ \A j \in DOMAIN q :
                           q[j].body # <<>> /\ NoClear(q, j + 1, Len(q)) => q[j].body[1].seq <= w.accepted
                      /\ NoClear(q, 1, Len(q)) => \A i \in DOMAIN s : s[i].seq <= w.accepted
    BY DEF BoundInv
  <2>1. ASSUME NEW m \in 1..n + 1, NoClear(q, m, Len(q))
        PROVE  ~v.replaying /\ NoClear(p, m, n) /\ v.accepted <= w.accepted
    <3>1. CASE Len(a) = 0
      <4>1. ~v.replaying
        BY <3>1, EmptySeq DEF Added
      <4>2. \A k \in m..n : k \in DOMAIN p /\ k \in m..Len(q)
        BY <1>1, <1>2, <3>1
      <4> QED  BY <1>4, <2>1, <4>1, <4>2 DEF NoClear, Added
    <3>2. CASE Len(a) # 0
      <4>1. Len(q) \in DOMAIN q /\ Len(q) > n
        BY <1>1, <1>2, <3>2
      <4> QED  BY <1>8, <2>1, <4>1 DEF Added
    <3> QED  BY <3>1, <3>2
  <2>2. ASSUME NEW j \in DOMAIN q, q[j].body # <<>>, NoClear(q, j + 1, Len(q))
        PROVE  q[j].body[1].seq <= w.accepted
    <3>1. CASE j > n
      BY <1>5, <2>2, <3>1 DEF Added
    <3>2. CASE j <= n
      <4>1. j \in DOMAIN p /\ j + 1 \in 1..n + 1
        BY <1>2, <3>2
      <4>2. ~v.replaying /\ NoClear(p, j + 1, n) /\ v.accepted <= w.accepted
        BY <2>1, <2>2, <4>1
      <4>3. q[j].body[1].seq <= v.accepted
        BY <1>4, <2>2, <4>1, <4>2 DEF Ordered, BoundInv, n
      <4>4. q[j].body[1].seq \in Nat
        BY <1>7, <2>2 DEF ShapeSet
      <4> QED  BY <1>3, <4>2, <4>3, <4>4
    <3> QED  BY <1>2, <3>1, <3>2
  <2>3. ASSUME NoClear(q, 1, Len(q)), NEW i \in DOMAIN s
        PROVE  s[i].seq <= w.accepted
    <3>1. ~v.replaying /\ NoClear(p, 1, n) /\ v.accepted <= w.accepted
      BY <1>2, <2>1, <2>3
    <3>2. s[i].seq <= v.accepted
      BY <3>1 DEF Ordered, BoundInv, n
    <3>3. s[i].seq \in Nat
      <4>1. s[i] \in ShapeSet
        OBVIOUS
      <4> QED  BY <4>1 DEF ShapeSet
    <3> QED  BY <1>3, <3>1, <3>2, <3>3
  <2> QED  BY <2>2, <2>3
<1> QED  BY <1>10, <1>11, <1>12 DEF Ordered, q

\* What is drawn from the render queue keeps a page in order.
LEMMA OrderedDraw ==
  ASSUME NEW v \in Views, NEW s \in Seq(ShapeSet), NEW p \in Seq(EntrySet), p # <<>>,
         Ordered(s, p, v)
  PROVE  Ordered((IF Head(p).clear THEN <<>> ELSE s) \o Head(p).body, Tail(p), v)
<1> DEFINE e == p[1]
           from == IF e.clear THEN <<>> ELSE s
           t == from \o e.body
           q == Tail(p)
           n == Len(p)
<1>1. /\ Head(p) = e /\ n \in Nat \ {0} /\ DOMAIN p = 1..n /\ e \in EntrySet
      /\ q \in Seq(EntrySet) /\ Len(q) = n - 1
      /\ \A i \in 1..Len(q) : q[i] = p[i + 1]
  BY HeadTailProperties, EmptySeq
<1> HIDE DEF e, q
<1>2. DOMAIN q = 1..n - 1
  BY <1>1, LenProperties
<1> HIDE DEF n
<1>3. \A i \in DOMAIN q : i + 1 \in DOMAIN p /\ q[i] = p[i + 1]
  BY <1>1, <1>2
<1>4. ASSUME NEW m \in Nat, m >= 1, NEW j \in 0..n - 1, NoClear(q, m, j)
      PROVE  NoClear(p, m + 1, j + 1)
  <2>1. \A k \in m + 1..j + 1 : k - 1 \in m..j /\ k - 1 \in DOMAIN q /\ q[k - 1] = p[k]
    BY <1>1, <1>2, <1>3, <1>4
  <2> QED  BY <1>4, <2>1 DEF NoClear
<1>5. ASSUME NEW j \in DOMAIN p, NoClear(p, 2, j), ~e.clear
      PROVE  NoClear(p, 1, j)
  <2>1. \A k \in 1..j : k = 1 \/ k \in 2..j
    BY <1>1
  <2> QED  BY <1>5, <2>1 DEF NoClear, e
<1>6. e.body \in Seq(ShapeSet) /\ from \in Seq(ShapeSet)
  BY <1>1, EmptySeq DEF EntrySet
<1>7. /\ t \in Seq(ShapeSet) /\ Len(t) = Len(from) + Len(e.body)
      /\ \A i \in 1..Len(from) + Len(e.body) :
           t[i] = IF i <= Len(from) THEN from[i] ELSE e.body[i - Len(from)]
      /\ DOMAIN t = 1..Len(from) + Len(e.body) /\ Len(from) \in Nat /\ Len(e.body) \in Nat
  <2> HIDE DEF from
  <2> QED  BY <1>6, ConcatProperties
<1>8. ASSUME NEW i \in DOMAIN t
      PROVE  \/ ~e.clear /\ i \in DOMAIN s /\ t[i] = s[i]
             \/ e.body # <<>> /\ i = Len(t) /\ t[i] = e.body[1]
  <2>1. CASE i <= Len(from)
    <3>1. i \in DOMAIN from /\ t[i] = from[i]
      <4> HIDE DEF t, from
      <4> QED  BY <1>6, <1>7, <2>1
    <3>2. ~e.clear
      BY <3>1
    <3> QED  BY <3>1, <3>2
  <2>2. CASE i > Len(from)
    <3> HIDE DEF t, from
    <3>1. i - Len(from) \in 1..Len(e.body) /\ t[i] = e.body[i - Len(from)]
      BY <1>7, <2>2
    <3>2. e.body # <<>>
      BY <1>6, <3>1, EmptySeq
    <3>3. Len(e.body) = 1
      BY <1>1, <3>2, BodyType
    <3>4. i - Len(from) = 1 /\ i = Len(t)
      BY <1>7, <3>1, <3>3
    <3> QED  BY <3>1, <3>2, <3>4
  <2>3. i <= Len(from) \/ i > Len(from)
    <3> HIDE DEF t, from
    <3> QED  BY <1>7
  <2> QED  BY <2>1, <2>2, <2>3
<1> HIDE DEF t
<1>9. PaintInv(q)
  <2> SUFFICES ASSUME NEW i \in DOMAIN q, NEW j \in DOMAIN q, i < j, q[i].body # <<>>,
                      q[j].body # <<>>, NoClear(q, i + 1, j)
               PROVE  Position(q[i].body[1]) < Position(q[j].body[1])
    BY DEF PaintInv
  <2>1. NoClear(p, (i + 1) + 1, j + 1) /\ i + 1 < j + 1
    BY <1>2, <1>4
  <2> QED  BY <1>3, <2>1 DEF Ordered, PaintInv
<1>10. Growing(t)
  <2> SUFFICES ASSUME NEW i \in DOMAIN t, NEW j \in DOMAIN t, i < j
               PROVE  Position(t[i]) < Position(t[j])
    BY DEF Growing
  <2>1. ~e.clear /\ i \in DOMAIN s /\ t[i] = s[i]
    <3> HIDE DEF from
    <3>1. i # Len(t)
      BY <1>7
    <3> QED  BY <1>8, <3>1
  <2>2. CASE j \in DOMAIN s /\ t[j] = s[j]
    BY <2>1, <2>2 DEF Ordered, Growing
  <2>3. CASE e.body # <<>> /\ t[j] = e.body[1]
    <3>1. NoClear(p, 1, 1) /\ 1 \in DOMAIN p
      BY <1>1, <2>1 DEF NoClear, e
    <3> QED  BY <2>1, <2>3, <3>1 DEF Ordered, LineInv, e
  <2> QED  BY <1>8, <2>2, <2>3
<1>11. LineInv(t, q)
  <2> SUFFICES ASSUME NEW i \in DOMAIN t, NEW j \in DOMAIN q, q[j].body # <<>>, NoClear(q, 1, j)
               PROVE  Position(t[i]) < Position(q[j].body[1])
    BY DEF LineInv
  <2>1. NoClear(p, 2, j + 1) /\ j + 1 \in DOMAIN p /\ q[j] = p[j + 1] /\ 1 < j + 1 /\ 1 \in DOMAIN p
    <3>1. NoClear(p, 1 + 1, j + 1)
      BY <1>2, <1>4
    <3> QED  BY <1>1, <1>2, <1>3, <3>1
  <2>2. CASE ~e.clear /\ i \in DOMAIN s /\ t[i] = s[i]
    BY <1>5, <2>1, <2>2 DEF Ordered, LineInv
  <2>3. CASE e.body # <<>> /\ t[i] = e.body[1]
    <3>1. 1 + 1 = 2
      OBVIOUS
    <3> QED  BY <2>1, <2>3, <3>1 DEF Ordered, PaintInv, e
  <2> QED  BY <1>8, <2>2, <2>3
<1>12. BoundInv(t, q, v)
  <2> SUFFICES ASSUME ~v.replaying
               PROVE  /\ \A j \in DOMAIN q :
                           q[j].body # <<>> /\ NoClear(q, j + 1, Len(q)) => q[j].body[1].seq <= v.accepted
                      /\ NoClear(q, 1, Len(q)) => \A i \in DOMAIN t : t[i].seq <= v.accepted
    BY DEF BoundInv
  <2>1. ASSUME NEW j \in DOMAIN q, q[j].body # <<>>, NoClear(q, j + 1, Len(q))
        PROVE  q[j].body[1].seq <= v.accepted
    <3>1. NoClear(p, (j + 1) + 1, (n - 1) + 1) /\ (n - 1) + 1 = n
      BY <1>1, <1>2, <1>4, <2>1
    <3> QED  BY <1>3, <2>1, <3>1 DEF Ordered, BoundInv, n
  <2>2. ASSUME NoClear(q, 1, Len(q)), NEW i \in DOMAIN t
        PROVE  t[i].seq <= v.accepted
    <3>1. NoClear(p, 2, n) /\ n \in DOMAIN p /\ 1 \in DOMAIN p
      <4>1. NoClear(p, 1 + 1, (n - 1) + 1) /\ (n - 1) + 1 = n
        BY <1>1, <1>4, <2>2
      <4> QED  BY <1>1, <4>1
    <3>2. CASE ~e.clear /\ i \in DOMAIN s /\ t[i] = s[i]
      <4>1. NoClear(p, 1, n)
        BY <1>5, <3>1, <3>2
      <4> QED  BY <3>2, <4>1 DEF Ordered, BoundInv, n
    <3>3. CASE e.body # <<>> /\ t[i] = e.body[1]
      <4>1. NoClear(p, 1 + 1, n)
        BY <3>1
      <4> QED  BY <3>1, <3>3, <4>1 DEF Ordered, BoundInv, n, e
    <3> QED  BY <1>8, <3>2, <3>3
  <2> QED  BY <2>1, <2>2
<1>13. ViewInv(v)
  BY DEF Ordered
<1> QED  BY <1>1, <1>9, <1>10, <1>11, <1>12, <1>13 DEF Ordered, t, q

\* A terminal of which nothing has been shown.
LEMMA OrderedNew == Ordered(<<>>, <<>>, NewView)
<1>1. DOMAIN <<>> = {}
  OBVIOUS
<1>2. NewView.partial = <<>> /\ NewView.replay = <<>>
  BY DEF NewView
<1>3. ViewInv(NewView)
  BY <1>1, <1>2 DEF ViewInv, Growing
<1> QED  BY <1>1, <1>3 DEF Ordered, PaintInv, LineInv, BoundInv, Growing

\* Every step keeps the order of each page.
LEMMA OrderStep ==
  ASSUME TypeInv, OrderInv, [Next]_vars
  PROVE  OrderInv'
<1>1. CASE UNCHANGED <<view, paint, screen>>
  BY <1>1 DEF OrderInv
<1>2. ASSUME NEW b \in Browsers, Read(b)
      PROVE  OrderInv'
  <2> DEFINE x == Head(reading[b])
  <2>1. x \in PieceSet
    BY <1>2, HeadTailProperties DEF Read, TypeInv, PageOK
  <2>2. /\ view[b] \in Views /\ paint[b] \in Seq(EntrySet) /\ screen[b] \in Seq(ShapeSet)
        /\ Ordered(screen[b], paint[b], view[b]) /\ ViewInv(view[b])
    BY DEF TypeInv, PageOK, DrawOK, OrderInv, Ordered
  <2>3. Ordered(screen[b], paint[b] \o Shown(view[b], x), TakePiece(view[b], x))
    BY <2>1, <2>2, PieceEffect, ShownEffect, OrderedRead
  <2>4. /\ view' = [view EXCEPT ![b] = TakePiece(view[b], x)]
        /\ paint' = [paint EXCEPT ![b] = paint[b] \o Shown(view[b], x)] /\ screen' = screen
    BY <1>2 DEF Read
  <2> HIDE DEF x
  <2>5. ASSUME NEW c \in Browsers
        PROVE  Ordered(screen'[c], paint'[c], view'[c])
    BY <2>3, <2>4 DEF TypeInv, PageOK, DrawOK, OrderInv
  <2> QED  BY <2>5 DEF OrderInv
<1>3. ASSUME NEW b \in Browsers, Draw(b)
      PROVE  OrderInv'
  <2> DEFINE t == (IF Head(paint[b]).clear THEN <<>> ELSE screen[b]) \o Head(paint[b]).body
  <2>1. /\ view[b] \in Views /\ paint[b] \in Seq(EntrySet) /\ screen[b] \in Seq(ShapeSet)
        /\ Ordered(screen[b], paint[b], view[b])
    BY DEF TypeInv, PageOK, DrawOK, OrderInv
  <2>2. Ordered(t, Tail(paint[b]), view[b])
    BY <1>3, <2>1, OrderedDraw DEF Draw
  <2>3. /\ screen' = [screen EXCEPT ![b] = t] /\ paint' = [paint EXCEPT ![b] = Tail(paint[b])]
        /\ view' = view
    BY <1>3 DEF Draw
  <2> HIDE DEF t
  <2>4. ASSUME NEW c \in Browsers
        PROVE  Ordered(screen'[c], paint'[c], view'[c])
    BY <2>2, <2>3 DEF TypeInv, DrawOK, OrderInv
  <2> QED  BY <2>4 DEF OrderInv
<1>4. ASSUME NEW b \in Browsers, Leave(b)
      PROVE  OrderInv'
  <2>1. /\ screen' = [screen EXCEPT ![b] = <<>>] /\ paint' = [paint EXCEPT ![b] = <<>>]
        /\ view' = [view EXCEPT ![b] = NewView]
    BY <1>4 DEF Leave
  <2>2. ASSUME NEW c \in Browsers
        PROVE  Ordered(screen'[c], paint'[c], view'[c])
    BY <2>1, OrderedNew DEF TypeInv, PageOK, DrawOK, OrderInv
  <2> QED  BY <2>2 DEF OrderInv
<1>5. ASSUME NEW b \in Browsers, Unpack(b) \/ Mount(b) \/ Ready(b) \/ Open(b) \/ BrowserDrop(b)
      PROVE  OrderInv'
  BY <1>1, <1>5 DEF Unpack, Mount, Ready, Open, BrowserDrop, page, drawing
<1>6. CASE Produce \/ Evict \/ Refused \/ Relink \/ LinkDrop \/ Reload
  BY <1>1, <1>6 DEF Produce, Evict, Refused, Relink, LinkDrop, Reload, page, drawing
<1>7. CASE TakeAttach \/ TakeDetach \/ Collect \/ Flush \/ Admit \/ PublishDone \/ GiveUp
  BY <1>1, <1>7 DEF TakeAttach, TakeDetach, Collect, Flush, Admit, PublishDone, GiveUp, page, drawing
<1>8. CASE Send \/ DeviceDrop \/ DeviceUp
  BY <1>1, <1>8 DEF Send, DeviceDrop, DeviceUp, page, drawing
<1>9. CASE UNCHANGED vars
  BY <1>1, <1>9 DEF vars, page, drawing
<1> QED  BY <1>2, <1>3, <1>4, <1>5, <1>6, <1>7, <1>8, <1>9 DEF Next, Progress, Fault, BridgeStep

\* Whatever connection is lost and whatever is attached or replayed again, no page
\* draws a piece of output twice or after a later one.
THEOREM OrderAlways == Spec => []DrawnInOrder
<1>1. Init => OrderInv
  BY OrderedNew DEF Init, OrderInv
<1>2. TypeInv /\ OrderInv /\ [Next]_vars => OrderInv'
  BY OrderStep
<1>3. OrderInv => DrawnInOrder
  BY DEF OrderInv, Ordered, Growing, DrawnInOrder
<1> QED  BY <1>1, <1>2, <1>3, TypeAlways, PTL DEF Spec

(***************************************************************************)
(* Nothing is lost between the daemon and the page.                        *)
(*                                                                         *)
(* What the bridge has collected since its attach is one line of pieces G, *)
(* and chunk n is what lies between the cuts K[n - 1] and K[n] of it, in   *)
(* whichever queue it is.  What a page has read is a beginning of G.  A    *)
(* frame is due where it begins in G: the frame before it, or a reset with *)
(* nothing after it, has been there.                                       *)
(***************************************************************************)

\* One shape after another, as Whole has it.
Successive(x, y) ==
  /\ y.start \/ x.seq = y.seq
  /\ y.start => y.seq = x.seq + 1 /\ x.start = (x.seq \notin Big)
Chained(s) ==
  /\ s # <<>> => s[1].start
  /\ \A i \in 2..Len(s) : Successive(s[i - 1], s[i])
\* t ends with the whole frame n, or is empty.
Tip(t, n) ==
  IF t = <<>> THEN n = 0
  ELSE n > 0 /\ t[Len(t)].seq = n /\ t[Len(t)].start = (t[Len(t)].seq \notin Big)

NoReset(q, m, n) == \A k \in m..n : q[k].kind # "reset"
Unnumbered(q, m, n) == \A k \in m..n : q[k].seq = 0
\* Frame s may begin after the first n pieces of G.
Due(G, n, s) ==
  \/ \E j \in 1..n : s > 1 /\ G[j].seq = s - 1 /\ G[j].end /\ NoReset(G, j, n)
  \/ \E j \in 1..n : G[j].kind = "reset" /\ Unnumbered(G, j + 1, n)
\* Frames are whole, and begin where they are due.
LegalLine(G) ==
  \A i \in DOMAIN G :
    /\ G[i].start /\ G[i].seq > 0 => Due(G, i - 1, G[i].seq)
    /\ ~G[i].end => i + 1 \in DOMAIN G
    /\ ~G[i].start => /\ i > 1 /\ ~G[i - 1].end
                      /\ G[i - 1].seq = G[i].seq /\ G[i - 1].kind = G[i].kind

\* The newest frame in the first p pieces of G, since the last reset.
Seen(G, p, n) ==
  /\ \A j \in 1..p : G[j].end /\ NoReset(G, j, p) => G[j].seq <= n
  /\ n = 0 \/ \E j \in 1..p : G[j].seq = n /\ G[j].end /\ NoReset(G, j, p)
\* The view of a page that has read the first p pieces of G.
HalfOf(G, p, n) == IF p >= 1 /\ ~G[p].end /\ G[p].seq > n THEN <<G[p]>> ELSE <<>>
ViewOf(G, p, v) ==
  /\ Seen(G, p, v.accepted)
  /\ v.partial = HalfOf(G, p, v.accepted)
  /\ ~v.replaying => v.replay = <<>>
  /\ v.replaying => /\ Chained(v.replay) /\ Tip(v.replay, v.accepted)
                    /\ \A i \in DOMAIN v.replay : v.replay[i].seq > 0

\* What is given to the screen continues it, or clears it.
Fits(t, e) ==
  /\ e.body = <<>> => e.clear
  /\ e.body # <<>> => IF e.clear \/ t = <<>> THEN e.body[1].start ELSE Successive(t[Len(t)], e.body[1])
Before(s, q, i) == IF i = 1 THEN s ELSE q[i - 1].body
Left(s, q) == IF q = <<>> THEN s ELSE q[Len(q)].body
Drawing(s, q) == Chained(s) /\ \A i \in DOMAIN q : Fits(Before(s, q, i), q[i])
DrawnOf(s, q, v) == Drawing(s, q) /\ (~v.replaying => Tip(Left(s, q), v.accepted))

\* A sequence of one element, and of two.
LEMMA SmallSeq ==
  ASSUME NEW T, NEW x \in T
  PROVE  /\ <<x>> \in Seq(T) /\ Len(<<x>>) = 1 /\ <<x>>[1] = x /\ DOMAIN <<x>> = {1} /\ <<x>> # <<>>
         /\ Append(<<>>, x) = <<x>>
  OBVIOUS

\* What is appended to a sequence of one element.
LEMMA PairSeq ==
  ASSUME NEW T, NEW z \in Seq(T), Len(z) = 1, NEW x \in T
  PROVE  /\ Append(z, x) \in Seq(T) /\ Len(Append(z, x)) = 2 /\ DOMAIN Append(z, x) = {1, 2}
         /\ Append(z, x)[1] = z[1] /\ Append(z, x)[2] = x /\ Append(z, x) # <<>>
<1> DEFINE q == Append(z, x)
<1>a. q \in Seq(T)
  BY AppendProperties
<1>b. Len(q) = Len(z) + 1
  BY AppendProperties
<1>c. \A i \in 1..Len(z) : q[i] = z[i]
  BY AppendProperties
<1>d. q[Len(z) + 1] = x
  BY AppendProperties
<1>1. q \in Seq(T) /\ Len(q) = 2
  <2> HIDE DEF q
  <2> QED  BY <1>a, <1>b
<1>2. \A i \in 1..1 : q[i] = z[i]
  BY <1>c
<1>3. q[1 + 1] = x
  BY <1>d
<1> HIDE DEF q
<1>4. DOMAIN q = 1..2 /\ 1..2 = {1, 2}
  BY <1>1, LenProperties
<1>5. q # <<>>
  BY <1>1, EmptySeq
<1> QED  BY <1>1, <1>2, <1>3, <1>4, <1>5 DEF q

\* A chain of shapes is what Whole asks of a screen.
LEMMA ChainedWhole ==
  ASSUME NEW s \in Seq(ShapeSet), Chained(s)
  PROVE  Whole(s)
<1>1. DOMAIN s = 1..Len(s) /\ Len(s) \in Nat
  BY LenProperties
<1> SUFFICES ASSUME NEW i \in DOMAIN s
             PROVE  /\ s[i].start \/ (i > 1 /\ s[i - 1].seq = s[i].seq)
                    /\ i > 1 /\ s[i].start => s[i].seq = s[i - 1].seq + 1
                    /\ i > 1 /\ s[i].start => s[i - 1].start = (s[i - 1].seq \notin Big)
  BY DEF Whole
<1>2. CASE i = 1
  <2>1. s # <<>>
    BY <1>1
  <2> QED  BY <1>2, <2>1 DEF Chained
<1>3. CASE i > 1
  <2>1. i \in 2..Len(s)
    BY <1>1, <1>3
  <2> QED  BY <1>3, <2>1 DEF Chained, Successive
<1> QED  BY <1>1, <1>2, <1>3

\* A chain is continued by what succeeds its last element.
LEMMA ChainedConcat ==
  ASSUME NEW T, NEW s \in Seq(T), NEW t \in Seq(T), Chained(s), t # <<>>,
         IF s = <<>> THEN t[1].start ELSE Successive(s[Len(s)], t[1]),
         \A i \in 2..Len(t) : Successive(t[i - 1], t[i])
  PROVE  /\ Chained(s \o t) /\ s \o t # <<>> /\ (s \o t)[Len(s \o t)] = t[Len(t)]
         /\ (s \o t)[1] = IF s = <<>> THEN t[1] ELSE s[1]
<1> DEFINE r == s \o t
           m == Len(s)
           n == Len(t)
<1>1. /\ r \in Seq(T) /\ Len(r) = m + n /\ m \in Nat /\ n \in Nat
      /\ \A i \in 1..m + n : r[i] = IF i <= m THEN s[i] ELSE t[i - m]
  BY ConcatProperties, LenProperties
<1>2. n # 0 /\ (s = <<>> <=> m = 0)
  BY EmptySeq
<1> HIDE DEF r, m, n
<1>3. r # <<>>
  BY <1>1, <1>2, EmptySeq
<1>4. r[m + n] = t[n]
  BY <1>1, <1>2
<1>5. r[1] = IF s = <<>> THEN t[1] ELSE s[1]
  BY <1>1, <1>2
<1>6. r[1].start
  <2>1. CASE s = <<>>
    BY <1>5, <2>1
  <2>2. CASE s # <<>>
    BY <1>5, <2>2 DEF Chained
  <2> QED  BY <2>1, <2>2
<1>7. ASSUME NEW i \in 2..m + n
      PROVE  Successive(r[i - 1], r[i])
  <2>1. CASE i <= m
    <3>1. i \in 2..m /\ i \in 1..m + n /\ i - 1 \in 1..m + n /\ i - 1 <= m
      BY <1>1, <2>1
    <3>2. r[i] = s[i]
      BY <1>1, <2>1, <3>1
    <3>3. r[i - 1] = s[i - 1]
      BY <1>1, <3>1
    <3> QED  BY <3>1, <3>2, <3>3 DEF Chained, m
  <2>2. CASE i = m + 1
    <3>1. r[i] = t[1] /\ r[i - 1] = s[m] /\ s # <<>>
      BY <1>1, <1>2, <2>2
    <3> QED  BY <3>1 DEF m
  <2>3. CASE i > m + 1
    <3> DEFINE k == i - m
    <3>0. i \in 1..m + n /\ ~(i <= m) /\ i - 1 \in 1..m + n /\ ~(i - 1 <= m) /\ k \in 2..n
      BY <1>1, <2>3
    <3>1. k \in 2..n /\ r[i] = t[k]
      BY <1>1, <3>0
    <3>2. (i - 1) - m = k - 1
      BY <1>1
    <3>3. r[i - 1] = t[(i - 1) - m]
      BY <1>1, <3>0
    <3> HIDE DEF k
    <3> QED  BY <3>1, <3>2, <3>3 DEF n
  <2> QED  BY <1>1, <2>1, <2>2, <2>3
<1>8. Chained(r)
  BY <1>1, <1>6, <1>7 DEF Chained
<1> QED  BY <1>1, <1>3, <1>4, <1>5, <1>8 DEF r, n

\* More pieces do not change what was due.
LEMMA DuePrefix ==
  ASSUME NEW T, NEW G \in Seq(T), NEW r \in Seq(T), NEW n \in 0..Len(G), NEW s
  PROVE  Due(G \o r, n, s) <=> Due(G, n, s)
<1>1. /\ Len(G) \in Nat
      /\ \A i \in 1..Len(G) + Len(r) : (G \o r)[i] = IF i <= Len(G) THEN G[i] ELSE r[i - Len(G)]
  BY ConcatProperties, LenProperties
<1> DEFINE H == G \o r
<1>2. \A i \in 1..n : H[i] = G[i]
  BY <1>1, LenProperties
<1> HIDE DEF H
<1>3. ASSUME NEW j \in 1..n
      PROVE  /\ H[j] = G[j] /\ (NoReset(H, j, n) <=> NoReset(G, j, n))
             /\ (Unnumbered(H, j + 1, n) <=> Unnumbered(G, j + 1, n))
  <2>1. (\A k \in j..n : k \in 1..n) /\ \A k \in j + 1..n : k \in 1..n
    OBVIOUS
  <2> QED  BY <1>2, <2>1 DEF NoReset, Unnumbered
<1>4. Due(H, n, s) <=> Due(G, n, s)
  BY <1>3 DEF Due
<1> QED  BY <1>4 DEF H

\* A frame that is due and newer than what has been seen is the next one.
LEMMA DueAccepted ==
  ASSUME NEW G \in Seq(PieceSet), NEW p \in 0..Len(G), NEW m \in 0..p, NEW n \in Nat, NEW s \in Nat,
         Seen(G, p, n), Due(G, m, s), n < s,
         \A k \in m + 1..p : ~G[k].end /\ G[k].kind # "reset"
  PROVE  n = 0 \/ s = n + 1
<1>0. Len(G) \in Nat /\ DOMAIN G = 1..Len(G) /\ \A j \in 1..p : G[j].seq \in Nat
  BY LenProperties DEF PieceSet
<1>1. ASSUME NEW j \in 1..m, s > 1, G[j].seq = s - 1, G[j].end, NoReset(G, j, m)
      PROVE  s = n + 1
  <2>1. NoReset(G, j, p)
    <3>1. \A k \in j..p : k \in j..m \/ k \in m + 1..p
      OBVIOUS
    <3> QED  BY <1>1, <3>1 DEF NoReset
  <2>2. G[j].seq <= n
    BY <1>0, <1>1, <2>1 DEF Seen
  <2> QED  BY <1>1, <2>2
<1>2. ASSUME NEW j \in 1..m, G[j].kind = "reset", Unnumbered(G, j + 1, m), n # 0
      PROVE  FALSE
  <2>1. PICK i \in 1..p : G[i].seq = n /\ G[i].end /\ NoReset(G, i, p)
    BY <1>2 DEF Seen
  <2>2. i \notin m + 1..p
    BY <2>1
  <2>3. j \notin i..p
    BY <1>2, <2>1 DEF NoReset
  <2>4. i \in j + 1..m
    BY <1>0, <2>2, <2>3
  <2> QED  BY <1>2, <2>1, <2>4 DEF Unnumbered
<1> QED  BY <1>1, <1>2 DEF Due

\* What has been seen when one more piece has been read.
LEMMA SeenNext ==
  ASSUME NEW G \in Seq(PieceSet), NEW p \in Nat, p + 1 \in DOMAIN G, NEW n \in Nat, Seen(G, p, n),
         G[p + 1].kind # "reset", NEW m \in Nat,
         m = IF G[p + 1].end THEN Max2(n, G[p + 1].seq) ELSE n
  PROVE  Seen(G, p + 1, m)
<1> DEFINE x == G[p + 1]
<1>0. x.seq \in Nat /\ Len(G) \in Nat /\ p + 1 <= Len(G) /\ \A j \in 1..p + 1 : G[j].seq \in Nat
  BY LenProperties DEF PieceSet
<1>1. n <= m /\ (x.end => x.seq <= m) /\ (m = n \/ (m = x.seq /\ x.end))
  BY <1>0 DEF Max2
<1>2. ASSUME NEW j \in 1..p + 1, G[j].end, NoReset(G, j, p + 1)
      PROVE  G[j].seq <= m
  <2>1. CASE j = p + 1
    BY <1>1, <1>2, <2>1
  <2>2. CASE j # p + 1
    <3>1. j \in 1..p /\ NoReset(G, j, p)
      BY <1>2, <2>2 DEF NoReset
    <3>2. G[j].seq <= n
      BY <1>2, <3>1 DEF Seen
    <3> QED  BY <1>0, <1>1, <3>2
  <2> QED  BY <2>1, <2>2
<1>3. ASSUME m # 0
      PROVE  \E j \in 1..p + 1 : G[j].seq = m /\ G[j].end /\ NoReset(G, j, p + 1)
  <2>1. CASE m = n
    <3>1. PICK j \in 1..p : G[j].seq = n /\ G[j].end /\ NoReset(G, j, p)
      BY <1>3, <2>1 DEF Seen
    <3>2. NoReset(G, j, p + 1)
      <4>1. \A k \in j..p + 1 : k \in j..p \/ k = p + 1
        OBVIOUS
      <4> QED  BY <3>1, <4>1 DEF NoReset
    <3>3. j \in 1..p + 1
      OBVIOUS
    <3> QED  BY <2>1, <3>1, <3>2, <3>3
  <2>2. CASE m = x.seq /\ x.end
    <3>1. NoReset(G, p + 1, p + 1) /\ p + 1 \in 1..p + 1
      BY DEF NoReset
    <3> QED  BY <2>2, <3>1
  <2> QED  BY <1>1, <2>1, <2>2
<1> QED  BY <1>2, <1>3 DEF Seen

\* The pieces u are the whole of the frame that ends with x, and follow frame n.
Completes(n, x, u) ==
  /\ n = 0 \/ x.seq = n + 1
  /\ u \in Seq(PieceSet) /\ u # <<>> /\ Chained(u)
  /\ u[1].start /\ u[1].seq = x.seq /\ u[Len(u)] = x
  /\ \A i \in DOMAIN u : u[i].seq = x.seq

\* The rest of a frame arrives where it is due: it follows the newest one, and
\* with its first half it is whole.
LEMMA DueNext ==
  ASSUME NEW G \in Seq(PieceSet), LegalLine(G), NEW p \in Nat, p + 1 \in DOMAIN G,
         NEW v \in Views, ViewOf(G, p, v), NEW x, x = G[p + 1], x.end, x.seq > v.accepted,
         NEW whole, whole = Append(Continues(v, x), x)
  PROVE  Completes(v.accepted, x, whole)
<1> USE DEF Completes
<1> DEFINE n == v.accepted
<1>0. /\ DOMAIN G = 1..Len(G) /\ Len(G) \in Nat /\ p \in 0..Len(G) /\ x \in PieceSet /\ n \in Nat
      /\ x.seq \in Nat /\ x.start \in BOOLEAN
  BY LenProperties DEF PieceSet, Views
<1>1. Seen(G, p, n) /\ v.partial = HalfOf(G, p, n)
  BY DEF ViewOf
<1> HIDE DEF n
<1>2. CASE x.start
  <2>1. Due(G, p, x.seq)
    BY <1>0, <1>2 DEF LegalLine, n
  <2>2. n = 0 \/ x.seq = n + 1
    <3>1. \A k \in p + 1..p : FALSE
      BY <1>0
    <3>2. p \in 0..p /\ n < x.seq
      BY <1>0 DEF n
    <3> QED  BY <1>0, <1>1, <2>1, <3>1, <3>2, DueAccepted
  <2>3. whole = <<x>>
    <3>1. Continues(v, x) = <<>>
      BY <1>2 DEF Continues
    <3> QED  BY <1>0, <3>1, SmallSeq
  <2>4. whole \in Seq(PieceSet) /\ whole # <<>> /\ Len(whole) = 1 /\ whole[1] = x /\ DOMAIN whole = {1}
    BY <1>0, <2>3, SmallSeq
  <2>5. Chained(whole)
    BY <1>2, <2>4 DEF Chained
  <2> QED  BY <1>2, <2>2, <2>4, <2>5 DEF n
<1>3. CASE ~x.start
  <2> DEFINE y == G[p]
  <2>1. p + 1 > 1 /\ ~y.end /\ y.seq = x.seq /\ y.kind = x.kind
    BY <1>0, <1>3 DEF LegalLine
  <2>2. p \in DOMAIN G /\ y \in PieceSet
    BY <1>0, <2>1
  <2>3. y.start /\ y.seq \in Big /\ y.kind # "reset" /\ y.seq > 0
    BY <1>0, <2>1, <2>2 DEF PieceSet, Marks, n
  <2>4. Due(G, p - 1, y.seq)
    BY <2>2, <2>3 DEF LegalLine
  <2>5. n = 0 \/ x.seq = n + 1
    <3>1. \A k \in p - 1 + 1..p : ~G[k].end /\ G[k].kind # "reset"
      BY <1>0, <2>1, <2>3
    <3>2. p - 1 \in 0..p /\ n < y.seq /\ y.seq \in Nat
      BY <1>0, <2>1 DEF n
    <3> HIDE DEF y
    <3>3. n = 0 \/ y.seq = n + 1
      BY <1>0, <1>1, <2>4, <3>1, <3>2, DueAccepted
    <3> QED  BY <2>1, <3>3
  <2>6. v.partial = <<y>>
    BY <1>0, <1>1, <2>1 DEF HalfOf, n
  <2> HIDE DEF y
  <2>7. Continues(v, x) = <<y>>
    BY <1>3, <2>1, <2>6 DEF Continues
  <2>8. /\ <<y>> \in Seq(PieceSet) /\ Len(<<y>>) = 1 /\ <<y>>[1] = y
    BY <2>2
  <2>9. /\ whole \in Seq(PieceSet) /\ whole # <<>> /\ Len(whole) = 2 /\ whole[1] = y /\ whole[2] = x
        /\ DOMAIN whole = {1, 2}
    <3> DEFINE z == <<y>>
    <3>1. whole = Append(z, x)
      BY <2>7
    <3>2. z \in Seq(PieceSet) /\ Len(z) = 1 /\ z[1] = y
      BY <2>8
    <3> HIDE DEF z
    <3> QED  BY <1>0, <3>1, <3>2, PairSeq
  <2>10. Chained(whole)
    <3>1. Successive(y, x)
      BY <1>3, <2>1 DEF Successive
    <3>2. \A i \in 2..2 : i = 2 /\ i - 1 = 1
      OBVIOUS
    <3> QED  BY <2>3, <2>9, <3>1, <3>2 DEF Chained
  <2> QED  BY <2>1, <2>3, <2>5, <2>9, <2>10 DEF n
<1> QED  BY <1>0, <1>2, <1>3

\* Entries behind those that are already waiting to be drawn.
LEMMA DrawingConcat ==
  ASSUME NEW s \in Seq(ShapeSet), NEW q \in Seq(EntrySet), NEW a \in Seq(EntrySet), Drawing(s, q),
         \A i \in DOMAIN a : Fits(IF i = 1 THEN Left(s, q) ELSE a[i - 1].body, a[i])
  PROVE  /\ Drawing(s, q \o a)
         /\ Left(s, q \o a) = IF a = <<>> THEN Left(s, q) ELSE a[Len(a)].body
<1> DEFINE r == q \o a
           m == Len(q)
           n == Len(a)
<1>1. /\ r \in Seq(EntrySet) /\ Len(r) = m + n /\ m \in Nat /\ n \in Nat
      /\ \A i \in 1..m + n : r[i] = IF i <= m THEN q[i] ELSE a[i - m]
      /\ DOMAIN r = 1..m + n /\ DOMAIN q = 1..m /\ DOMAIN a = 1..n
  BY ConcatProperties, LenProperties
<1>2. (q = <<>> <=> m = 0) /\ (a = <<>> <=> n = 0) /\ (r = <<>> <=> m + n = 0)
  BY <1>1, EmptySeq
<1> HIDE DEF r, m, n
<1>3. ASSUME NEW i \in DOMAIN r
      PROVE  Fits(Before(s, r, i), r[i])
  <2>1. CASE i <= m
    <3>1. r[i] = q[i] /\ i \in DOMAIN q /\ Before(s, r, i) = Before(s, q, i)
      <4>1. r[i] = q[i] /\ i \in DOMAIN q /\ (i # 1 => r[i - 1] = q[i - 1])
        BY <1>1, <2>1
      <4> QED  BY <4>1 DEF Before
    <3> QED  BY <3>1 DEF Drawing
  <2>2. CASE i = m + 1
    <3>1. r[i] = a[1] /\ 1 \in DOMAIN a /\ (i # 1 => r[i - 1] = q[m])
      BY <1>1, <2>2
    <3>2. Before(s, r, i) = Left(s, q)
      BY <1>1, <1>2, <2>2, <3>1 DEF Before, Left, m
    <3> QED  BY <3>1, <3>2
  <2>3. CASE i > m + 1
    <3> DEFINE k == i - m
    <3>0. i \in 1..m + n /\ ~(i <= m)
      BY <1>1, <2>3
    <3>1. k \in DOMAIN a /\ k # 1 /\ i # 1
      BY <1>1, <2>3
    <3>4. r[i] = a[k]
      BY <1>1, <3>0
    <3>2. (i - 1) - m = k - 1 /\ i - 1 \in 1..m + n /\ ~(i - 1 <= m)
      BY <1>1, <2>3
    <3>3. r[i - 1] = a[(i - 1) - m]
      BY <1>1, <3>2
    <3> HIDE DEF k
    <3> QED  BY <3>1, <3>2, <3>3, <3>4 DEF Before
  <2> QED  BY <1>1, <2>1, <2>2, <2>3
<1>4. Drawing(s, r)
  BY <1>3 DEF Drawing
<1>5. Left(s, r) = IF a = <<>> THEN Left(s, q) ELSE a[n].body
  <2>1. CASE n = 0
    <3>1. m # 0 => r[m + n] = q[m]
      BY <1>1, <2>1
    <3> QED  BY <1>1, <1>2, <2>1, <3>1 DEF Left, m
  <2>2. CASE n # 0
    <3>1. r[m + n] = a[n]
      BY <1>1, <2>2
    <3> QED  BY <1>1, <1>2, <2>2, <3>1 DEF Left
  <2> QED  BY <2>1, <2>2
<1> QED  BY <1>4, <1>5 DEF r, n

\* What is drawn of a run of pieces that continues what is there, or clears it.
LEMMA EntriesFit ==
  ASSUME NEW batch \in Seq(PieceSet), batch # <<>>, Chained(batch),
         \A i \in DOMAIN batch : batch[i].seq > 0, NEW c \in BOOLEAN,
         NEW s \in Seq(ShapeSet), NEW q \in Seq(EntrySet), Drawing(s, q),
         ~c /\ Left(s, q) # <<>> => Successive(Left(s, q)[Len(Left(s, q))], batch[1]),
         NEW a \in Seq(EntrySet), a = [i \in DOMAIN batch |-> Entry(batch[i], c /\ i = 1)]
  PROVE  /\ Drawing(s, q \o a)
         /\ \A n : Tip(batch, n) => Tip(Left(s, q \o a), n)
<1> DEFINE t == Left(s, q)
<1>1. DOMAIN batch = 1..Len(batch) /\ Len(batch) \in Nat /\ DOMAIN a = 1..Len(batch) /\ Len(batch) # 0
  BY LenProperties, EmptySeq
<1>2. Len(a) = Len(batch) /\ a # <<>>
  <2>1. DOMAIN a = 1..Len(a) /\ Len(a) \in Nat
    BY LenProperties
  <2>2. Len(a) = Len(batch)
    BY <1>1, <2>1
  <2> QED  BY <1>1, <2>2, EmptySeq
<1>3. ASSUME NEW i \in 1..Len(batch)
      PROVE  /\ a[i].clear = (c /\ i = 1) /\ a[i].body # <<>> /\ Len(a[i].body) = 1
             /\ a[i].body[1].seq = batch[i].seq /\ a[i].body[1].start = batch[i].start
  <2>1. a[i] = Entry(batch[i], c /\ i = 1)
    BY <1>1
  <2>2. batch[i].seq # 0
    <3>1. batch[i].seq \in Nat
      BY <1>1 DEF PieceSet
    <3> QED  BY <1>1, <3>1
  <2> DEFINE e == [seq |-> batch[i].seq, start |-> batch[i].start]
  <2>3. a[i].clear = (c /\ i = 1) /\ a[i].body = <<e>>
    BY <2>1, <2>2 DEF Entry
  <2>4. e.seq = batch[i].seq /\ e.start = batch[i].start
    OBVIOUS
  <2> HIDE DEF e
  <2>5. <<e>> # <<>> /\ Len(<<e>>) = 1 /\ <<e>>[1] = e
    OBVIOUS
  <2> QED  BY <2>3, <2>4, <2>5
<1>4. ASSUME NEW i \in DOMAIN a
      PROVE  Fits(IF i = 1 THEN t ELSE a[i - 1].body, a[i])
  <2>1. CASE i = 1
    <3>1. batch[1].start
      BY DEF Chained
    <3>2. CASE c
      <4>1. a[i].clear
        BY <1>1, <1>3, <2>1, <3>2
      <4> QED  BY <1>1, <1>3, <2>1, <3>1, <4>1 DEF Fits
    <3>3. CASE ~c /\ t = <<>>
      BY <1>1, <1>3, <2>1, <3>1, <3>3 DEF Fits
    <3>4. CASE ~c /\ t # <<>>
      <4>1. Successive(t[Len(t)], batch[1])
        BY <3>4
      <4>2. Successive(t[Len(t)], a[1].body[1])
        BY <1>1, <1>3, <4>1 DEF Successive
      <4>3. ~a[1].clear
        BY <1>1, <1>3, <3>4
      <4> HIDE DEF t
      <4> QED  BY <1>1, <1>3, <2>1, <3>4, <4>2, <4>3 DEF Fits
    <3> QED  BY <3>2, <3>3, <3>4
  <2>2. CASE i # 1
    <3>1. i \in 2..Len(batch) /\ i \in 1..Len(batch) /\ i - 1 \in 1..Len(batch)
      BY <1>1, <2>2
    <3>2. Successive(batch[i - 1], batch[i])
      BY <3>1 DEF Chained
    <3>3. /\ a[i].body # <<>> /\ Len(a[i - 1].body) = 1 /\ a[i - 1].body # <<>> /\ ~a[i].clear
          /\ a[i].body[1].seq = batch[i].seq /\ a[i].body[1].start = batch[i].start
          /\ a[i - 1].body[1].seq = batch[i - 1].seq /\ a[i - 1].body[1].start = batch[i - 1].start
      BY <1>3, <2>2, <3>1
    <3>4. Successive(a[i - 1].body[1], a[i].body[1])
      BY <3>2, <3>3 DEF Successive
    <3> QED  BY <2>2, <3>3, <3>4 DEF Fits
  <2> QED  BY <2>1, <2>2
<1>5. Drawing(s, q \o a) /\ Left(s, q \o a) = a[Len(a)].body
  BY <1>2, <1>4, DrawingConcat
<1>6. ASSUME NEW n, Tip(batch, n)
      PROVE  Tip(a[Len(a)].body, n)
  <2> DEFINE k == Len(batch)
             e == a[k].body
  <2>1. k \in 1..Len(batch) /\ Len(a) = k
    BY <1>1, <1>2
  <2>2. e # <<>> /\ Len(e) = 1 /\ e[1].seq = batch[k].seq /\ e[1].start = batch[k].start
    BY <1>3, <2>1
  <2>3. n > 0 /\ batch[k].seq = n /\ batch[k].start = (batch[k].seq \notin Big)
    BY <1>6 DEF Tip
  <2> HIDE DEF e, k
  <2>4. Tip(e, n)
    BY <2>2, <2>3 DEF Tip
  <2> QED  BY <2>1, <2>4 DEF e
<1> QED  BY <1>5, <1>6

\* What is drawn next leaves what comes after it in its place.
LEMMA DrawnOne ==
  ASSUME NEW s \in Seq(ShapeSet), NEW q \in Seq(EntrySet), q # <<>>, Drawing(s, q)
  PROVE  LET t == (IF Head(q).clear THEN <<>> ELSE s) \o Head(q).body
         IN Drawing(t, Tail(q)) /\ \A n : Tip(Left(s, q), n) => Tip(Left(t, Tail(q)), n)
<1> DEFINE e == q[1]
           from == IF e.clear THEN <<>> ELSE s
           body == e.body
           t == from \o body
           r == Tail(q)
           m == Len(q)
<1>1. /\ Head(q) = e /\ m \in Nat \ {0} /\ DOMAIN q = 1..m /\ e \in EntrySet
      /\ r \in Seq(EntrySet) /\ Len(r) = m - 1 /\ \A i \in 1..Len(r) : r[i] = q[i + 1]
  BY HeadTailProperties, EmptySeq
<1>2. body \in Seq(ShapeSet) /\ Len(body) <= 1 /\ Len(body) \in Nat /\ from \in Seq(ShapeSet)
  BY <1>1, LenProperties, EmptySeq DEF EntrySet
<1>3. Fits(s, e) /\ Chained(s)
  <2>1. 1 \in DOMAIN q
    BY <1>1
  <2> QED  BY <2>1 DEF Drawing, Before
<1> HIDE DEF r, m
<1>4. /\ Chained(t) /\ t \in Seq(ShapeSet)
      /\ (t = <<>> <=> body = <<>>) /\ (body # <<>> => t[Len(t)] = body[Len(body)])
  <2>1. CASE body = <<>>
    <3>1. e.clear
      BY <1>3, <2>1 DEF Fits
    <3>2. t = <<>>
      BY <2>1, <3>1
    <3>3. Chained(<<>>)
      BY DEF Chained
    <3> HIDE DEF t, body
    <3> QED  BY <2>1, <3>2, <3>3, EmptySeq
  <2>2. CASE body # <<>>
    <3>1. Len(body) = 1
      <4> HIDE DEF body
      <4> DEFINE k == Len(body)
      <4>1. k # 0
        BY <1>2, <2>2, EmptySeq
      <4>2. k \in Nat /\ k <= 1
        BY <1>2
      <4> HIDE DEF k
      <4>3. k = 1
        BY <4>1, <4>2
      <4> QED  BY <4>3 DEF k
    <3>2. \A i \in 2..Len(body) : FALSE
      BY <3>1
    <3>3. Chained(from)
      BY <1>3 DEF Chained
    <3>4. IF from = <<>> THEN body[1].start ELSE Successive(from[Len(from)], body[1])
      BY <1>3, <2>2 DEF Fits
    <3> HIDE DEF from, body
    <3> QED  BY <1>2, <2>2, <3>2, <3>3, <3>4, ChainedConcat, ConcatProperties
  <2> QED  BY <2>1, <2>2
<1> HIDE DEF t, body
<1>5. DOMAIN r = 1..m - 1
  BY <1>1, LenProperties
<1>6. ASSUME NEW i \in DOMAIN r
      PROVE  Fits(Before(t, r, i), r[i])
  <2>1. r[i] = q[i + 1] /\ i + 1 \in DOMAIN q /\ i + 1 # 1 /\ (i + 1) - 1 = i
    BY <1>1, <1>5
  <2>2. Fits(q[i].body, q[i + 1])
    BY <2>1 DEF Drawing, Before
  <2>3. CASE i = 1
    <3>1. Fits(body, r[i])
      BY <2>1, <2>2, <2>3 DEF body
    <3>2. Fits(t, r[i])
      BY <1>4, <3>1 DEF Fits
    <3> QED  BY <2>3, <3>2 DEF Before
  <2>4. CASE i # 1
    <3>1. i - 1 \in DOMAIN r
      BY <1>1, <1>5, <2>4
    <3>2. r[i - 1] = q[(i - 1) + 1] /\ (i - 1) + 1 = i
      BY <1>1, <1>5, <3>1
    <3> QED  BY <2>1, <2>2, <2>4, <3>2 DEF Before
  <2> QED  BY <2>3, <2>4
<1>7. ASSUME NEW n, Tip(Left(s, q), n)
      PROVE  Tip(Left(t, r), n)
  <2>1. Left(s, q) = q[m].body
    BY DEF Left, m
  <2>2. CASE m = 1
    <3>1. r = <<>>
      BY <1>1, <2>2, EmptySeq
    <3>2. Tip(body, n)
      BY <1>7, <2>1, <2>2 DEF body
    <3>3. Tip(t, n)
      BY <1>4, <3>2 DEF Tip
    <3> QED  BY <3>1, <3>3 DEF Left
  <2>3. CASE m # 1
    <3>1. r # <<>> /\ r[m - 1] = q[(m - 1) + 1] /\ (m - 1) + 1 = m
      BY <1>1, <1>5, <2>3, EmptySeq
    <3> QED  BY <1>1, <1>7, <2>1, <3>1 DEF Left
  <2> QED  BY <2>2, <2>3
<1>8. Drawing(t, r)
  BY <1>4, <1>6 DEF Drawing
<1> QED  BY <1>1, <1>7, <1>8 DEF t, r, body

\* A page that reads the next piece of the line.
LEMMA PageRead ==
  ASSUME NEW G \in Seq(PieceSet), LegalLine(G), NEW p \in Nat, p + 1 \in DOMAIN G,
         NEW v \in Views, ViewOf(G, p, v),
         NEW s \in Seq(ShapeSet), NEW q \in Seq(EntrySet), DrawnOf(s, q, v), NEW x, x = G[p + 1]
  PROVE  ViewOf(G, p + 1, TakePiece(v, x)) /\ DrawnOf(s, q \o Shown(v, x), TakePiece(v, x))
<1> DEFINE n == v.accepted
           m == Max2(v.accepted, x.seq)
           whole == Append(Continues(v, x), x)
           some == IF Ends(x) /\ ~(v.replaying /\ v.replay = <<>>) THEN <<>> ELSE whole
           batch == IF v.replaying THEN v.replay \o some ELSE some
           w == TakePiece(v, x)
           a == Shown(v, x)
<1>0. /\ DOMAIN G = 1..Len(G) /\ Len(G) \in Nat /\ x \in PieceSet /\ x.seq \in Nat
      /\ x.start \in BOOLEAN /\ x.end \in BOOLEAN /\ (x.seq = 0 <=> x.kind \in Marks)
      /\ IF x.seq \in Big THEN x.start = ~x.end ELSE x.start /\ x.end
  BY LenProperties DEF PieceSet
<1>1. /\ v.accepted \in Nat /\ v.replay \in Seq(PieceSet) /\ v.replaying \in BOOLEAN
      /\ m \in Nat /\ v.accepted <= m
  BY <1>0 DEF Views, Max2
<1>2. Seen(G, p, n) /\ v.partial = HalfOf(G, p, n) /\ Drawing(s, q)
  BY DEF ViewOf, DrawnOf
<1>3. x.kind # "reset" => Seen(G, p + 1, IF x.end THEN m ELSE n)
  BY <1>1, <1>2, SeenNext
<1>4. q \o <<>> = q /\ a \in Seq(EntrySet)
  BY <1>0, ConcatEmptySeq, PieceEffect
<1>5. x.seq = 0 => x.start /\ x.end
  BY <1>0, MirrorAssumption
<1>6. x.start => Continues(v, x) = <<>>
  BY DEF Continues
<1>7. p + 1 >= 1 /\ G[p + 1] = x /\ (x.end => x.start = (x.seq \notin Big))
  BY <1>0
<1>8. CASE x.kind = "reset"
  <2>1. a = <<>> /\ w = [NewView EXCEPT !.replaying = TRUE]
    BY <1>8 DEF Shown, TakePiece
  <2>2. w.replaying /\ w.partial = <<>> /\ w.replay = <<>> /\ w.accepted = 0
    BY <2>1 DEF NewView
  <2> HIDE DEF a, w
  <2>3. x.end
    BY <1>0, <1>5, <1>8 DEF Marks
  <2>4. Seen(G, p + 1, 0)
    <3>1. \A j \in 1..p + 1 : ~NoReset(G, j, p + 1)
      BY <1>7, <1>8 DEF NoReset
    <3> QED  BY <3>1 DEF Seen
  <2>5. HalfOf(G, p + 1, 0) = <<>>
    BY <1>7, <2>3 DEF HalfOf
  <2>6. Chained(<<>>) /\ Tip(<<>>, 0) /\ DOMAIN <<>> = {}
    BY DEF Chained, Tip
  <2>7. ViewOf(G, p + 1, w)
    BY <2>2, <2>4, <2>5, <2>6 DEF ViewOf
  <2>8. DrawnOf(s, q \o a, w)
    BY <1>2, <1>4, <2>1, <2>2 DEF DrawnOf
  <2> QED  BY <2>7, <2>8 DEF a, w
<1>9. CASE x.kind # "reset" /\ Repeated(v, x)
  <2>1. a = <<>> /\ w = [v EXCEPT !.partial = Continues(v, x)]
    BY <1>9 DEF Shown, TakePiece
  <2>2. /\ w.replaying = v.replaying /\ w.accepted = n /\ w.replay = v.replay
        /\ w.partial = Continues(v, x)
    BY <2>1 DEF Views
  <2> HIDE DEF a, w
  <2>3. x.seq <= n /\ m = n
    BY <1>0, <1>1, <1>9 DEF Repeated, Max2
  <2>4. Continues(v, x) = <<>>
    <3>1. CASE ~x.start
      <4>1. p \in DOMAIN G /\ G[p].seq = x.seq
        BY <1>0, <1>7, <3>1 DEF LegalLine
      <4>2. v.partial = <<>>
        BY <1>0, <1>1, <1>2, <2>3, <4>1 DEF HalfOf
      <4> QED  BY <4>2 DEF Continues
    <3> QED  BY <1>6, <3>1
  <2>5. HalfOf(G, p + 1, n) = <<>>
    BY <1>0, <1>1, <1>7, <2>3 DEF HalfOf
  <2>6. ViewOf(G, p + 1, w)
    BY <1>3, <1>9, <2>2, <2>3, <2>4, <2>5 DEF ViewOf
  <2>7. DrawnOf(s, q \o a, w)
    BY <1>4, <2>1, <2>2 DEF DrawnOf
  <2> QED  BY <2>6, <2>7 DEF a, w
<1>10. CASE x.kind # "reset" /\ ~Repeated(v, x) /\ ~x.end
  <2>1. a = <<>> /\ w = [v EXCEPT !.partial = whole]
    BY <1>10 DEF Shown, TakePiece
  <2>2. /\ w.replaying = v.replaying /\ w.accepted = n /\ w.replay = v.replay
        /\ w.partial = whole
    <3> HIDE DEF whole
    <3> QED  BY <2>1 DEF Views
  <2> HIDE DEF a, w
  <2>3. x.seq > n /\ x.start
    BY <1>0, <1>1, <1>5, <1>10 DEF Repeated
  <2>4. whole = <<x>>
    <3>1. Continues(v, x) = <<>>
      BY <1>6, <2>3
    <3> QED  BY <1>0, <3>1, SmallSeq
  <2>5. HalfOf(G, p + 1, n) = <<x>>
    BY <1>7, <1>10, <2>3 DEF HalfOf
  <2>6. ViewOf(G, p + 1, w)
    BY <1>3, <1>10, <2>2, <2>4, <2>5 DEF ViewOf
  <2>7. DrawnOf(s, q \o a, w)
    BY <1>4, <2>1, <2>2 DEF DrawnOf
  <2> QED  BY <2>6, <2>7 DEF a, w
<1>11. CASE x.kind # "reset" /\ ~Repeated(v, x) /\ x.end
  <2>1. Seen(G, p + 1, m) /\ HalfOf(G, p + 1, m) = <<>>
    BY <1>3, <1>7, <1>11 DEF HalfOf
  <2>2. ASSUME x.seq > n
        PROVE  /\ m = x.seq
               /\ n = 0 \/ x.seq = n + 1
               /\ whole \in Seq(PieceSet) /\ whole # <<>> /\ Chained(whole) /\ Tip(whole, m)
               /\ whole[1].start /\ whole[1].seq = x.seq
               /\ \A i \in DOMAIN whole : whole[i].seq > 0
               /\ \A t : t # <<>> /\ Tip(t, n) /\ n # 0 => Successive(t[Len(t)], whole[1])
    <3>1. /\ n = 0 \/ x.seq = n + 1
          /\ whole \in Seq(PieceSet) /\ whole # <<>> /\ Chained(whole)
          /\ whole[1].start /\ whole[1].seq = x.seq /\ whole[Len(whole)] = x
          /\ \A i \in DOMAIN whole : whole[i].seq = x.seq
      <4> DEFINE u == whole
      <4>1. u = Append(Continues(v, x), x)
        OBVIOUS
      <4>0. x.end /\ x.seq > v.accepted
        BY <1>11, <2>2
      <4> HIDE DEF u
      <4>2. Completes(v.accepted, x, u)
        BY <4>0, <4>1, DueNext
      <4> QED  BY <4>2 DEF u, Completes
    <3> HIDE DEF whole
    <3>2. m = x.seq /\ x.seq > 0
      BY <1>0, <1>1, <2>2 DEF Max2
    <3>3. Tip(whole, m)
      <4> HIDE DEF m
      <4> QED  BY <1>7, <1>11, <3>1, <3>2 DEF Tip
    <3>4. \A i \in DOMAIN whole : whole[i].seq > 0
      BY <3>1, <3>2
    <3>5. ASSUME NEW t, t # <<>>, Tip(t, n), n # 0
          PROVE  Successive(t[Len(t)], whole[1])
      BY <3>1, <3>5 DEF Successive, Tip
    <3> QED  BY <3>1, <3>2, <3>3, <3>4, <3>5
  <2>3. CASE v.replaying /\ ~Ends(x)
    <3> DEFINE r == v.replay \o whole
    <3>1. a = <<>> /\ w = [v EXCEPT !.partial = <<>>, !.accepted = m, !.replay = r]
      BY <1>11, <2>3 DEF Shown, TakePiece
    <3>2. x.seq > n
      BY <1>0, <1>1, <1>11, <2>3 DEF Repeated, Ends, Marks
    <3> HIDE DEF r, m, whole
    <3>3. w.replaying /\ w.accepted = m /\ w.replay = r /\ w.partial = <<>>
      BY <1>1, <2>3, <3>1 DEF Views
    <3>4. /\ Chained(v.replay) /\ Tip(v.replay, n)
          /\ \A i \in DOMAIN v.replay : v.replay[i].seq > 0
      BY <2>3 DEF ViewOf
    <3>5. v.replay # <<>> => Successive(v.replay[Len(v.replay)], whole[1])
      <4> SUFFICES ASSUME v.replay # <<>>
                   PROVE  Successive(v.replay[Len(v.replay)], whole[1])
        OBVIOUS
      <4>1. n # 0
        BY <1>1, <3>4 DEF Tip
      <4> QED  BY <2>2, <3>2, <3>4, <4>1
    <3>6. /\ Chained(r) /\ r # <<>> /\ r[Len(r)] = whole[Len(whole)]
      <4> DEFINE z == v.replay
      <4>1. whole \in Seq(PieceSet) /\ whole # <<>> /\ Chained(whole) /\ whole[1].start
        BY <2>2, <3>2
      <4>2. z \in Seq(PieceSet) /\ Chained(z) /\ r = z \o whole
        BY <1>1, <3>4 DEF r
      <4>3. IF z = <<>> THEN whole[1].start ELSE Successive(z[Len(z)], whole[1])
        BY <3>5, <4>1
      <4>4. \A i \in 2..Len(whole) : Successive(whole[i - 1], whole[i])
        BY <4>1 DEF Chained
      <4> HIDE DEF z
      <4> QED  BY <4>1, <4>2, <4>3, <4>4, ChainedConcat
    <3>7. Tip(r, m)
      BY <2>2, <3>2, <3>6 DEF Tip
    <3>8. ASSUME NEW i \in DOMAIN r
          PROVE  r[i].seq > 0
      <4> DEFINE k == Len(v.replay)
      <4>1. /\ k \in Nat /\ Len(whole) \in Nat /\ DOMAIN r = 1..k + Len(whole)
            /\ DOMAIN v.replay = 1..k /\ DOMAIN whole = 1..Len(whole)
            /\ r[i] = IF i <= k THEN v.replay[i] ELSE whole[i - k]
        BY <1>1, <2>2, <3>2, <3>8, ConcatProperties, LenProperties DEF r
      <4> HIDE DEF k
      <4>2. CASE i <= k
        BY <3>4, <3>8, <4>1, <4>2
      <4>3. CASE i > k
        <5>0. i \in 1..k + Len(whole)
          BY <3>8, <4>1
        <5>1. i - k \in 1..Len(whole)
          BY <4>1, <4>3, <5>0
        <5>2. r[i] = whole[i - k]
          BY <4>1, <4>3, <5>0
        <5> QED  BY <2>2, <3>2, <4>1, <5>1, <5>2
      <4> QED  BY <3>8, <4>1, <4>2, <4>3
    <3> HIDE DEF a, w
    <3>9. ViewOf(G, p + 1, w)
      BY <2>1, <3>3, <3>6, <3>7, <3>8 DEF ViewOf
    <3>10. DrawnOf(s, q \o a, w)
      BY <1>2, <1>4, <3>1, <3>3 DEF DrawnOf
    <3> QED  BY <3>9, <3>10 DEF a, w
  <2>4. CASE ~(v.replaying /\ ~Ends(x))
    <3> DEFINE c == v.replaying
               e == [i \in DOMAIN batch |-> Entry(batch[i], c /\ i = 1)]
    <3>1. a = e
      BY <1>11, <2>4 DEF Shown
    <3>2. ~w.replaying /\ w.accepted = m /\ w.replay = <<>> /\ w.partial = <<>>
      <4>1. w = [v EXCEPT !.partial = <<>>, !.accepted = m, !.replaying = FALSE, !.replay = <<>>]
        BY <1>11, <2>4 DEF TakePiece
      <4> HIDE DEF m
      <4> QED  BY <4>1 DEF Views
    <3>3. ViewOf(G, p + 1, w)
      <4> HIDE DEF w, m
      <4> QED  BY <2>1, <3>2 DEF ViewOf
    <3>4. Ends(x) => x.seq = 0 /\ m = n /\ whole = <<x>>
      <4>1. Ends(x) => x.seq = 0
        BY <1>0 DEF Ends, Marks
      <4>2. x.seq = 0 => whole = <<x>>
        BY <1>0, <1>5, <1>6, SmallSeq
      <4>3. x.seq = 0 => m = n
        BY <1>0, <1>1 DEF Max2
      <4> QED  BY <4>1, <4>2, <4>3
    <3>5. ASSUME a = <<>>, ~v.replaying, m = n
          PROVE  DrawnOf(s, q \o a, w)
      <4> HIDE DEF a, w, m
      <4> QED  BY <1>4, <3>2, <3>5 DEF DrawnOf
    <3>6. ASSUME Drawing(s, q \o a), Tip(Left(s, q \o a), m)
          PROVE  DrawnOf(s, q \o a, w)
      <4> HIDE DEF a, w, m
      <4> QED  BY <3>2, <3>6 DEF DrawnOf
    <3>7. CASE v.replaying /\ v.replay = <<>>
      <4>1. batch = <<x>>
        <5>1. batch = <<>> \o whole /\ whole = <<x>>
          BY <2>4, <3>4, <3>7
        <5> HIDE DEF batch, whole
        <5>2. <<x>> \in Seq(PieceSet)
          BY <1>0, SmallSeq
        <5> QED  BY <5>1, <5>2, ConcatEmptySeq
      <4>2. n = 0 /\ m = 0 /\ x.seq = 0
        BY <2>4, <3>4, <3>7 DEF ViewOf, Tip
      <4> HIDE DEF batch
      <4>3. DOMAIN batch = {1} /\ batch[1] = x
        BY <4>1
      <4>4. DOMAIN a = {1} /\ a[1] = Entry(x, TRUE)
        BY <3>1, <3>7, <4>3
      <4>5. a[1].body = <<>> /\ a[1].clear
        BY <4>2, <4>4 DEF Entry
      <4> HIDE DEF a, e
      <4>6. Len(a) = 1 /\ a # <<>>
        <5>1. DOMAIN a = 1..Len(a) /\ Len(a) \in Nat
          BY <1>4, LenProperties
        <5>2. 1 \in 1..Len(a) /\ \A i \in 1..Len(a) : i = 1
          BY <4>4, <5>1
        <5>3. Len(a) = 1
          BY <5>1, <5>2
        <5>4. a \in Seq(EntrySet)
          BY <1>4
        <5>5. a # <<>>
          <6>1. Len(a) # 0
            BY <5>3
          <6> QED  BY <6>1, <5>4, EmptySeq
        <5> QED  BY <5>3, <5>5
      <4>7. \A i \in DOMAIN a : Fits(IF i = 1 THEN Left(s, q) ELSE a[i - 1].body, a[i])
        BY <4>4, <4>5 DEF Fits
      <4>8. Drawing(s, q \o a) /\ Left(s, q \o a) = <<>>
        BY <1>2, <1>4, <4>5, <4>6, <4>7, DrawingConcat
      <4>9. Tip(Left(s, q \o a), m)
        BY <4>2, <4>8 DEF Tip
      <4> QED  BY <3>3, <3>6, <4>8, <4>9 DEF a
    <3>8. CASE v.replaying /\ v.replay # <<>>
      <4>1. batch = v.replay
        <5>1. batch = v.replay \o <<>>
          BY <2>4, <3>8
        <5> HIDE DEF batch
        <5> QED  BY <1>1, <5>1, ConcatEmptySeq
      <4>2. /\ Chained(v.replay) /\ Tip(v.replay, n) /\ m = n
            /\ \A i \in DOMAIN v.replay : v.replay[i].seq > 0
        BY <2>4, <3>4, <3>8 DEF ViewOf
      <4> DEFINE u == v.replay
      <4>3. u \in Seq(PieceSet) /\ u # <<>> /\ c \in BOOLEAN /\ c /\ Drawing(s, q)
        BY <1>1, <1>2, <3>8
      <4>4. a = [i \in DOMAIN u |-> Entry(u[i], c /\ i = 1)] /\ a \in Seq(EntrySet)
        <5>1. batch = u
          BY <4>1
        <5>2. a = [i \in DOMAIN batch |-> Entry(batch[i], c /\ i = 1)]
          BY <3>1
        <5>3. a \in Seq(EntrySet)
          BY <1>4
        <5> HIDE DEF batch, a, u, c, e
        <5> QED  BY <5>1, <5>2, <5>3
      <4>5. Chained(u) /\ Tip(u, n) /\ \A i \in DOMAIN u : u[i].seq > 0
        BY <4>2
      <4> HIDE DEF batch, a, u, c, e, n
      <4>6. Drawing(s, q \o a) /\ Tip(Left(s, q \o a), n)
        BY <4>3, <4>4, <4>5, EntriesFit
      <4> QED  BY <3>3, <3>6, <4>2, <4>6 DEF a
    <3>9. CASE ~v.replaying /\ Ends(x)
      <4>1. batch = <<>> /\ m = n
        BY <3>4, <3>9
      <4> HIDE DEF batch
      <4>2. DOMAIN batch = {}
        BY <4>1
      <4>3. a = <<>>
        <5>1. DOMAIN a = {}
          BY <3>1, <4>2
        <5> HIDE DEF a
        <5> QED  BY <1>4, <5>1, LenProperties, EmptySeq
      <4> QED  BY <3>3, <3>5, <3>9, <4>1, <4>3
    <3>10. CASE ~v.replaying /\ ~Ends(x)
      <4>1. batch = whole
        BY <3>10
      <4>2. x.seq > n
        BY <1>0, <1>1, <1>8, <1>11, <3>10 DEF Repeated, Ends, Marks
      <4>3. Tip(Left(s, q), n)
        BY <3>10 DEF DrawnOf
      <4> HIDE DEF batch, a, whole, m
      <4>4. Left(s, q) # <<>> => Successive(Left(s, q)[Len(Left(s, q))], whole[1])
        <5> SUFFICES ASSUME Left(s, q) # <<>>
                     PROVE  Successive(Left(s, q)[Len(Left(s, q))], whole[1])
          OBVIOUS
        <5>1. n # 0
          BY <1>1, <4>3 DEF Tip
        <5> QED  BY <2>2, <4>2, <4>3, <5>1
      <4>5. Drawing(s, q \o a) /\ Tip(Left(s, q \o a), m)
        <5>1. /\ whole \in Seq(PieceSet) /\ whole # <<>> /\ Chained(whole) /\ Tip(whole, m)
              /\ \A i \in DOMAIN whole : whole[i].seq > 0
          BY <2>2, <4>2
        <5>2. a = [i \in DOMAIN whole |-> Entry(whole[i], c /\ i = 1)]
          BY <3>1, <4>1
        <5>3. c = FALSE /\ Drawing(s, q) /\ a \in Seq(EntrySet) /\ c \in BOOLEAN
          BY <1>1, <1>2, <1>4, <3>10
        <5> HIDE DEF c, e
        <5> QED  BY <4>4, <5>1, <5>2, <5>3, EntriesFit
      <4> QED  BY <3>3, <3>6, <4>5 DEF a
    <3> QED  BY <1>1, <3>7, <3>8, <3>9, <3>10
  <2> QED  BY <2>3, <2>4
<1> QED  BY <1>0, <1>8, <1>9, <1>10, <1>11

-----------------------------------------------------------------------------
(* The line of pieces grows. *)

\* Frame s may begin after G and the first n frames of the pipe q.
DueAfter(G, q, n, s) ==
  \/ \E j \in 1..n : s > 1 /\ q[j].seq = s - 1 /\ NoReset(q, j, n)
  \/ \E j \in 1..n : q[j].kind = "reset" /\ Unnumbered(q, j + 1, n)
  \/ /\ NoReset(q, 1, n)
     /\ \E j \in DOMAIN G : s > 1 /\ G[j].seq = s - 1 /\ G[j].end /\ NoReset(G, j, Len(G))
  \/ /\ Unnumbered(q, 1, n)
     /\ \E j \in DOMAIN G : G[j].kind = "reset" /\ Unnumbered(G, j + 1, Len(G))

\* The pieces of a frame.
LEMMA PiecesShape ==
  ASSUME NEW f \in FrameSet
  PROVE  LET q == PiecesOf(f)
         IN /\ q \in Seq(PieceSet) /\ Len(q) \in {1, 2} /\ DOMAIN q = 1..Len(q)
            /\ f.seq = 0 => Len(q) = 1
            /\ \A i \in 1..Len(q) : /\ q[i].seq = f.seq /\ q[i].kind = f.kind
                                    /\ q[i].start = (i = 1) /\ q[i].end = (i = Len(q))
<1> DEFINE q == PiecesOf(f)
           n == Count(f.seq)
<1>1. q \in Seq(PieceSet)
  BY PiecesType
<1>2. n \in {1, 2} /\ (f.seq = 0 => n = 1)
  BY MirrorAssumption DEF Count
<1>3. q = [i \in 1..n |-> Piece(f, i)]
  BY DEF PiecesOf
<1>4. \A i \in 1..n : q[i] = Piece(f, i)
  BY <1>3
<1>5. DOMAIN q = 1..n
  BY <1>3
<1>6. \A i \in 1..n : /\ Piece(f, i).seq = f.seq /\ Piece(f, i).kind = f.kind
                      /\ Piece(f, i).start = (i = 1) /\ Piece(f, i).end = (i = n)
  BY DEF Piece
<1> HIDE DEF q, n
<1>7. Len(q) = n
  BY <1>1, <1>2, <1>5, LenProperties
<1> QED  BY <1>1, <1>2, <1>4, <1>5, <1>6, <1>7 DEF q

\* What lies where in a line to which a frame is added.
LEMMA LineGrows ==
  ASSUME NEW G \in Seq(PieceSet), NEW f \in FrameSet
  PROVE  LET H == G \o PiecesOf(f)
         IN /\ H \in Seq(PieceSet) /\ Len(G) \in Nat /\ Len(H) \in Nat
            /\ DOMAIN G = 1..Len(G) /\ DOMAIN H = 1..Len(H)
            /\ Len(H) \in {Len(G) + 1, Len(G) + 2} /\ (f.seq = 0 => Len(H) = Len(G) + 1)
            /\ \A i \in 1..Len(G) : H[i] = G[i]
            /\ \A i \in Len(G) + 1..Len(H) :
                 /\ H[i].seq = f.seq /\ H[i].kind = f.kind
                 /\ H[i].start = (i = Len(G) + 1) /\ H[i].end = (i = Len(H))
<1> DEFINE q == PiecesOf(f)
           H == G \o q
           m == Len(G)
           n == Len(q)
<1>1. /\ q \in Seq(PieceSet) /\ n \in {1, 2} /\ (f.seq = 0 => n = 1)
      /\ \A i \in 1..n : /\ q[i].seq = f.seq /\ q[i].kind = f.kind
                         /\ q[i].start = (i = 1) /\ q[i].end = (i = n)
  BY PiecesShape
<1> HIDE DEF q
<1>2. H \in Seq(PieceSet) /\ Len(H) = m + n
  BY <1>1, ConcatProperties
<1>3. \A i \in 1..m + n : H[i] = IF i <= m THEN G[i] ELSE q[i - m]
  BY <1>1, ConcatProperties
<1>4. m \in Nat /\ DOMAIN G = 1..m /\ DOMAIN H = 1..Len(H)
  BY <1>2, LenProperties
<1> HIDE DEF H, m, n
<1>5. \A i \in 1..m : H[i] = G[i]
  <2> TAKE i \in 1..m
  <2>1. i \in 1..m + n /\ i <= m
    BY <1>1, <1>4
  <2> QED  BY <1>3, <2>1
<1>6. ASSUME NEW i \in m + 1..m + n
      PROVE  /\ H[i].seq = f.seq /\ H[i].kind = f.kind
             /\ H[i].start = (i = m + 1) /\ H[i].end = (i = m + n)
  <2>1. i \in 1..m + n /\ ~(i <= m) /\ i - m \in 1..n
    BY <1>1, <1>4
  <2>2. H[i] = q[i - m]
    BY <1>3, <2>1
  <2>3. (i - m = 1 <=> i = m + 1) /\ (i - m = n <=> i = m + n)
    BY <1>1, <1>4
  <2> QED  BY <1>1, <2>1, <2>2, <2>3
<1> QED  BY <1>1, <1>2, <1>4, <1>5, <1>6 DEF H, m, q

\* A frame that is due keeps the line legal.
LEMMA LegalGrows ==
  ASSUME NEW G \in Seq(PieceSet), LegalLine(G), NEW f \in FrameSet,
         f.seq > 0 => Due(G, Len(G), f.seq)
  PROVE  LegalLine(G \o PiecesOf(f))
<1> DEFINE H == G \o PiecesOf(f)
           m == Len(G)
           z == Len(H)
<1>1. /\ H \in Seq(PieceSet) /\ m \in Nat /\ z \in Nat /\ DOMAIN G = 1..m /\ DOMAIN H = 1..z
      /\ z \in {m + 1, m + 2}
      /\ \A i \in 1..m : H[i] = G[i]
      /\ \A i \in m + 1..z : /\ H[i].seq = f.seq /\ H[i].kind = f.kind
                             /\ H[i].start = (i = m + 1) /\ H[i].end = (i = z)
  BY LineGrows
<1>2. \A n \in 0..m : \A s : Due(G, n, s) => Due(H, n, s)
  BY PiecesType, DuePrefix
<1> HIDE DEF H
<1> SUFFICES ASSUME NEW i \in DOMAIN H
             PROVE  /\ H[i].start /\ H[i].seq > 0 => Due(H, i - 1, H[i].seq)
                    /\ ~H[i].end => i + 1 \in DOMAIN H
                    /\ ~H[i].start => /\ i > 1 /\ ~H[i - 1].end
                                      /\ H[i - 1].seq = H[i].seq /\ H[i - 1].kind = H[i].kind
  BY DEF LegalLine, H
<1> HIDE DEF m, z
<1>3. i \in 1..z
  BY <1>1
<1>4. CASE i <= m
  <2>1. i \in 1..m /\ i - 1 \in 0..m /\ i \in DOMAIN G
    BY <1>1, <1>3, <1>4
  <2>2. H[i] = G[i] /\ (i > 1 => H[i - 1] = G[i - 1])
    <3>1. i > 1 => i - 1 \in 1..m
      BY <1>1, <2>1
    <3> QED  BY <1>1, <2>1, <3>1
  <2>3. /\ G[i].start /\ G[i].seq > 0 => Due(G, i - 1, G[i].seq)
        /\ ~G[i].end => i + 1 \in DOMAIN G
        /\ ~G[i].start => /\ i > 1 /\ ~G[i - 1].end
                          /\ G[i - 1].seq = G[i].seq /\ G[i - 1].kind = G[i].kind
    BY <2>1 DEF LegalLine
  <2>4. i + 1 \in DOMAIN G => i + 1 \in DOMAIN H
    BY <1>1
  <2> QED  BY <1>2, <2>1, <2>2, <2>3, <2>4
<1>5. CASE i = m + 1
  <2>1. i \in m + 1..z /\ i - 1 = m /\ m \in 0..m
    BY <1>1, <1>3, <1>5
  <2>2. H[i].seq = f.seq /\ H[i].start /\ H[i].end = (i = z)
    BY <1>1, <1>5, <2>1
  <2>3. i # z => i + 1 \in DOMAIN H
    BY <1>1, <1>3
  <2>4. f.seq > 0 => Due(H, m, f.seq)
    BY <1>2, <2>1 DEF m
  <2> QED  BY <2>1, <2>2, <2>3, <2>4
<1>6. CASE i > m + 1
  <2>1. i = z /\ z = m + 2 /\ i \in m + 1..z /\ i - 1 \in m + 1..z /\ i # m + 1 /\ i - 1 # z /\ i > 1
    BY <1>1, <1>3, <1>6
  <2>2. H[i].seq = f.seq /\ H[i].kind = f.kind /\ ~H[i].start /\ H[i].end
    BY <1>1, <2>1
  <2>3. H[i - 1].seq = f.seq /\ H[i - 1].kind = f.kind /\ ~H[i - 1].end
    BY <1>1, <2>1
  <2> QED  BY <2>1, <2>2, <2>3
<1> QED  BY <1>1, <1>3, <1>4, <1>5, <1>6

\* What is due after a frame of the pipe depends on nothing behind it.
LEMMA DueKept ==
  ASSUME NEW G, NEW q, NEW r, NEW n \in Nat, \A i \in 1..n : r[i] = q[i], NEW s, DueAfter(G, q, n, s)
  PROVE  DueAfter(G, r, n, s)
<1>1. ASSUME NEW j \in 1..n
      PROVE  /\ r[j] = q[j] /\ (NoReset(q, j, n) => NoReset(r, j, n))
             /\ (Unnumbered(q, j + 1, n) => Unnumbered(r, j + 1, n))
  <2>1. (\A k \in j..n : k \in 1..n) /\ \A k \in j + 1..n : k \in 1..n
    OBVIOUS
  <2> QED  BY <2>1 DEF NoReset, Unnumbered
<1>2. (NoReset(q, 1, n) => NoReset(r, 1, n)) /\ (Unnumbered(q, 1, n) => Unnumbered(r, 1, n))
  BY DEF NoReset, Unnumbered
<1> QED  BY <1>1, <1>2 DEF DueAfter

\* It is still due when the bridge has collected the first frame of the pipe.
LEMMA DueMoves ==
  ASSUME NEW G \in Seq(PieceSet), NEW q \in Seq(FrameSet), NEW n \in 1..Len(q), NEW s \in Nat,
         DueAfter(G, q, n, s)
  PROVE  DueAfter(G \o PiecesOf(q[1]), Tail(q), n - 1, s)
<1> DEFINE f == q[1]
           H == G \o PiecesOf(f)
           r == Tail(q)
           m == Len(G)
           z == Len(H)
<1>1. Len(q) \in Nat /\ q # <<>> /\ f \in FrameSet
  <2>1. Len(q) \in Nat /\ 1 \in 1..Len(q)
    BY LenProperties
  <2> QED  BY <2>1, EmptySeq, ElementOfSeq
<1>2. /\ m \in Nat /\ z \in Nat /\ DOMAIN G = 1..m /\ DOMAIN H = 1..z
      /\ z \in {m + 1, m + 2} /\ (f.seq = 0 => z = m + 1)
      /\ \A i \in 1..m : H[i] = G[i]
      /\ \A i \in m + 1..z : /\ H[i].seq = f.seq /\ H[i].kind = f.kind
                             /\ H[i].start = (i = m + 1) /\ H[i].end = (i = z)
  <2>1. f \in FrameSet
    BY <1>1
  <2> HIDE DEF f
  <2> QED  BY <2>1, LineGrows
<1>3. \A i \in 1..n - 1 : r[i] = q[i + 1]
  <2>1. \A i \in 1..Len(r) : r[i] = q[i + 1]
    BY <1>1, HeadTailProperties
  <2>2. Len(r) = Len(q) - 1
    BY <1>1, HeadTailProperties
  <2>3. \A i \in 1..n - 1 : i \in 1..Len(r)
    BY <1>1, <2>2
  <2> QED  BY <2>1, <2>3
<1>4. f.seq \in Nat /\ f.kind \in Kinds /\ (f.seq = 0 <=> f.kind \in Marks)
  BY <1>1 DEF FrameSet
<1> HIDE DEF H, r, m, z, f
<1>5. \A j \in 1..n : NoReset(q, j, n) /\ j # 1 => NoReset(r, j - 1, n - 1)
  <2> TAKE j \in 1..n
  <2> HAVE NoReset(q, j, n) /\ j # 1
  <2> SUFFICES ASSUME NEW k \in j - 1..n - 1
               PROVE  r[k].kind # "reset"
    BY DEF NoReset
  <2>1. k \in 1..n - 1 /\ k + 1 \in j..n
    OBVIOUS
  <2> QED  BY <1>3, <2>1 DEF NoReset
<1>6. \A j \in 1..n : Unnumbered(q, j + 1, n) => Unnumbered(r, j, n - 1)
  <2> TAKE j \in 1..n
  <2> HAVE Unnumbered(q, j + 1, n)
  <2> SUFFICES ASSUME NEW k \in j..n - 1
               PROVE  r[k].seq = 0
    BY DEF Unnumbered
  <2>1. k \in 1..n - 1 /\ k + 1 \in j + 1..n
    OBVIOUS
  <2> QED  BY <1>3, <2>1 DEF Unnumbered
<1>7. NoReset(q, 1, n) => f.kind # "reset" /\ NoReset(r, 1, n - 1)
  <2> HAVE NoReset(q, 1, n)
  <2>1. f.kind # "reset"
    <3>1. 1 \in 1..n
      OBVIOUS
    <3> QED  BY <3>1 DEF NoReset, f
  <2>2. \A k \in 1..n - 1 : k + 1 \in 1..n
    OBVIOUS
  <2>3. \A k \in 1..n - 1 : r[k].kind # "reset"
    BY <1>3, <2>2 DEF NoReset
  <2> QED  BY <2>1, <2>3 DEF NoReset
<1>8. CASE \E j \in 1..n : s > 1 /\ q[j].seq = s - 1 /\ NoReset(q, j, n)
  <2>1. PICK j \in 1..n : s > 1 /\ q[j].seq = s - 1 /\ NoReset(q, j, n)
    BY <1>8
  <2>2. CASE j = 1
    <3>1. f.kind # "reset" /\ NoReset(r, 1, n - 1) /\ f.seq = s - 1
      BY <1>7, <2>1, <2>2 DEF f
    <3>2. z \in DOMAIN H /\ z \in m + 1..z
      BY <1>2
    <3>3. H[z].seq = s - 1 /\ H[z].end /\ H[z].kind # "reset"
      BY <1>2, <3>1, <3>2
    <3>4. NoReset(H, z, z)
      BY <1>2, <3>3 DEF NoReset
    <3> QED  BY <2>1, <3>1, <3>2, <3>3, <3>4 DEF DueAfter, z, r, H, f
  <2>3. CASE j # 1
    <3>1. j - 1 \in 1..n - 1 /\ (j - 1) + 1 = j
      BY <2>3
    <3>2. r[j - 1] = q[(j - 1) + 1]
      BY <1>3, <3>1
    <3>3. s > 1 /\ r[j - 1].seq = s - 1 /\ NoReset(r, j - 1, n - 1)
      BY <1>5, <2>1, <2>3, <3>1, <3>2
    <3> QED  BY <3>1, <3>3 DEF DueAfter, r
  <2> QED  BY <2>2, <2>3
<1>9. CASE \E j \in 1..n : q[j].kind = "reset" /\ Unnumbered(q, j + 1, n)
  <2>1. PICK j \in 1..n : q[j].kind = "reset" /\ Unnumbered(q, j + 1, n)
    BY <1>9
  <2>2. CASE j = 1
    <3>1. f.kind = "reset" /\ f.seq = 0 /\ Unnumbered(r, 1, n - 1)
      BY <1>4, <1>6, <2>1, <2>2 DEF f, Marks
    <3>2. z \in DOMAIN H /\ z \in m + 1..z
      BY <1>2
    <3>3. H[z].kind = "reset"
      BY <1>2, <3>1, <3>2
    <3>4. Unnumbered(H, z + 1, z)
      <4>1. \A k \in z + 1..z : FALSE
        BY <1>2
      <4> QED  BY <4>1 DEF Unnumbered
    <3> QED  BY <3>1, <3>2, <3>3, <3>4 DEF DueAfter, z, r, H, f
  <2>3. CASE j # 1
    <3>1. j - 1 \in 1..n - 1 /\ (j - 1) + 1 = j
      BY <2>3
    <3>2. r[j - 1] = q[(j - 1) + 1]
      BY <1>3, <3>1
    <3>3. r[j - 1].kind = "reset" /\ Unnumbered(r, (j - 1) + 1, n - 1)
      BY <1>6, <2>1, <3>1, <3>2
    <3> QED  BY <3>1, <3>3 DEF DueAfter, r
  <2> QED  BY <2>2, <2>3
<1>10. CASE /\ NoReset(q, 1, n)
            /\ \E j \in DOMAIN G : s > 1 /\ G[j].seq = s - 1 /\ G[j].end /\ NoReset(G, j, Len(G))
  <2>1. PICK j \in DOMAIN G : s > 1 /\ G[j].seq = s - 1 /\ G[j].end /\ NoReset(G, j, Len(G))
    BY <1>10
  <2>2. j \in 1..m /\ j \in DOMAIN H /\ H[j] = G[j]
    BY <1>2
  <2>3. NoReset(H, j, z)
    <3> SUFFICES ASSUME NEW k \in j..z
                 PROVE  H[k].kind # "reset"
      BY DEF NoReset
    <3>1. CASE k <= m
      <4>1. k \in 1..m /\ k \in j..m
        BY <1>2, <2>2, <3>1
      <4> QED  BY <1>2, <2>1, <4>1 DEF NoReset, m
    <3>2. CASE k > m
      <4>1. k \in m + 1..z
        BY <1>2, <2>2, <3>2
      <4> QED  BY <1>2, <1>7, <1>10, <4>1
    <3> QED  BY <1>2, <2>2, <3>1, <3>2
  <2> QED  BY <1>7, <1>10, <2>1, <2>2, <2>3 DEF DueAfter, z, r, H, f
<1>11. CASE /\ Unnumbered(q, 1, n)
            /\ \E j \in DOMAIN G : G[j].kind = "reset" /\ Unnumbered(G, j + 1, Len(G))
  <2>1. PICK j \in DOMAIN G : G[j].kind = "reset" /\ Unnumbered(G, j + 1, Len(G))
    BY <1>11
  <2>2. j \in 1..m /\ j \in DOMAIN H /\ H[j] = G[j]
    BY <1>2
  <2>3. f.seq = 0 /\ Unnumbered(r, 1, n - 1)
    <3>1. 1 \in 1..n /\ \A k \in 1 + 1..n : k \in 1..n
      OBVIOUS
    <3>2. Unnumbered(q, 1 + 1, n) /\ f.seq = 0
      BY <1>11, <3>1 DEF Unnumbered, f
    <3> QED  BY <1>6, <3>1, <3>2
  <2>4. Unnumbered(H, j + 1, z)
    <3> SUFFICES ASSUME NEW k \in j + 1..z
                 PROVE  H[k].seq = 0
      BY DEF Unnumbered
    <3>1. CASE k <= m
      <4>1. k \in 1..m /\ k \in j + 1..m
        BY <1>2, <2>2, <3>1
      <4> QED  BY <1>2, <2>1, <4>1 DEF Unnumbered, m
    <3>2. CASE k > m
      <4>1. k \in m + 1..z
        BY <1>2, <2>2, <3>2
      <4> QED  BY <1>2, <2>3, <4>1
    <3> QED  BY <1>2, <2>2, <3>1, <3>2
  <2> QED  BY <2>1, <2>2, <2>3, <2>4 DEF DueAfter, z, r, H, f
<1> QED  BY <1>8, <1>9, <1>10, <1>11 DEF DueAfter

\* The answer to an attach begins where the line ends, or begins anew, and what
\* the PTY produces next continues it.
LEMMA AttachedDue ==
  ASSUME oldest \in Nat \ {0}, produced \in Nat, NEW after \in Nat, NEW command \in BOOLEAN,
         NEW G \in Seq(PieceSet),
         after > 0 => /\ after <= produced
                      /\ \E j \in DOMAIN G : G[j].seq = after /\ G[j].end /\ NoReset(G, j, Len(G)),
         NEW q, q = AttachedFrames(after, command)
  PROVE  /\ q \in Seq(FrameSet) /\ DueAfter(G, q, Len(q), produced + 1)
         /\ \A i \in DOMAIN q : /\ q[i].seq <= produced
                                /\ q[i].seq > 0 => DueAfter(G, q, i - 1, q[i].seq)
                                /\ q[i].kind = "reset" => i = 1
<1> DEFINE again == ReplayReset(after)
           from == IF again THEN oldest ELSE Max2(oldest, after + 1)
           n == Max2(0, produced - from + 1)
           begin == IF again THEN <<Reset>> ELSE <<>>
           replay == [i \in 1..n |-> Frame("replay", from + i - 1)]
           d == IF again THEN 1 ELSE 0
<1>1. q \in Seq(FrameSet)
  BY AttachedType
<1>2. /\ from \in Nat \ {0} /\ n \in Nat /\ d \in {0, 1} /\ (n > 0 => from + n - 1 = produced)
      /\ (n = 0 => produced < from)
      /\ (~again => after > 0 /\ from = after + 1)
  BY DEF Max2, ReplayReset
<1>3. q = begin \o replay \o <<End(command)>>
  BY DEF AttachedFrames
<1> HIDE DEF from, n, again
<1>4. /\ begin \in Seq(FrameSet) /\ Len(begin) = d /\ (again => begin[1] = Reset)
  BY FrameTypes
<1>5. replay \in Seq(FrameSet) /\ Len(replay) = n /\ \A i \in 1..n : replay[i] = Frame("replay", from + i - 1)
  <2>1. \A i \in 1..n : from + i - 1 \in Nat \ {0}
    BY <1>2
  <2>2. replay \in [1..n -> FrameSet]
    BY <2>1, FrameTypes
  <2>3. DOMAIN replay = 1..n
    OBVIOUS
  <2>4. \A i \in 1..n : replay[i] = Frame("replay", from + i - 1)
    OBVIOUS
  <2>5. replay \in Seq(FrameSet)
    <3> HIDE DEF replay
    <3> QED  BY <1>2, <2>2, SeqDef
  <2> HIDE DEF replay
  <2> QED  BY <1>2, <2>3, <2>4, <2>5, LenProperties
<1> HIDE DEF begin, replay, d
<1> DEFINE u == begin \o replay
           e == <<End(command)>>
<1>6. /\ u \in Seq(FrameSet) /\ Len(u) = d + n
      /\ \A i \in 1..d + n : u[i] = IF i <= d THEN begin[i] ELSE replay[i - d]
  BY <1>4, <1>5, ConcatProperties
<1>7. e \in Seq(FrameSet) /\ Len(e) = 1 /\ e[1] = End(command)
  BY FrameTypes
<1>f. q = u \o e
  BY <1>3
<1> HIDE DEF u, e
<1>8. /\ Len(q) = d + n + 1
      /\ \A i \in 1..d + n + 1 : q[i] = IF i <= d + n THEN u[i] ELSE e[i - (d + n)]
  <2>0. u \in Seq(FrameSet) /\ e \in Seq(FrameSet)
    BY <1>6, <1>7
  <2>1. Len(u \o e) = Len(u) + Len(e)
    BY <2>0, ConcatProperties
  <2>3. \A i \in 1..Len(u) + Len(e) : (u \o e)[i] = IF i <= Len(u) THEN u[i] ELSE e[i - Len(u)]
    BY <2>0, ConcatProperties
  <2>2. Len(u) = d + n /\ Len(e) = 1
    BY <1>6, <1>7
  <2> QED  BY <1>f, <2>1, <2>2, <2>3
<1>9. again => q[1].kind = "reset" /\ q[1].seq = 0
  <2> HAVE again
  <2>0. d = 1
    BY DEF d
  <2>1. d = 1 /\ 1 \in 1..d + n + 1 /\ 1 <= d + n /\ 1 \in 1..d + n
    BY <1>2, <2>0
  <2>2. q[1] = Reset
    BY <1>4, <1>6, <1>8, <2>1
  <2> QED  BY <2>2 DEF Reset, Frame
<1>10. ASSUME NEW i \in d + 1..d + n
       PROVE  q[i].kind = "replay" /\ q[i].seq = from + (i - d) - 1
  <2>1. i \in 1..d + n + 1 /\ i <= d + n /\ i \in 1..d + n /\ ~(i <= d) /\ i - d \in 1..n
    BY <1>2
  <2>2. q[i] = replay[i - d]
    BY <1>6, <1>8, <2>1
  <2> QED  BY <1>5, <2>1, <2>2 DEF Frame
<1> DEFINE z == d + n + 1
<1>11. q[z].seq = 0 /\ q[z].kind # "reset"
  <2>1. z \in 1..d + n + 1 /\ ~(z <= d + n) /\ z - (d + n) = 1
    BY <1>2
  <2>2. q[z] = e[z - (d + n)]
    BY <1>8, <2>1
  <2>3. q[z] = End(command)
    BY <1>7, <2>1, <2>2
  <2> QED  BY <2>3 DEF End, Frame
<1>12. DOMAIN q = 1..z /\ Len(q) = z /\ z \in Nat
  BY <1>1, <1>2, <1>8, LenProperties
<1> HIDE DEF z
<1>0. z = d + n + 1 /\ (again => d = 1) /\ (~again => d = 0)
  BY DEF z, d
\* What the replay may begin with, and what may follow each of its frames.
<1>13. ASSUME NEW k \in 0..n
       PROVE  DueAfter(G, q, d + k, from + k)
  <2>1. CASE k > 0
    <3> DEFINE j == d + k
    <3>1. j \in d + 1..d + n /\ j \in 1..d + k /\ from + (j - d) - 1 = (from + k) - 1 /\ from + k > 1
      BY <1>2, <2>1
    <3> HIDE DEF j
    <3>2. q[j].seq = (from + k) - 1 /\ q[j].kind # "reset"
      BY <1>10, <3>1
    <3>3. NoReset(q, j, d + k)
      <4>1. \A i \in j..d + k : i = j
        BY <1>2 DEF j
      <4> QED  BY <3>2, <4>1 DEF NoReset
    <3> QED  BY <3>1, <3>2, <3>3 DEF DueAfter
  <2>2. CASE k = 0 /\ again
    <3>1. d + k = 1 /\ 1 \in 1..1 /\ \A i \in 1 + 1..1 : FALSE
      BY <1>0, <2>2
    <3>2. Unnumbered(q, 1 + 1, 1)
      BY <3>1 DEF Unnumbered
    <3> QED  BY <1>9, <2>2, <3>1, <3>2 DEF DueAfter
  <2>3. CASE k = 0 /\ ~again
    <3>1. d + k = 0 /\ from + k > 1 /\ (from + k) - 1 = after /\ \A i \in 1..0 : FALSE
      BY <1>0, <1>2, <2>3
    <3>2. NoReset(q, 1, 0)
      BY <3>1 DEF NoReset
    <3>3. PICK j \in DOMAIN G : G[j].seq = after /\ G[j].end /\ NoReset(G, j, Len(G))
      BY <1>2, <2>3
    <3> QED  BY <3>1, <3>2, <3>3 DEF DueAfter
  <2> QED  BY <1>2, <2>1, <2>2, <2>3
<1>14. DueAfter(G, q, z, produced + 1)
  <2>1. CASE n > 0
    <3> DEFINE j == d + n
    <3>1. /\ j \in d + 1..d + n /\ j \in 1..z /\ produced + 1 > 1
          /\ from + (j - d) - 1 = (produced + 1) - 1
      BY <1>0, <1>2, <2>1
    <3>2. q[j].seq = (produced + 1) - 1 /\ q[j].kind # "reset"
      BY <1>10, <3>1
    <3>3. NoReset(q, j, z)
      <4>1. \A i \in j..z : i = j \/ i = z
        BY <1>0, <1>2
      <4> HIDE DEF j
      <4> QED  BY <1>11, <3>2, <4>1 DEF NoReset
    <3> HIDE DEF j
    <3> QED  BY <3>1, <3>2, <3>3 DEF DueAfter
  <2>2. CASE n = 0 /\ again
    <3>1. 1 \in 1..z /\ \A i \in 1 + 1..z : i = z
      BY <1>0, <2>2
    <3>2. Unnumbered(q, 1 + 1, z)
      BY <1>11, <3>1 DEF Unnumbered
    <3> QED  BY <1>9, <2>2, <3>1, <3>2 DEF DueAfter
  <2>3. CASE n = 0 /\ ~again
    <3>1. after = (produced + 1) - 1 /\ produced + 1 > 1 /\ \A i \in 1..z : i = z
      BY <1>0, <1>2, <2>3
    <3>2. NoReset(q, 1, z)
      BY <1>11, <3>1 DEF NoReset
    <3>3. PICK j \in DOMAIN G : G[j].seq = after /\ G[j].end /\ NoReset(G, j, Len(G))
      BY <1>2, <2>3
    <3> QED  BY <3>1, <3>2, <3>3 DEF DueAfter
  <2> QED  BY <1>2, <2>1, <2>2, <2>3
<1>15. ASSUME NEW i \in DOMAIN q
       PROVE  /\ q[i].seq <= produced
              /\ q[i].seq > 0 => DueAfter(G, q, i - 1, q[i].seq)
              /\ q[i].kind = "reset" => i = 1
  <2>1. CASE i <= d
    <3>1. i = 1 /\ again
      BY <1>0, <1>2, <1>12, <2>1
    <3> QED  BY <1>9, <3>1
  <2>2. CASE i \in d + 1..d + n
    <3> DEFINE k == (i - d) - 1
    <3>0. i \in Nat /\ n > 0 /\ d + 1 <= i /\ i <= d + n
      BY <1>2, <2>2
    <3>1. k \in 0..n - 1 /\ k \in 0..n
      <4>1. d \in Nat /\ n \in Nat
        BY <1>2
      <4>2. k \in Int /\ 0 <= k /\ k <= n - 1
        BY <3>0, <4>1
      <4> HIDE DEF k
      <4> QED  BY <4>1, <4>2
    <3>4. d + k = i - 1 /\ from + (i - d) - 1 = from + k
      BY <1>2, <3>0
    <3>5. from + k <= produced
      <4> HIDE DEF k
      <4> QED  BY <1>2, <3>0, <3>1
    <3>2. DueAfter(G, q, d + k, from + k)
      BY <1>13, <3>1
    <3> HIDE DEF k
    <3> QED  BY <1>10, <2>2, <3>2, <3>4, <3>5
  <2>3. CASE i = z
    BY <1>11, <2>3
  <2> QED  BY <1>0, <1>2, <1>12, <2>1, <2>2, <2>3
<1> QED  BY <1>1, <1>12, <1>14, <1>15

\* The pieces q are those of G after the first m, up to the n-th.
IsPart(q, G, m, n) ==
  /\ m \in Nat /\ n \in Nat /\ m <= n /\ n <= Len(G)
  /\ Len(q) = n - m /\ \A i \in 1..n - m : q[i] = G[m + i]

\* A part of the line remains one when the line grows; what the line grows by
\* continues its last part.
LEMMA PartGrows ==
  ASSUME NEW G \in Seq(PieceSet), NEW r \in Seq(PieceSet), NEW q, NEW m, NEW n, IsPart(q, G, m, n)
  PROVE  IsPart(q, G \o r, m, n)
<1> DEFINE H == G \o r
           z == Len(G)
<1>1. Len(H) = z + Len(r) /\ z \in Nat /\ Len(r) \in Nat
  BY ConcatProperties, LenProperties
<1>2. \A i \in 1..z + Len(r) : H[i] = IF i <= z THEN G[i] ELSE r[i - z]
  BY ConcatProperties
<1> HIDE DEF H, z
<1>3. m \in Nat /\ n \in Nat /\ m <= n /\ n <= z /\ Len(q) = n - m /\ \A i \in 1..n - m : q[i] = G[m + i]
  BY DEF IsPart, z
<1>4. ASSUME NEW i \in 1..n - m
      PROVE  q[i] = H[m + i]
  <2>1. m + i \in 1..z + Len(r) /\ m + i <= z
    BY <1>1, <1>3
  <2> QED  BY <1>2, <1>3, <2>1
<1>5. IsPart(q, H, m, n)
  BY <1>1, <1>3, <1>4 DEF IsPart
<1> QED  BY <1>5 DEF H

\* A part that reaches the end of a line grows with the line.
LEMMA PartConcat ==
  ASSUME NEW G \in Seq(PieceSet), NEW r \in Seq(PieceSet), NEW q \in Seq(PieceSet), NEW m,
         IsPart(q, G, m, Len(G))
  PROVE  IsPart(q \o r, G \o r, m, Len(G \o r))
<1> DEFINE H == G \o r
           w == q \o r
           z == Len(G)
           n == Len(r)
<1>1. Len(H) = z + n /\ z \in Nat /\ n \in Nat
  BY ConcatProperties, LenProperties
<1>2. \A i \in 1..z + n : H[i] = IF i <= z THEN G[i] ELSE r[i - z]
  BY ConcatProperties
<1>3. m \in Nat /\ m <= z /\ Len(q) = z - m /\ \A i \in 1..z - m : q[i] = G[m + i]
  BY DEF IsPart
<1>4. Len(w) = Len(q) + n
  BY ConcatProperties
<1>5. \A i \in 1..Len(q) + n : w[i] = IF i <= Len(q) THEN q[i] ELSE r[i - Len(q)]
  BY ConcatProperties
<1> HIDE DEF H, w, z, n
<1>6. ASSUME NEW i \in 1..(z + n) - m
      PROVE  w[i] = H[m + i]
  <2>1. m + i \in 1..z + n /\ i \in 1..Len(q) + n
    BY <1>1, <1>3
  <2>2. CASE i <= z - m
    <3>1. i \in 1..z - m /\ m + i <= z /\ i <= Len(q)
      BY <1>1, <1>3, <2>2
    <3> QED  BY <1>2, <1>3, <1>5, <2>1, <3>1
  <2>3. CASE i > z - m
    <3>1. ~(m + i <= z) /\ ~(i <= Len(q)) /\ (m + i) - z = i - Len(q)
      BY <1>1, <1>3, <2>3
    <3> QED  BY <1>2, <1>5, <2>1, <3>1
  <2> QED  BY <1>1, <1>3, <2>2, <2>3
<1>7. m <= z + n /\ z + n \in Nat /\ Len(w) = (z + n) - m
  BY <1>1, <1>3, <1>4
<1>8. IsPart(w, H, m, z + n)
  BY <1>1, <1>3, <1>6, <1>7 DEF IsPart
<1> QED  BY <1>1, <1>8 DEF H, w

\* The first piece of a part is the one behind the cut before it.
LEMMA PartTail ==
  ASSUME NEW G \in Seq(PieceSet), NEW q \in Seq(PieceSet), q # <<>>, NEW m, NEW n, IsPart(q, G, m, n)
  PROVE  /\ m \in Nat /\ m + 1 \in DOMAIN G /\ Head(q) = G[m + 1]
         /\ Tail(q) \in Seq(PieceSet) /\ IsPart(Tail(q), G, m + 1, n)
<1>1. /\ Len(q) \in Nat \ {0} /\ Head(q) = q[1] /\ Tail(q) \in Seq(PieceSet)
      /\ Len(Tail(q)) = Len(q) - 1 /\ \A i \in 1..Len(Tail(q)) : Tail(q)[i] = q[i + 1]
  BY HeadTailProperties, EmptySeq
<1>2. /\ m \in Nat /\ n \in Nat /\ m <= n /\ n <= Len(G) /\ Len(q) = n - m
      /\ \A i \in 1..n - m : q[i] = G[m + i]
  BY DEF IsPart
<1>3. DOMAIN G = 1..Len(G) /\ Len(G) \in Nat
  BY LenProperties
<1>4. m + 1 <= n /\ m + 1 \in DOMAIN G /\ 1 \in 1..n - m
  BY <1>1, <1>2, <1>3
<1>5. q[1] = G[m + 1]
  BY <1>2, <1>4
<1> DEFINE r == Tail(q)
<1>6. ASSUME NEW i \in 1..n - (m + 1)
      PROVE  r[i] = G[(m + 1) + i]
  <2>1. i \in 1..Len(r) /\ i + 1 \in 1..n - m /\ m + (i + 1) = (m + 1) + i
    BY <1>1, <1>2
  <2>2. r[i] = q[i + 1] /\ q[i + 1] = G[m + (i + 1)]
    BY <1>1, <1>2, <2>1
  <2> QED  BY <2>1, <2>2
<1>7. Len(r) = n - (m + 1) /\ m + 1 \in Nat
  BY <1>1, <1>2
<1> HIDE DEF r
<1>8. IsPart(r, G, m + 1, n)
  BY <1>2, <1>4, <1>6, <1>7 DEF IsPart
<1> QED  BY <1>1, <1>2, <1>4, <1>5, <1>8 DEF r

\* Nothing is left of an empty part.
LEMMA PartEmpty ==
  ASSUME NEW G, NEW m, NEW n, IsPart(<<>>, G, m, n)
  PROVE  m = n
<1>1. Len(<<>>) = 0
  OBVIOUS
<1> QED  BY <1>1 DEF IsPart

\* How many chunks there are, and where they end.
LEMMA CutCount ==
  ASSUME NEW l \in Nat \ {0}, NEW b \in Nat \ {0}, NEW n, n = (l + b - 1) \div b
  PROVE  /\ n \in Nat \ {0}
         /\ \A k \in 0..n - 1 : k * b \in Nat /\ k * b <= l
         /\ \A k \in 1..n : (k - 1) * b <= k * b
<1> DEFINE x == l + b - 1
<1>1. x \in Nat /\ x >= b
  OBVIOUS
<1>2. n \in Nat /\ n * b <= x
  <2> HIDE DEF x
  <2>1. n = x \div b
    BY DEF x
  <2> QED  BY <1>1, <2>1
<1>3. n # 0
  <2>1. n = x \div b
    OBVIOUS
  <2> HIDE DEF x
  <2>2. x % b \in 0..b - 1 /\ x = (b * (x \div b)) + (x % b)
    BY <1>1
  <2>3. n = 0 => b * n = 0
    OBVIOUS
  <2>4. n = 0 => x = x % b
    BY <1>1, <2>1, <2>2, <2>3
  <2> QED  BY <1>1, <2>2, <2>4
<1>4. ASSUME NEW k \in 0..n - 1
      PROVE  k * b \in Nat /\ k * b <= l
  <2>1. k + 1 \in Nat /\ k + 1 <= n /\ k \in Nat
    BY <1>2, <1>4
  <2>2. (k + 1) * b <= n * b
    BY <1>2, <2>1, TimesMonotonic
  <2>3. (k + 1) * b = k * b + b /\ k * b \in Nat /\ n * b \in Nat
    BY <1>2, <2>1
  <2> HIDE DEF x
  <2>4. k * b + b <= x
    BY <1>1, <1>2, <2>2, <2>3
  <2> QED  BY <2>3, <2>4 DEF x
<1>5. ASSUME NEW k \in 1..n
      PROVE  (k - 1) * b <= k * b
  <2>1. k - 1 \in Nat /\ k \in Nat /\ k - 1 <= k
    BY <1>2, <1>5
  <2> QED  BY <2>1, TimesMonotonic
<1> QED  BY <1>2, <1>3, <1>4, <1>5

\* J cuts G as K does up to the cut c, and behind it into the chunks B.
Recut(B, G, K, c, J) ==
  /\ \A k \in 0..c : J[k] = K[k]
  /\ J[c + Len(B)] = Len(G)
  /\ \A k \in 1..Len(B) : IsPart(B[k], G, J[c + k - 1], J[c + k])

\* batchWebTerminalFrames cuts the pieces without a gap.
LEMMA BatchesCut ==
  ASSUME NEW G \in Seq(PieceSet), NEW q \in Seq(PieceSet), q # <<>>, NEW c \in Nat,
         NEW K \in [Nat -> Nat], IsPart(q, G, K[c], Len(G))
  PROVE  /\ Batches(q) \in Seq(Seq(PieceSet))
         /\ \E J \in [Nat -> Nat] : Recut(Batches(q), G, K, c, J)
<1> DEFINE l == Len(q)
           n == (l + BatchMax - 1) \div BatchMax
           bs == Batches(q)
           m == K[c]
           z == Len(G)
           end == [k \in 0..n |-> IF k = n THEN l ELSE k * BatchMax]
           J == [k \in Nat |-> IF k <= c THEN K[k] ELSE IF k <= c + n THEN m + end[k - c] ELSE 0]
<1>0. BatchMax \in Nat \ {0} /\ l \in Nat \ {0} /\ z \in Nat /\ m \in Nat
  BY MirrorAssumption, LenProperties, EmptySeq
<1>1. /\ n \in Nat \ {0} /\ n \in Nat
      /\ \A k \in 0..n - 1 : k * BatchMax \in Nat /\ k * BatchMax <= l
      /\ \A k \in 1..n : (k - 1) * BatchMax <= k * BatchMax
  BY <1>0, CutCount
<1>2. bs = [i \in 1..n |-> SubSeq(q, (i - 1) * BatchMax + 1, IF i = n THEN l ELSE i * BatchMax)]
  BY DEF Batches
<1>3. DOMAIN bs = 1..n /\ bs = [k \in 1..n |-> bs[k]]
  BY <1>2
<1> HIDE DEF n, l, bs, m, z
<1>4. ASSUME NEW k \in 0..n
      PROVE  /\ k # n => end[k] = k * BatchMax
             /\ k = n => end[k] = l
  OBVIOUS
<1>5. ASSUME NEW k \in 0..n
      PROVE  end[k] \in 0..l
  <2>1. CASE k = n
    BY <1>0, <1>4, <2>1
  <2>2. CASE k # n
    <3>1. k \in 0..n - 1
      BY <1>1, <2>2
    <3>2. k * BatchMax \in Nat /\ k * BatchMax <= l /\ end[k] = k * BatchMax
      BY <1>1, <1>4, <2>2, <3>1
    <3> HIDE DEF end
    <3> QED  BY <1>0, <3>2
  <2> QED  BY <2>1, <2>2
<1>6. ASSUME NEW k \in 1..n
      PROVE  /\ k - 1 \in 0..n /\ k \in 0..n /\ end[k - 1] <= end[k]
             /\ bs[k] = SubSeq(q, end[k - 1] + 1, end[k])
  <2>1. k - 1 \in 0..n /\ k - 1 # n /\ k \in 0..n /\ k - 1 \in 0..n - 1
    BY <1>1
  <2>2. end[k - 1] = (k - 1) * BatchMax
    BY <1>4, <2>1
  <2>3. bs[k] = SubSeq(q, (k - 1) * BatchMax + 1, IF k = n THEN l ELSE k * BatchMax)
    BY <1>2
  <2>4. bs[k] = SubSeq(q, end[k - 1] + 1, end[k])
    <3>1. end[k] = IF k = n THEN l ELSE k * BatchMax
      BY <2>1
    <3> HIDE DEF end
    <3> QED  BY <2>2, <2>3, <3>1
  <2>5. end[k - 1] <= end[k]
    <3> HIDE DEF end
    <3>1. CASE k = n
      <4>1. (k - 1) * BatchMax <= l /\ end[k] = l
        BY <1>1, <1>4, <2>1, <3>1
      <4> QED  BY <2>2, <4>1
    <3>2. CASE k # n
      <4>1. (k - 1) * BatchMax <= k * BatchMax /\ end[k] = k * BatchMax
        BY <1>1, <1>4, <2>1, <3>2
      <4> QED  BY <2>2, <4>1
    <3> QED  BY <3>1, <3>2
  <2> QED  BY <2>1, <2>4, <2>5
<1>7. end[0] = 0 /\ end[n] = l
  <2>1. 0 \in 0..n /\ n \in 0..n /\ 0 # n
    BY <1>1
  <2>2. end[0] = 0 * BatchMax /\ end[n] = l
    BY <1>4, <2>1
  <2>3. 0 * BatchMax = 0
    BY <1>0
  <2> HIDE DEF end
  <2> QED  BY <2>2, <2>3
<1> HIDE DEF end
<1>8. m <= z /\ l = z - m /\ \A i \in 1..l : q[i] = G[m + i]
  BY DEF IsPart, l, m, z
<1>9. J \in [Nat -> Nat]
  <2> SUFFICES ASSUME NEW k \in Nat
               PROVE  (IF k <= c THEN K[k] ELSE IF k <= c + n THEN m + end[k - c] ELSE 0) \in Nat
    OBVIOUS
  <2>1. CASE ~(k <= c) /\ k <= c + n
    <3>1. k - c \in 0..n
      BY <1>1, <2>1
    <3>2. end[k - c] \in 0..l
      BY <1>5, <3>1
    <3> DEFINE y == end[k - c]
    <3>4. y \in 0..l
      BY <3>2
    <3> HIDE DEF y
    <3>5. m + y \in Nat
      BY <1>0, <3>4
    <3>3. m + end[k - c] \in Nat
      BY <3>5 DEF y
    <3> QED  BY <2>1, <3>3
  <2> QED  BY <2>1
<1>10. \A k \in 0..c : J[k] = K[k]
  OBVIOUS
<1>11. ASSUME NEW k \in 0..n
       PROVE  J[c + k] = m + end[k]
  <2>1. c + k \in Nat /\ c + k <= c + n /\ (c + k) - c = k
    BY <1>1
  <2>2. CASE k = 0
    <3>1. c + k = c /\ c \in 0..c
      BY <2>2
    <3>2. J[c + k] = m
      BY <1>10, <3>1 DEF m
    <3>3. m + 0 = m
      BY <1>0
    <3> HIDE DEF J
    <3> QED  BY <1>7, <2>2, <3>2, <3>3
  <2>3. CASE k # 0
    <3>1. ~(c + k <= c)
      BY <1>1, <2>3
    <3> QED  BY <2>1, <3>1
  <2> QED  BY <2>2, <2>3
<1> HIDE DEF J
<1>12. ASSUME NEW k \in 1..n
       PROVE  bs[k] \in Seq(PieceSet) /\ IsPart(bs[k], G, J[c + k - 1], J[c + k])
  <2> DEFINE a == end[k - 1]
             e == end[k]
             w == SubSeq(q, a + 1, e)
  <2>1. bs[k] = w /\ a <= e /\ k - 1 \in 0..n /\ k \in 0..n
    BY <1>6
  <2>2. a \in 0..l /\ e \in 0..l
    BY <1>5, <2>1
  <2>3. J[c + k - 1] = m + a /\ J[c + k] = m + e
    <3>1. c + (k - 1) = c + k - 1
      BY <1>1
    <3>2. J[c + (k - 1)] = m + end[k - 1] /\ J[c + k] = m + end[k]
      BY <1>11, <2>1
    <3> QED  BY <3>1, <3>2
  <2> HIDE DEF a, e
  <2>4. a \in Nat /\ e \in Nat /\ a + 1 \in Int /\ e \in Int
    BY <1>0, <2>2
  <2>5. \A i \in a + 1..e : q[i] \in PieceSet
    <3>1. \A i \in a + 1..e : i \in 1..Len(q)
      BY <1>0, <2>2 DEF l
    <3> QED  BY <3>1, ElementOfSeq
  <2>6. w \in Seq(PieceSet)
    BY <2>4, <2>5, SubSeqProperties
  <2>7. Len(w) = IF a + 1 <= e THEN e - (a + 1) + 1 ELSE 0
    BY <2>4, <2>5, SubSeqProperties
  <2>8. \A i \in 1..e - (a + 1) + 1 : w[i] = q[(a + 1) + i - 1]
    BY <2>4, <2>5, SubSeqProperties
  <2> HIDE DEF w
  <2>9. Len(w) = (m + e) - (m + a)
    BY <1>0, <2>1, <2>4, <2>7
  <2>10. ASSUME NEW i \in 1..(m + e) - (m + a)
         PROVE  w[i] = G[(m + a) + i]
    <3>1. i \in 1..e - (a + 1) + 1 /\ (a + 1) + i - 1 \in 1..l /\ m + ((a + 1) + i - 1) = (m + a) + i
      BY <1>0, <2>2, <2>4
    <3>2. w[i] = q[(a + 1) + i - 1]
      BY <2>8, <3>1
    <3>3. q[(a + 1) + i - 1] = G[m + ((a + 1) + i - 1)]
      BY <1>8, <3>1
    <3> QED  BY <3>1, <3>2, <3>3
  <2>11. m + a \in Nat /\ m + e \in Nat /\ m + a <= m + e /\ m + e <= z
    <3>1. e <= l
      BY <1>0, <2>2
    <3> QED  BY <1>0, <1>8, <2>1, <2>4, <3>1
  <2>12. IsPart(w, G, m + a, m + e)
    BY <2>9, <2>10, <2>11 DEF IsPart, z
  <2> QED  BY <2>1, <2>3, <2>6, <2>12
<1>13. bs \in Seq(Seq(PieceSet)) /\ Len(bs) = n
  <2>1. bs \in [1..n -> Seq(PieceSet)]
    BY <1>3, <1>12
  <2>2. bs \in Seq(Seq(PieceSet))
    BY <1>1, <2>1, SeqDef
  <2> QED  BY <1>1, <1>3, <2>2, LenProperties
<1>14. J[c + n] = z
  <2>1. n \in 0..n
    BY <1>1
  <2>2. J[c + n] = m + end[n]
    BY <1>11, <2>1
  <2>3. m + l = z
    BY <1>0, <1>8
  <2> QED  BY <1>7, <2>2, <2>3
<1> QED  BY <1>9, <1>10, <1>12, <1>13, <1>14 DEF bs, z, Recut

-----------------------------------------------------------------------------
(* A mirror that nothing disturbs. *)

\* No page and no device has been lost, and the daemon at most once ...
Calm == faults["link"] <= 1 /\ \A f \in Faults \ {"link", "giveup", "evict"} : faults[f] = 0
\* ... and the terminal has been attached, or is going to be, at most once.
Single == attaches + Len(commands) <= 1
Connected ==
  /\ deviceUp /\ \A b \in Browsers : mode[b] # "closed" => online[b]
  /\ \A i \in DOMAIN commands : commands[i] = AttachFrom(0)

\* The steps that are left.
Undisturbing ==
  \/ Produce \/ Evict \/ TakeAttach \/ Collect \/ Flush \/ Admit \/ PublishDone \/ GiveUp
  \/ LinkDrop \/ Relink \/ (Idle /\ Send)
  \/ \E b \in Browsers : Read(b) \/ Mount(b) \/ Unpack(b) \/ Draw(b) \/ Ready(b) \/ Open(b)
  \/ UNCHANGED vars

\* Which faults may happen.
LEMMA CalmFault ==
  ASSUME FaultsOK, NEW f \in Faults, Happens(f), Calm'
  PROVE  /\ Calm /\ f \in {"link", "giveup", "evict"}
         /\ f = "link" => faults["link"] = 0 /\ faults'["link"] = 1
         /\ f # "link" => faults'["link"] = faults["link"]
<1>1. faults' = [faults EXCEPT ![f] = @ + 1]
  BY Zenon DEF Happens
<1>2. faults \in [Faults -> Nat] /\ "link" \in Faults
  BY DEF FaultsOK, Faults
<1>3. faults'[f] = faults[f] + 1 /\ \A g \in Faults \ {f} : faults'[g] = faults[g]
  BY <1>1, <1>2
<1>4. \A g \in Faults : faults[g] \in Nat
  BY <1>2
<1>5. faults'["link"] <= 1 /\ \A g \in Faults \ {"link", "giveup", "evict"} : faults'[g] = 0
  BY DEF Calm
<1>6. f \in {"link", "giveup", "evict"}
  <2> SUFFICES ASSUME f \notin {"link", "giveup", "evict"} PROVE FALSE
    OBVIOUS
  <2>1. faults'[f] = 0
    BY <1>5
  <2> QED  BY <1>3, <1>4, <2>1
<1>7. \A g \in Faults \ {"link", "giveup", "evict"} : faults[g] = 0
  BY <1>3, <1>5, <1>6
<1>8. CASE f = "link"
  BY <1>2, <1>3, <1>4, <1>5, <1>7, <1>8 DEF Calm
<1>9. CASE f # "link"
  BY <1>2, <1>3, <1>5, <1>6, <1>7, <1>9 DEF Calm
<1> QED  BY <1>6, <1>8, <1>9

\* While nothing is disturbed, only these steps happen.
LEMMA CalmStep ==
  ASSUME TypeInv, [Next]_vars, Calm', Calm => Connected
  PROVE  Calm /\ Undisturbing
<1>1. FaultsOK /\ DeviceOK
  BY DEF TypeInv
<1>2. Calm \/ ~UNCHANGED faults
  BY DEF Calm
<1>3. \A f \in Faults : Happens(f) => Calm /\ f \in {"link", "giveup", "evict"}
  BY <1>1, CalmFault
<1>4. /\ "refused" \in Faults /\ "reload" \in Faults /\ "device" \in Faults /\ "browser" \in Faults
      /\ "leave" \in Faults /\ "overflow" \in Faults /\ "evict" \in Faults /\ "giveup" \in Faults
      /\ "link" \in Faults
  BY DEF Faults
<1>5. ~Refused /\ ~Reload /\ ~DeviceDrop /\ \A b \in Browsers : ~BrowserDrop(b) /\ ~Leave(b)
  BY <1>3, <1>4 DEF Refused, Reload, DeviceDrop, BrowserDrop, Leave
<1>6. ASSUME DeviceUp
      PROVE  FALSE
  <2>1. Calm
    BY <1>2, <1>6 DEF DeviceUp
  <2> QED  BY <1>6, <2>1 DEF DeviceUp, Connected
<1>7. ASSUME TakeDetach
      PROVE  FALSE
  <2>1. Connected
    BY <1>2, <1>7 DEF TakeDetach
  <2>2. 1 \in DOMAIN commands /\ Head(commands) = commands[1]
    BY <1>1, <1>7, LenProperties, EmptySeq, HeadTailProperties DEF TakeDetach, DeviceOK
  <2>3. Head(commands).type = "attach"
    BY <2>1, <2>2 DEF Connected, AttachFrom
  <2> QED  BY <1>7, <2>3 DEF TakeDetach
<1>8. Undisturbing
  BY <1>5, <1>6, <1>7 DEF Next, Progress, BridgeStep, Fault, Undisturbing
<1>9. Calm
  <2>1. CASE UNCHANGED faults
    BY <1>2, <2>1
  <2>2. CASE ~UNCHANGED faults
    <3>1. ~Send \/ Calm
      BY <1>3, <1>4, <2>2 DEF Send
    <3>2. Evict \/ GiveUp \/ LinkDrop => Calm
      BY <1>3, <1>4 DEF Evict, GiveUp, LinkDrop
    <3>3. ~(Produce \/ TakeAttach \/ Collect \/ Flush \/ Admit \/ PublishDone \/ Relink)
      BY <2>2 DEF Produce, TakeAttach, Collect, Flush, Admit, PublishDone, Relink
    <3>4. \A b \in Browsers : ~(Read(b) \/ Mount(b) \/ Unpack(b) \/ Draw(b) \/ Ready(b) \/ Open(b))
      BY <2>2 DEF Read, Mount, Unpack, Draw, Ready, Open
    <3>5. ~UNCHANGED vars
      BY <2>2 DEF vars
    <3> QED  BY <1>8, <3>1, <3>2, <3>3, <3>4, <3>5 DEF Undisturbing
  <2> QED  BY <2>1, <2>2
<1> QED  BY <1>8, <1>9

\* What a step does to the commands on their way.
LEMMA CommandsStep ==
  ASSUME TypeInv, Connected, Undisturbing
  PROVE  /\ deviceUp' = deviceUp
         /\ \/ commands' = commands /\ attaches' = attaches /\ ~TakeAttach
            \/ TakeAttach /\ commands # <<>> /\ commands' = Tail(commands) /\ attaches' = attaches + 1
            \/ attaches' = attaches /\ commands' = commands \o <<AttachFrom(0)>>
<1>1. DeviceOK
  BY DEF TypeInv
<1>2. deviceUp' = deviceUp
  <2>1. Produce \/ Evict \/ Collect \/ Flush \/ PublishDone \/ UNCHANGED vars => deviceUp' = deviceUp
    BY DEF Produce, Evict, Collect, Flush, PublishDone, vars, device
  <2>2. GiveUp \/ LinkDrop \/ Relink => deviceUp' = deviceUp
    BY DEF GiveUp, LinkDrop, Relink, device
  <2>3. TakeAttach \/ Admit \/ Send => deviceUp' = deviceUp
    BY DEF TakeAttach, Admit, Send
  <2>4. \A b \in Browsers : Ready(b) \/ Open(b) => deviceUp' = deviceUp
    BY DEF Ready, Open
  <2>5. \A b \in Browsers : Read(b) \/ Mount(b) \/ Unpack(b) \/ Draw(b) => deviceUp' = deviceUp
    BY DEF Read, Mount, Unpack, Draw, device
  <2> QED  BY <2>1, <2>2, <2>3, <2>4, <2>5 DEF Undisturbing
<1>3. ASSUME TakeAttach
      PROVE  commands # <<>> /\ commands' = Tail(commands) /\ attaches' = attaches + 1
  BY <1>3 DEF TakeAttach
<1>4. ASSUME NEW b \in Browsers, Open(b)
      PROVE  attaches' = attaches /\ commands' = commands \o <<AttachFrom(0)>>
  BY <1>4 DEF Open, SendCommands, Connected, bridging
<1>5. ASSUME NEW b \in Browsers, Ready(b)
      PROVE  attaches' = attaches /\ commands' = commands
  <2>1. mode[b] = "closed"
    BY <1>5 DEF Ready, Connected
  <2>2. commands' = commands \o <<>>
    BY <1>5, <2>1 DEF Ready, SendCommands, Connected
  <2>3. commands \o <<>> = commands
    BY <1>1, ConcatEmptySeq DEF DeviceOK
  <2> QED  BY <1>5, <2>2, <2>3 DEF Ready, bridging
<1>6. ASSUME \/ Produce \/ Evict \/ Collect \/ Flush \/ Admit \/ PublishDone \/ GiveUp
             \/ Relink \/ Send \/ UNCHANGED vars
      PROVE  attaches' = attaches /\ commands' = commands
  BY <1>6 DEF Produce, Evict, Collect, Flush, Admit, PublishDone, GiveUp, Relink, Send,
     vars, device, bridging
<1>7. ASSUME LinkDrop
      PROVE  attaches' = attaches /\ commands' = commands
  BY <1>7 DEF LinkDrop, device
<1>8. ASSUME NEW b \in Browsers, Read(b) \/ Mount(b) \/ Unpack(b) \/ Draw(b)
      PROVE  attaches' = attaches /\ commands' = commands
  BY <1>8 DEF Read, Mount, Unpack, Draw, bridging, device
<1>9. TakeAttach => attaches' # attaches
  <2>1. attaches \in Nat
    BY DEF TypeInv, BridgeOK
  <2> QED  BY <1>3, <2>1
<1> QED  BY <1>2, <1>3, <1>4, <1>5, <1>6, <1>7, <1>8, <1>9 DEF Undisturbing

\* They keep every page connected, and there is one attach at most.
LEMMA ConnectedStep ==
  ASSUME TypeInv, Connected, Undisturbing
  PROVE  Connected'
<1>1. DeviceOK /\ PageOK
  BY DEF TypeInv
<1>2. deviceUp'
  BY CommandsStep DEF Connected
<1>3. ASSUME NEW b \in Browsers, mode'[b] # "closed"
      PROVE  online'[b]
  <2>1. CASE UNCHANGED <<mode, online>>
    BY <1>3, <2>1 DEF Connected
  <2>2. ASSUME NEW c \in Browsers, Mount(c)
        PROVE  online'[b]
    <3>1. mode' = [mode EXCEPT ![c] = "mounted"] /\ online' = online /\ mode[c] = "open"
      BY <2>2 DEF Mount, device
    <3> QED  BY <1>1, <1>3, <3>1 DEF Connected, PageOK
  <2>3. ASSUME NEW c \in Browsers, Open(c)
        PROVE  online'[b]
    <3>1. mode' = [mode EXCEPT ![c] = "open"] /\ online' = online /\ online[c]
      BY <2>3 DEF Open
    <3> QED  BY <1>1, <1>3, <3>1 DEF Connected, PageOK
  <2>4. ASSUME NEW c \in Browsers, Ready(c)
        PROVE  online'[b]
    <3>1. mode' = mode /\ online' = [online EXCEPT ![c] = TRUE]
      BY <2>4 DEF Ready, page
    <3> QED  BY <1>1, <1>3, <3>1 DEF Connected, PageOK
  <2>5. ASSUME \/ Produce \/ Evict \/ TakeAttach \/ Collect \/ Flush \/ Admit \/ PublishDone
               \/ GiveUp \/ LinkDrop \/ Relink \/ Send \/ UNCHANGED vars
        PROVE  UNCHANGED <<mode, online>>
    BY <2>5 DEF Produce, Evict, TakeAttach, Collect, Flush, Admit, PublishDone, GiveUp, LinkDrop,
       Relink, Send, vars, page
  <2>6. ASSUME NEW c \in Browsers, Read(c) \/ Unpack(c) \/ Draw(c)
        PROVE  UNCHANGED <<mode, online>>
    BY <2>6 DEF Read, Unpack, Draw
  <2> QED  BY <2>1, <2>2, <2>3, <2>4, <2>5, <2>6 DEF Undisturbing
<1>4. ASSUME NEW i \in DOMAIN commands'
      PROVE  commands'[i] = AttachFrom(0)
  <2>0. /\ commands \in Seq(CommandSet) /\ DOMAIN commands = 1..Len(commands) /\ Len(commands) \in Nat
        /\ \A k \in 1..Len(commands) : commands[k] = AttachFrom(0)
    BY <1>1, LenProperties DEF DeviceOK, Connected
  <2>1. CASE commands' = commands
    BY <1>4, <2>0, <2>1
  <2>2. CASE commands # <<>> /\ commands' = Tail(commands)
    <3> DEFINE t == Tail(commands)
    <3>1. /\ t \in Seq(CommandSet) /\ Len(t) = Len(commands) - 1
          /\ \A k \in 1..Len(t) : t[k] = commands[k + 1]
      BY <2>0, <2>2, HeadTailProperties
    <3>2. DOMAIN t = 1..Len(t)
      BY <3>1, LenProperties
    <3> HIDE DEF t
    <3>3. i \in 1..Len(t) /\ commands'[i] = t[i]
      BY <1>4, <2>2, <3>2 DEF t
    <3>4. i + 1 \in 1..Len(commands)
      BY <2>0, <3>1, <3>3
    <3> QED  BY <2>0, <3>1, <3>3, <3>4
  <2>3. CASE commands' = commands \o <<AttachFrom(0)>>
    <3> DEFINE x == AttachFrom(0)
               e == <<x>>
               t == commands \o e
               n == Len(commands)
    <3>1. e \in Seq(CommandSet) /\ Len(e) = 1 /\ e[1] = x
      <4>1. x \in CommandSet
        BY DEF AttachFrom, CommandSet
      <4> HIDE DEF x
      <4> QED  BY <4>1, SmallSeq
    <3> HIDE DEF e, x
    <3>2. t \in Seq(CommandSet) /\ Len(t) = n + 1
      BY <2>0, <3>1, ConcatProperties
    <3>3. \A k \in 1..n + 1 : t[k] = IF k <= n THEN commands[k] ELSE e[k - n]
      BY <2>0, <3>1, ConcatProperties
    <3>4. DOMAIN t = 1..n + 1 /\ commands' = t
      BY <2>3, <3>2, LenProperties DEF e, x
    <3> HIDE DEF t, n
    <3>5. i \in 1..n + 1 /\ commands'[i] = t[i] /\ n \in Nat
      BY <1>4, <2>0, <3>4 DEF n
    <3>6. CASE i <= n
      <4>1. i \in 1..n
        BY <3>5, <3>6
      <4> QED  BY <2>0, <3>3, <3>5, <3>6, <4>1 DEF n
    <3>7. CASE i > n
      <4>1. ~(i <= n) /\ i - n = 1
        BY <3>5, <3>7
      <4> QED  BY <3>1, <3>3, <3>5, <4>1 DEF x
    <3> QED  BY <3>5, <3>6, <3>7
  <2> QED  BY <2>1, <2>2, <2>3, CommandsStep
<1> QED  BY <1>2, <1>3, <1>4 DEF Connected

\* At most one attach is ever sent: once it has been taken, no command is left.
LEMMA SingleStep ==
  ASSUME TypeInv, Connected, Undisturbing, Single'
  PROVE  /\ Single
         /\ TakeAttach => attaches = 0
         /\ attaches > 0 => ~TakeAttach /\ commands = <<>> /\ commands' = commands /\ attaches' = attaches
<1>1. /\ commands \in Seq(CommandSet) /\ Len(commands) \in Nat /\ attaches \in Nat
      /\ (commands = <<>> <=> Len(commands) = 0)
  BY LenProperties, EmptySeq DEF TypeInv, DeviceOK, BridgeOK
<1>2. attaches' + Len(commands') <= 1
  BY DEF Single
<1>3. CASE commands' = commands /\ attaches' = attaches /\ ~TakeAttach
  BY <1>1, <1>2, <1>3 DEF Single
<1>4. CASE TakeAttach /\ commands # <<>> /\ commands' = Tail(commands) /\ attaches' = attaches + 1
  <2>1. Len(Tail(commands)) = Len(commands) - 1 /\ Len(commands) # 0
    BY <1>1, <1>4, HeadTailProperties
  <2>2. Len(commands') = Len(commands) - 1
    BY <1>4, <2>1
  <2> QED  BY <1>1, <1>2, <1>4, <2>1, <2>2 DEF Single
<1>5. CASE attaches' = attaches /\ commands' = commands \o <<AttachFrom(0)>>
  <2> DEFINE e == <<AttachFrom(0)>>
  <2>1. e \in Seq(CommandSet) /\ Len(e) = 1
    <3> DEFINE x == AttachFrom(0)
    <3>1. x \in CommandSet
      BY DEF AttachFrom, CommandSet
    <3> HIDE DEF x
    <3>2. <<x>> \in Seq(CommandSet) /\ Len(<<x>>) = 1
      BY <3>1, SmallSeq
    <3> QED  BY <3>2 DEF x
  <2>2. commands' = commands \o e
    BY <1>5
  <2> HIDE DEF e
  <2>5. commands \in Seq(CommandSet) /\ e \in Seq(CommandSet)
    BY <1>1, <2>1
  <2>3. Len(commands \o e) = Len(commands) + Len(e)
    BY <2>5, ConcatProperties
  <2>4. Len(commands') = Len(commands) + 1
    BY <2>1, <2>2, <2>3
  <2> QED  BY <1>1, <1>2, <1>5, <2>4, CommandsStep DEF Single
<1> QED  BY <1>3, <1>4, <1>5, CommandsStep

Blank(b) ==
  /\ waiting[b] = <<>> /\ reading[b] = <<>> /\ last[b] = 0
  /\ view[b] = NewView /\ paint[b] = <<>> /\ screen[b] = <<>>
\* What is empty: a page that is closed, everything before the attach, and what
\* belongs to a bridge that is gone.
BlankPages == \A b \in Browsers : mode[b] = "closed" \/ attaches = 0 => Blank(b)
Tidy ==
  /\ attaches = 0 => bridge = "none" /\ publish = <<>> /\ outbox = <<>> /\ chunks = 0 /\ committed = 0
  /\ bridge = "none" => /\ pending = <<>> /\ pipe = <<>> /\ ~subscribed /\ ~retry
                        /\ \A i \in DOMAIN publish : publish[i].handed
  /\ \A i \in DOMAIN publish : publish[i].handed => i = 1
  /\ retry => pipe = <<>> /\ ~subscribed /\ faults["link"] = 1

\* They keep what is empty empty.
LEMMA BlankStep ==
  ASSUME TypeInv, Connected, BlankPages, Tidy, Undisturbing
  PROVE  BlankPages'
<1>1. PageOK /\ DrawOK /\ BridgeOK /\ DeviceOK
  BY DEF TypeInv
<1> SUFFICES ASSUME NEW b \in Browsers, mode'[b] = "closed" \/ attaches' = 0
             PROVE  Blank(b)'
  BY DEF BlankPages
<1>2. mode'[b] = "closed" => mode[b] = "closed"
  <2>1. ASSUME NEW c \in Browsers, Mount(c) \/ Open(c)
        PROVE  mode'[b] = "closed" => mode[b] = "closed"
    <3>1. mode \in [Browsers -> {"closed", "open", "mounted"}]
      BY <1>1 DEF PageOK
    <3>2. mode' = [mode EXCEPT ![c] = "mounted"] \/ mode' = [mode EXCEPT ![c] = "open"]
      BY <2>1 DEF Mount, Open
    <3> QED  BY <3>1, <3>2
  <2>2. ASSUME \/ Produce \/ Evict \/ TakeAttach \/ Collect \/ Flush \/ Admit \/ PublishDone
               \/ GiveUp \/ LinkDrop \/ Relink \/ Send \/ UNCHANGED vars
        PROVE  mode' = mode
    BY <2>2 DEF Produce, Evict, TakeAttach, Collect, Flush, Admit, PublishDone, GiveUp, LinkDrop,
       Relink, Send, vars, page
  <2>3. ASSUME NEW c \in Browsers, Read(c) \/ Unpack(c) \/ Draw(c) \/ Ready(c)
        PROVE  mode' = mode
    BY <2>3 DEF Read, Unpack, Draw, Ready, page
  <2> QED  BY <2>1, <2>2, <2>3 DEF Undisturbing
<1>3. attaches' = 0 => attaches = 0
  <2>1. attaches' = attaches \/ attaches' = attaches + 1
    BY CommandsStep
  <2> QED  BY <1>1, <2>1 DEF BridgeOK
<1>4. Blank(b)
  BY <1>2, <1>3 DEF BlankPages
<1> DEFINE UnchangedPage ==
             /\ waiting'[b] = waiting[b] /\ reading'[b] = reading[b] /\ last'[b] = last[b]
             /\ view'[b] = view[b] /\ paint'[b] = paint[b] /\ screen'[b] = screen[b]
<1>5. UnchangedPage
  <2>1. ASSUME \/ Produce \/ Evict \/ TakeAttach \/ Collect \/ Flush \/ Admit \/ PublishDone
               \/ GiveUp \/ LinkDrop \/ Relink \/ UNCHANGED vars
        PROVE  UnchangedPage
    BY <2>1 DEF Produce, Evict, TakeAttach, Collect, Flush, Admit, PublishDone, GiveUp, LinkDrop,
       Relink, vars, page, drawing
  <2>2. ASSUME NEW c \in Browsers, Mount(c) \/ Open(c) \/ Ready(c)
        PROVE  UnchangedPage
    BY <2>2 DEF Mount, Open, Ready, page, drawing
  <2>3. ASSUME NEW c \in Browsers, Read(c)
        PROVE  UnchangedPage
    <3>1. c # b
      BY <1>4, <2>3 DEF Read, Blank
    <3>2. /\ reading' = [reading EXCEPT ![c] = Tail(@)]
          /\ view' = [view EXCEPT ![c] = TakePiece(@, Head(reading[c]))]
          /\ paint' = [paint EXCEPT ![c] = @ \o Shown(view[c], Head(reading[c]))]
          /\ UNCHANGED <<waiting, last, screen>>
      BY <2>3 DEF Read
    <3> QED  BY <1>1, <3>1, <3>2 DEF PageOK, DrawOK
  <2>4. ASSUME NEW c \in Browsers, Unpack(c)
        PROVE  UnchangedPage
    <3>1. c # b
      BY <1>4, <2>4 DEF Unpack, Blank
    <3>2. /\ waiting' = [waiting EXCEPT ![c] = Tail(@)]
          /\ \/ UNCHANGED <<reading, last>>
             \/ /\ reading' = [reading EXCEPT ![c] = Head(waiting[c]).pieces]
                /\ last' = [last EXCEPT ![c] = Head(waiting[c]).seq]
          /\ UNCHANGED <<view, paint, screen>>
      BY <2>4 DEF Unpack, drawing
    <3> QED  BY <1>1, <3>1, <3>2 DEF PageOK, DrawOK
  <2>5. ASSUME NEW c \in Browsers, Draw(c)
        PROVE  UnchangedPage
    <3>1. c # b
      BY <1>4, <2>5 DEF Draw, Blank
    <3>2. /\ paint' = [paint EXCEPT ![c] = Tail(@)]
          /\ screen' = [screen EXCEPT ![c] = (IF Head(paint[c]).clear THEN <<>> ELSE @)
                                               \o Head(paint[c]).body]
          /\ UNCHANGED <<waiting, reading, last, view>>
      BY <2>5 DEF Draw
    <3> QED  BY <1>1, <3>1, <3>2 DEF PageOK, DrawOK
  <2>6. ASSUME Send
        PROVE  UnchangedPage
    <3>1. attaches # 0
      BY <2>6 DEF Send, Tidy
    <3>2. mode[b] = "closed"
      BY <1>2, <1>3, <3>1
    <3>3. ~Buffers(b) /\ ~Listens(b)
      BY <3>2 DEF Buffers, Listens
    <3>4. waiting'[b] = waiting[b] /\ reading'[b] = reading[b] /\ last'[b] = last[b]
      BY <2>6, <3>3 DEF Send
    <3>5. UNCHANGED <<view, paint, screen>>
      BY <2>6 DEF Send, drawing
    <3> QED  BY <3>4, <3>5
  <2> QED  BY <2>1, <2>2, <2>3, <2>4, <2>5, <2>6 DEF Undisturbing
<1> QED  BY <1>4, <1>5 DEF Blank

\* What restartOutput leaves of the queue has been handed over.
LEMMA DisownHanded ==
  ASSUME NEW queue \in Seq(PublishSet)
  PROVE  /\ \A i \in DOMAIN Disown(queue) : i = 1 /\ Disown(queue)[i].handed /\ i \in DOMAIN queue
                       /\ Disown(queue)[i].seq = queue[i].seq /\ Disown(queue)[i].pieces = queue[i].pieces
         /\ queue = <<>> => Disown(queue) = <<>>
<1> DEFINE h == Handed(queue)
<1>1. Disown(queue) = [i \in DOMAIN h |-> [h[i] EXCEPT !.current = FALSE]]
  BY DEF Disown
<1>2. CASE queue # <<>> /\ Head(queue).handed
  <2> DEFINE x == Head(queue)
  <2>1. x \in PublishSet /\ x = queue[1] /\ 1 \in DOMAIN queue
    BY <1>2, HeadTailProperties, LenProperties, EmptySeq
  <2>2. h = <<x>>
    BY <1>2 DEF Handed
  <2>3. x.handed
    BY <1>2
  <2> HIDE DEF h, x
  <2>4. DOMAIN h = {1} /\ h[1] = x
    BY <2>1, <2>2, SmallSeq
  <2>5. DOMAIN Disown(queue) = {1} /\ Disown(queue)[1] = [x EXCEPT !.current = FALSE]
    BY <1>1, <2>4
  <2>6. LET y == [x EXCEPT !.current = FALSE]
        IN y.handed = x.handed /\ y.seq = x.seq /\ y.pieces = x.pieces
    BY <2>1 DEF PublishSet
  <2> QED  BY <1>2, <2>1, <2>3, <2>5, <2>6
<1>3. CASE ~(queue # <<>> /\ Head(queue).handed)
  <2>1. h = <<>>
    BY <1>3 DEF Handed
  <2>2. Disown(queue) \in Seq(PublishSet)
    BY DisownEffect
  <2> HIDE DEF h
  <2>3. DOMAIN Disown(queue) = {}
    BY <1>1, <2>1
  <2>4. Disown(queue) = <<>>
    BY <2>2, <2>3, LenProperties, EmptySeq
  <2> QED  BY <2>3, <2>4
<1> QED  BY <1>2, <1>3

\* They keep the queues in order.
LEMMA TidyStep ==
  ASSUME TypeInv, Connected, BlankPages, Tidy, Undisturbing, Single', Calm'
  PROVE  Tidy'
<1>1. BridgeOK /\ DaemonOK /\ FaultsOK
  BY DEF TypeInv
<1>2. publish \in Seq(PublishSet) /\ DOMAIN publish = 1..Len(publish) /\ Len(publish) \in Nat
  BY <1>1, LenProperties DEF BridgeOK
<1>3. /\ bridge # "none" => attaches # 0
      /\ publish # <<>> => attaches # 0
  BY DEF Tidy
<1>4. publish # <<>> => /\ Head(publish) = publish[1] /\ 1 \in DOMAIN publish
                        /\ Tail(publish) \in Seq(PublishSet) /\ Len(Tail(publish)) = Len(publish) - 1
                        /\ \A i \in 1..Len(Tail(publish)) : Tail(publish)[i] = publish[i + 1]
  BY <1>2, HeadTailProperties, EmptySeq
<1>5. publish # <<>> => \A i \in DOMAIN Tail(publish) : /\ i + 1 \in DOMAIN publish /\ i + 1 # 1
                                                       /\ Tail(publish)[i] = publish[i + 1]
  <2> HAVE publish # <<>>
  <2> TAKE i \in DOMAIN Tail(publish)
  <2>1. i \in 1..Len(Tail(publish))
    BY <1>4, LenProperties
  <2> QED  BY <1>2, <1>4, <2>1
<1>6. CASE Produce
  <2>1. subscribed => bridge # "none" /\ ~retry
    BY DEF Tidy
  <2>2. UNCHANGED <<bridge, publish, outbox, chunks, pending, subscribed, retry, faults, attaches, committed>>
    BY <1>6 DEF Produce, bridging, device
  <2>3. ~subscribed => pipe' = pipe
    BY <1>6 DEF Produce
  <2> QED  BY <2>1, <2>2, <2>3 DEF Tidy
<1>7. CASE Evict
  <2>1. UNCHANGED <<bridge, publish, outbox, chunks, pending, subscribed, retry, pipe, attaches, committed>>
    BY <1>7 DEF Evict, bridging, device
  <2>2. faults'["link"] = faults["link"]
    BY <1>1, <1>7, CalmFault DEF Evict, Faults
  <2> QED  BY <2>1, <2>2 DEF Tidy
<1>8. CASE TakeAttach
  <2>1. attaches = 0 /\ attaches' = attaches + 1
    BY <1>8, SingleStep, CommandsStep DEF TakeAttach
  <2>2. bridge = "none" /\ publish = <<>> /\ ~retry
    BY <2>1 DEF Tidy
  <2>3. bridge' = "opening" /\ retry' = retry /\ publish' = Disown(publish)
    BY <1>8, <2>2 DEF TakeAttach, RestartOutput
  <2>4. publish' = <<>>
    BY <1>2, <2>2, <2>3, DisownHanded
  <2>5. DOMAIN publish' = {}
    BY <2>4
  <2> QED  BY <2>1, <2>2, <2>3, <2>5 DEF Tidy
<1>9. CASE Collect
  <2>1. bridge # "none" /\ ~retry
    BY <1>9 DEF Collect, Tidy
  <2>2. bridge' # "none"
    BY <1>9, <2>1 DEF Collect
  <2>3. UNCHANGED <<publish, retry, attaches>>
    BY <1>9 DEF Collect
  <2> QED  BY <1>3, <2>1, <2>2, <2>3 DEF Tidy
<1>10. CASE Flush
  <2>1. bridge # "none"
    BY <1>10 DEF Flush, Tidy
  <2>2. UNCHANGED <<bridge, pipe, subscribed, retry, attaches, faults>>
    BY <1>10 DEF Flush, daemon
  <2>3. \A i \in DOMAIN publish' : publish'[i].handed => i \in DOMAIN publish /\ publish'[i] = publish[i]
    <3>1. pending \in Seq(PieceSet) /\ chunks \in Nat
      BY <1>1 DEF BridgeOK
    <3>2. publish' = publish \o [k \in DOMAIN Batches(pending) |->
                        [seq |-> chunks + k, pieces |-> Batches(pending)[k],
                         handed |-> FALSE, current |-> TRUE]]
      BY <1>10 DEF Flush
    <3> QED  BY <1>2, <3>1, <3>2, FlushEffect
  <2> QED  BY <1>3, <2>1, <2>2, <2>3 DEF Tidy
<1>11. CASE Admit
  <2>1. publish # <<>> /\ ~publish[1].handed /\ 1 \in DOMAIN publish
    BY <1>4, <1>11 DEF Admit
  <2>2. bridge # "none"
    BY <2>1 DEF Tidy
  <2>3. UNCHANGED <<bridge, pipe, subscribed, retry, attaches, faults>>
    BY <1>11 DEF Admit, daemon
  <2>4. DOMAIN publish' = DOMAIN publish /\ \A i \in DOMAIN publish : i # 1 => publish'[i] = publish[i]
    <3>1. publish' = [publish EXCEPT ![1].handed = TRUE]
      BY <1>11 DEF Admit
    <3> QED  BY <3>1
  <2> QED  BY <1>3, <2>2, <2>3, <2>4 DEF Tidy
<1>12. CASE PublishDone
  <2>1. publish # <<>> /\ publish' = Tail(publish)
    BY <1>12 DEF PublishDone
  <2>2. UNCHANGED <<bridge, pipe, pending, subscribed, retry, attaches, faults>>
    BY <1>12 DEF PublishDone, daemon
  <2> QED  BY <1>3, <1>5, <2>1, <2>2 DEF Tidy
<1>13. CASE GiveUp
  <2>1. publish # <<>> /\ publish' = Tail(publish) /\ ~publish[1].handed /\ 1 \in DOMAIN publish
    BY <1>4, <1>13 DEF GiveUp
  <2>2. UNCHANGED <<bridge, pipe, pending, subscribed, retry, attaches>>
    BY <1>13 DEF GiveUp, daemon
  <2>3. faults'["link"] = faults["link"]
    BY <1>1, <1>13, CalmFault DEF GiveUp, Faults
  <2>4. bridge # "none"
    BY <2>1 DEF Tidy
  <2> QED  BY <1>3, <1>5, <2>1, <2>2, <2>3, <2>4 DEF Tidy
<1>14. CASE LinkDrop
  <2>1. bridge # "none"
    BY <1>14 DEF LinkDrop, Tidy
  <2>2. faults'["link"] = 1
    BY <1>1, <1>14, CalmFault DEF LinkDrop, Faults
  <2>3. CASE bridge = "opening"
    <3>1. /\ bridge' = "none" /\ ~retry' /\ pending' = <<>> /\ pipe' = <<>> /\ ~subscribed'
          /\ publish' = Disown(publish) /\ attaches' = attaches
      BY <1>14, <2>3 DEF LinkDrop, Dispose, RestartOutput
    <3>2. \A i \in DOMAIN publish' : i = 1 /\ publish'[i].handed
      BY <1>2, <3>1, DisownHanded
    <3> QED  BY <1>3, <2>1, <3>1, <3>2 DEF Tidy
  <2>4. CASE bridge # "opening"
    <3>1. /\ pipe' = <<>> /\ ~subscribed' /\ UNCHANGED <<bridge, publish, attaches>>
      BY <1>14, <2>4 DEF LinkDrop
    <3> QED  BY <1>3, <2>1, <2>2, <3>1 DEF Tidy
  <2> QED  BY <2>3, <2>4
<1>15. CASE Relink
  <2>1. bridge # "none" /\ ~retry' /\ UNCHANGED <<bridge, publish, attaches>>
    BY <1>15 DEF Relink, Tidy
  <2> QED  BY <1>3, <2>1 DEF Tidy
<1>16. CASE Send
  <2>1. attaches # 0
    BY <1>16 DEF Send, Tidy
  <2>2. UNCHANGED <<bridge, publish, chunks, pending, subscribed, retry, pipe, attaches>>
    BY <1>16 DEF Send, bridging, daemon
  <2>3. UNCHANGED faults
    <3>1. "overflow" \in Faults /\ "overflow" \notin {"link", "giveup", "evict"}
      BY DEF Faults
    <3>2. ~Happens("overflow")
      BY <1>1, <3>1, CalmFault
    <3> QED  BY <1>16, <3>2 DEF Send
  <2> QED  BY <2>1, <2>2, <2>3 DEF Tidy
<1>17. ASSUME NEW b \in Browsers,
              Read(b) \/ Mount(b) \/ Unpack(b) \/ Draw(b) \/ Ready(b) \/ Open(b)
       PROVE  Tidy'
  <2>1. UNCHANGED <<bridge, publish, chunks, pending, subscribed, retry, pipe, attaches, outbox, faults,
                    committed>>
    BY <1>17 DEF Read, Mount, Unpack, Draw, Ready, Open, bridging, daemon, device
  <2> QED  BY <2>1 DEF Tidy
<1>18. CASE UNCHANGED vars
  <2>1. UNCHANGED <<bridge, publish, chunks, pending, subscribed, retry, pipe, attaches, outbox, faults,
                    committed>>
    BY <1>18 DEF vars, bridging, daemon, device
  <2> QED  BY <2>1 DEF Tidy
<1> QED  BY <1>6, <1>7, <1>8, <1>9, <1>10, <1>11, <1>12, <1>13, <1>14, <1>15, <1>16, <1>17, <1>18
         DEF Undisturbing

\* A chunk is what lies between two cuts of the line.
IsChunk(c, G, K, m) == c.seq \in 1..m /\ IsPart(c.pieces, G, K[c.seq - 1], K[c.seq])
HandedCount(q) == IF q # <<>> /\ Head(q).handed THEN 1 ELSE 0

\* G is what the bridge has collected since its attach, K how it has been cut.
Legal(G) == LegalLine(G) /\ \A i \in DOMAIN G : G[i].seq <= produced
Cuts(G, K) ==
  /\ \A i \in DOMAIN outbox : IsChunk(outbox[i], G, K, chunks)
  /\ \A i \in DOMAIN publish : IsChunk(publish[i], G, K, chunks)
  /\ bridge # "none" => /\ IsPart(pending, G, K[chunks], Len(G))
                        /\ \A i \in DOMAIN publish : publish[i].seq = chunks - Len(publish) + i
\* What the daemon sends continues the line; until the bridge has been linked
\* again the line begins anew nowhere.
Supply(G) ==
  bridge # "none" /\ ~failed =>
    /\ \A i \in DOMAIN pipe : /\ pipe[i].seq <= produced
                              /\ pipe[i].seq > 0 => DueAfter(G, pipe, i - 1, pipe[i].seq)
    /\ subscribed => DueAfter(G, pipe, Len(pipe), produced + 1)
    /\ committed > 0 => \E j \in DOMAIN G : G[j].seq = committed /\ G[j].end
    /\ faults["link"] = 0 \/ retry =>
         /\ \A i \in DOMAIN G : G[i].kind = "reset" => i = 1
         /\ \A i \in DOMAIN pipe : pipe[i].kind = "reset" => i = 1 /\ G = <<>>
\* The chunks a page waits for follow the last one it has taken.
Lined(b, G, K) ==
  /\ last[b] <= chunks
  /\ \A i \in DOMAIN waiting[b] : /\ waiting[b][i].seq = last[b] + i
                                  /\ IsChunk(waiting[b][i], G, K, chunks)
  /\ \A i \in DOMAIN outbox : outbox[i].seq = last[b] + Len(waiting[b]) + i
  /\ bridge # "none" /\ ~failed =>
       last[b] + Len(waiting[b]) + Len(outbox) = chunks - Len(publish) + HandedCount(publish)
\* What it has read is a beginning of the line, and what it draws is whole.
Drawn(b, G, K) ==
  /\ \E p \in 0..Len(G) : IsPart(reading[b], G, p, K[last[b]]) /\ ViewOf(G, p, view[b])
  /\ DrawnOf(screen[b], paint[b], view[b])
Mirror(G, K) ==
  /\ Legal(G) /\ Cuts(G, K) /\ Supply(G)
  /\ \A b \in Browsers : mode[b] # "closed" => Lined(b, G, K) /\ Drawn(b, G, K)

\* Parts whose variables do not change.
LEMMA CutsKept ==
  ASSUME NEW G, NEW K, Cuts(G, K), UNCHANGED <<outbox, publish, chunks, bridge, pending>>
  PROVE  Cuts(G, K)'
  BY DEF Cuts

\* Nothing that the line of pieces is made of changes: it stays legal.
LEMMA LegalKept ==
  ASSUME NEW G, Legal(G), UNCHANGED produced
  PROVE  Legal(G)'
  BY DEF Legal

\* Nor does what the daemon has still to send.
LEMMA SupplyKept ==
  ASSUME NEW G, Supply(G), UNCHANGED <<bridge, failed, pipe, produced, subscribed, committed, retry>>,
         faults'["link"] = faults["link"]
  PROVE  Supply(G)'
  BY DEF Supply

\* The chunks a page waits for are lined up as before.
LEMMA LinedKept ==
  ASSUME NEW G, NEW K, NEW b, Lined(b, G, K),
         UNCHANGED <<outbox, publish, chunks, bridge, failed, waiting, last>>
  PROVE  Lined(b, G, K)'
  BY DEF Lined

\* What a page has read and drawn is as before.
LEMMA DrawnKept ==
  ASSUME NEW G, NEW K, NEW b, Drawn(b, G, K), UNCHANGED <<reading, last, view, paint, screen>>
  PROVE  Drawn(b, G, K)'
  BY DEF Drawn

\* A line that grows, and is cut behind the cuts it has.
LEMMA ChunkGrows ==
  ASSUME NEW G \in Seq(PieceSet), NEW r \in Seq(PieceSet), NEW K, NEW J, NEW m \in Nat, NEW n \in Nat,
         m <= n, \A k \in 0..m : J[k] = K[k], NEW c, IsChunk(c, G, K, m)
  PROVE  IsChunk(c, G \o r, J, n)
<1> DEFINE s == c.seq
<1>1. s \in 1..m /\ IsPart(c.pieces, G, K[s - 1], K[s])
  BY DEF IsChunk
<1> HIDE DEF s
<1>2. s \in 1..n /\ s \in 0..m /\ s - 1 \in 0..m
  BY <1>1
<1>3. IsPart(c.pieces, G, J[s - 1], J[s])
  BY <1>1, <1>2
<1>4. IsPart(c.pieces, G \o r, J[s - 1], J[s])
  BY <1>3, PartGrows
<1> QED  BY <1>2, <1>4 DEF IsChunk, s

\* What a page has read of the line does not change when the line grows.
LEMMA ViewGrows ==
  ASSUME NEW G \in Seq(PieceSet), NEW r \in Seq(PieceSet), NEW p \in 0..Len(G), NEW v, ViewOf(G, p, v)
  PROVE  ViewOf(G \o r, p, v) /\ p \in 0..Len(G \o r)
<1> DEFINE H == G \o r
<1>1. \A i \in 1..Len(G) + Len(r) : H[i] = IF i <= Len(G) THEN G[i] ELSE r[i - Len(G)]
  BY ConcatProperties
<1>2. Len(H) = Len(G) + Len(r)
  BY ConcatProperties
<1>3. Len(G) \in Nat /\ Len(r) \in Nat
  BY LenProperties
<1> HIDE DEF H
<1>4. \A i \in 1..p : H[i] = G[i]
  <2> TAKE i \in 1..p
  <2>1. i \in 1..Len(G) + Len(r) /\ i <= Len(G)
    BY <1>3
  <2> QED  BY <1>1, <2>1
<1>5. \A j \in 1..p : NoReset(H, j, p) <=> NoReset(G, j, p)
  <2> TAKE j \in 1..p
  <2>1. \A k \in j..p : k \in 1..p
    OBVIOUS
  <2> QED  BY <1>4, <2>1 DEF NoReset
<1>6. p >= 1 => H[p] = G[p]
  <2>1. p >= 1 => p \in 1..p
    BY <1>3
  <2> QED  BY <1>4, <2>1
<1>7. ViewOf(H, p, v)
  <2>1. \A n : Seen(G, p, n) => Seen(H, p, n)
    BY <1>4, <1>5 DEF Seen
  <2>2. \A n : HalfOf(H, p, n) = HalfOf(G, p, n)
    BY <1>6 DEF HalfOf
  <2> QED  BY <2>1, <2>2 DEF ViewOf
<1>8. p \in 0..Len(H)
  BY <1>2, <1>3
<1> QED  BY <1>7, <1>8 DEF H

\* What a page has read stays a beginning of a line that grows.
LEMMA DrawnGrows ==
  ASSUME NEW G \in Seq(PieceSet), NEW r \in Seq(PieceSet), NEW K, NEW J, NEW b, Drawn(b, G, K),
         J[last[b]] = K[last[b]], UNCHANGED <<reading, last, view, paint, screen>>
  PROVE  Drawn(b, G \o r, J)'
<1>1. PICK p \in 0..Len(G) : IsPart(reading[b], G, p, K[last[b]]) /\ ViewOf(G, p, view[b])
  BY DEF Drawn
<1>2. IsPart(reading[b], G \o r, p, J[last[b]])
  BY <1>1, PartGrows
<1>3. ViewOf(G \o r, p, view[b]) /\ p \in 0..Len(G \o r)
  BY <1>1, ViewGrows
<1>4. DrawnOf(screen[b], paint[b], view[b])
  BY DEF Drawn
<1> QED  BY <1>2, <1>3, <1>4 DEF Drawn

-----------------------------------------------------------------------------
(* What the daemon and the bridge do to a mirror. *)

\* Arithmetic of indices.
LEMMA NatSteps ==
  /\ \A a, b \in Nat : a <= b => a <= b + 1
  /\ \A n \in Nat : \A i \in 1..n + 1 : i \in 1..n \/ i = n + 1
  /\ \A n \in Nat : \A i \in 1..n - 1 : i + 1 \in 1..n /\ (i + 1) - 1 = i /\ i \in 1..n /\ i + 1 # 1
  /\ \A n \in Nat : n <= n /\ (n + 1) - 1 = n /\ \A i \in 1..n : i <= n
  /\ \A m, k, n \in Nat : k <= n => \A i \in 1..k - m : m + i \in 1..n
  /\ \A m, n \in Nat : m <= n => m \in 0..n
  /\ \A n \in Nat \ {0} : 1 \in 1..n /\ n \in 1..n
  OBVIOUS

\* A new frame is due behind the pipe.
LEMMA MirrorProduce ==
  ASSUME TypeInv, Tidy, NEW G \in Seq(PieceSet), NEW K \in [Nat -> Nat], Mirror(G, K), Produce
  PROVE  Mirror(G, K)'
<1>1. DaemonOK
  BY DEF TypeInv
<1>2. /\ UNCHANGED <<outbox, publish, chunks, bridge, pending, failed, committed, retry, faults>>
      /\ UNCHANGED <<mode, waiting, reading, last, view, paint, screen, subscribed>>
      /\ produced' = produced + 1
  BY DEF Produce, bridging, device, page, drawing
<1>3. Legal(G)'
  <2>1. \A i \in DOMAIN G : G[i].seq \in Nat
    BY DEF PieceSet
  <2>2. (\A i \in DOMAIN G : G[i].seq <= produced) /\ LegalLine(G)
    BY DEF Mirror, Legal
  <2>3. produced \in Nat
    BY <1>1 DEF DaemonOK
  <2>4. \A i \in DOMAIN G : G[i].seq <= produced + 1
    <3> TAKE i \in DOMAIN G
    <3>1. G[i].seq \in Nat /\ G[i].seq <= produced
      BY <2>1, <2>2
    <3> QED  BY <2>3, <3>1, NatSteps
  <2>5. LegalLine(G)
    BY <2>2
  <2> QED  BY <1>2, <2>4, <2>5 DEF Legal
<1>4. Cuts(G, K)'
  BY <1>2, CutsKept DEF Mirror
<1>5. ASSUME NEW b \in Browsers, mode'[b] # "closed"
      PROVE  (Lined(b, G, K) /\ Drawn(b, G, K))'
  <2>1. Lined(b, G, K) /\ Drawn(b, G, K)
    BY <1>2, <1>5 DEF Mirror
  <2> QED  BY <1>2, <2>1, LinedKept, DrawnKept
<1>6. Supply(G)'
  <2> SUFFICES ASSUME bridge # "none", ~failed
               PROVE  Supply(G)'
    BY <1>2 DEF Supply
  <2>0. Supply(G)
    BY DEF Mirror
  <2> DEFINE n == Len(pipe)
             f == Frame("output", produced + 1)
             q == Append(pipe, f)
  <2>1. /\ pipe \in Seq(FrameSet) /\ n \in Nat /\ DOMAIN pipe = 1..n /\ produced \in Nat
        /\ \A i \in 1..n : pipe[i] \in FrameSet
    BY <1>1, LenProperties, ElementOfSeq DEF DaemonOK
  <2>2. /\ \A i \in 1..n : /\ pipe[i].seq <= produced
                           /\ pipe[i].seq > 0 => DueAfter(G, pipe, i - 1, pipe[i].seq)
        /\ \A i \in 1..n : pipe[i].seq <= produced + 1
    <3>1. \A i \in 1..n : pipe[i].seq \in Nat
      BY <2>1 DEF FrameSet
    <3>2. \A i \in 1..n : /\ pipe[i].seq <= produced
                          /\ pipe[i].seq > 0 => DueAfter(G, pipe, i - 1, pipe[i].seq)
      BY <2>0, <2>1 DEF Supply
    <3>3. \A i \in 1..n : pipe[i].seq <= produced + 1
      <4> TAKE i \in 1..n
      <4>1. pipe[i].seq \in Nat /\ pipe[i].seq <= produced
        BY <3>1, <3>2
      <4> QED  BY <2>1, <4>1, NatSteps
    <3> QED  BY <3>2, <3>3
  <2>3. CASE ~subscribed
    <3>1. pipe' = pipe
      BY <2>3 DEF Produce
    <3> QED  BY <1>2, <2>0, <2>1, <2>2, <2>3, <3>1 DEF Supply
  <2>4. CASE subscribed
    <3>1. pipe' = q
      BY <2>4 DEF Produce
    <3>2. f \in FrameSet /\ f.seq = produced + 1 /\ f.kind = "output"
      <4>1. produced + 1 \in Nat \ {0}
        BY <2>1
      <4>2. f \in FrameSet
        BY <4>1, FrameTypes
      <4> QED  BY <4>2 DEF Frame
    <3> HIDE DEF f
    <3>3. q \in Seq(FrameSet) /\ Len(q) = n + 1
      BY <2>1, <3>2, AppendProperties
    <3>4. \A i \in 1..n : q[i] = pipe[i]
      BY <2>1, <3>2, AppendProperties
    <3>5. q[n + 1] = f
      BY <2>1, <3>2, AppendProperties
    <3>6. DOMAIN q = 1..n + 1
      BY <3>3, LenProperties
    <3> HIDE DEF q
    <3>7. DueAfter(G, pipe, n, produced + 1)
      BY <2>0, <2>4 DEF Supply
    <3>8. ASSUME NEW i \in 1..n + 1
          PROVE  /\ q[i].seq <= produced + 1
                 /\ q[i].seq > 0 => DueAfter(G, q, i - 1, q[i].seq)
                 /\ faults["link"] = 0 \/ retry => (q[i].kind = "reset" => i = 1 /\ G = <<>>)
      <4>1. CASE i \in 1..n
        <5>1. \A k \in 1..i - 1 : q[k] = pipe[k]
          <6>1. \A k \in 1..i - 1 : k \in 1..n
            BY <2>1, <4>1
          <6> QED  BY <3>4, <6>1
        <5>2. q[i] = pipe[i] /\ i - 1 \in Nat
          BY <2>1, <3>4, <4>1
        <5>3. pipe[i].seq > 0 => DueAfter(G, q, i - 1, pipe[i].seq)
          BY <2>2, <4>1, <5>1, <5>2, DueKept
        <5>4. faults["link"] = 0 \/ retry => (pipe[i].kind = "reset" => i = 1 /\ G = <<>>)
          BY <2>0, <2>1, <4>1 DEF Supply
        <5> QED  BY <2>2, <4>1, <5>2, <5>3, <5>4
      <4>2. CASE i = n + 1
        <5>1. DueAfter(G, q, n, produced + 1)
          BY <2>1, <3>4, <3>7, DueKept
        <5>2. q[i] = f /\ i - 1 = n
          BY <2>1, <3>5, <4>2
        <5>3. q[i].seq = produced + 1 /\ q[i].kind = "output"
          BY <3>2, <5>2
        <5>4. q[i].seq <= produced + 1
          BY <2>1, <5>3
        <5>5. DueAfter(G, q, i - 1, q[i].seq)
          BY <5>1, <5>2, <5>3
        <5> QED  BY <5>3, <5>4, <5>5
      <4>3. i \in 1..n \/ i = n + 1
        BY <2>1, NatSteps
      <4> QED  BY <4>1, <4>2, <4>3
    <3>9. DueAfter(G, q, n + 1, (produced + 1) + 1)
      <4>1. n + 1 \in 1..n + 1 /\ (produced + 1) + 1 > 1 /\ ((produced + 1) + 1) - 1 = produced + 1
        BY <2>1
      <4>2. NoReset(q, n + 1, n + 1)
        <5>1. \A k \in n + 1..n + 1 : k = n + 1
          BY <2>1
        <5> QED  BY <3>2, <3>5, <5>1 DEF NoReset
      <4> QED  BY <3>2, <3>5, <4>1, <4>2 DEF DueAfter
    <3>10. /\ committed > 0 => \E j \in DOMAIN G : G[j].seq = committed /\ G[j].end
           /\ faults["link"] = 0 \/ retry => \A i \in DOMAIN G : G[i].kind = "reset" => i = 1
      BY <2>0 DEF Supply
    <3> QED  BY <1>2, <3>1, <3>3, <3>6, <3>8, <3>9, <3>10 DEF Supply
  <2> QED  BY <2>3, <2>4
<1> QED  BY <1>3, <1>4, <1>5, <1>6 DEF Mirror

\* What the daemon gives up is not on its way.
LEMMA MirrorEvict ==
  ASSUME TypeInv, Calm', NEW G \in Seq(PieceSet), NEW K \in [Nat -> Nat], Mirror(G, K), Evict
  PROVE  Mirror(G, K)'
<1>1. /\ UNCHANGED <<outbox, publish, chunks, bridge, pending, failed, committed, retry, produced, pipe>>
      /\ UNCHANGED <<mode, waiting, reading, last, view, paint, screen, subscribed>>
  BY DEF Evict, bridging, device, page, drawing
<1>2. faults'["link"] = faults["link"]
  BY CalmFault DEF Evict, Faults, TypeInv
<1>3. Legal(G)' /\ Cuts(G, K)' /\ Supply(G)'
  BY <1>1, <1>2, LegalKept, CutsKept, SupplyKept DEF Mirror
<1>4. ASSUME NEW b \in Browsers, mode'[b] # "closed"
      PROVE  (Lined(b, G, K) /\ Drawn(b, G, K))'
  <2>1. Lined(b, G, K) /\ Drawn(b, G, K)
    BY <1>1, <1>4 DEF Mirror
  <2> QED  BY <1>1, <2>1, LinedKept, DrawnKept
<1> QED  BY <1>3, <1>4 DEF Mirror

\* A chunk that a page or a queue holds, after the line has grown and been cut.
LEMMA LinedGrows ==
  ASSUME TypeInv, NEW G \in Seq(PieceSet), NEW r \in Seq(PieceSet), NEW K, NEW J,
         NEW b \in Browsers, Lined(b, G, K), UNCHANGED <<outbox, waiting, last>>,
         chunks' \in Nat, chunks <= chunks', \A k \in 0..chunks : J[k] = K[k],
         bridge' # "none" /\ ~failed' =>
           /\ bridge # "none" /\ ~failed
           /\ chunks' - Len(publish') + HandedCount(publish') = chunks - Len(publish) + HandedCount(publish)
  PROVE  Lined(b, G \o r, J)'
<1>1. chunks \in Nat /\ last[b] \in Nat
  BY DEF TypeInv, BridgeOK, PageOK
<1>2. last[b] <= chunks'
  <2>1. last[b] <= chunks
    BY DEF Lined
  <2> QED  BY <1>1, <2>1
<1>3. \A i \in DOMAIN waiting[b] : IsChunk(waiting[b][i], G \o r, J, chunks')
  <2>1. \A i \in DOMAIN waiting[b] : IsChunk(waiting[b][i], G, K, chunks)
    BY DEF Lined
  <2> QED  BY <1>1, <2>1, ChunkGrows
<1>4. /\ \A i \in DOMAIN waiting[b] : waiting[b][i].seq = last[b] + i
      /\ \A i \in DOMAIN outbox : outbox[i].seq = last[b] + Len(waiting[b]) + i
  BY DEF Lined
<1>5. bridge' # "none" /\ ~failed' =>
        last[b] + Len(waiting[b]) + Len(outbox) = chunks' - Len(publish') + HandedCount(publish')
  BY DEF Lined
<1>6. HandedCount(publish)' = HandedCount(publish')
  BY DEF HandedCount
<1> QED  BY <1>2, <1>3, <1>4, <1>5, <1>6 DEF Lined

\* The line grows by the pieces of the frame collected.
LEMMA MirrorCollect ==
  ASSUME TypeInv, Tidy, NEW G \in Seq(PieceSet), NEW K \in [Nat -> Nat], Mirror(G, K), Collect
  PROVE  \E H \in Seq(PieceSet) : Mirror(H, K)'
<1>1. DaemonOK /\ BridgeOK
  BY DEF TypeInv
<1>2. /\ UNCHANGED <<outbox, publish, chunks, failed, committed, retry, faults, produced>>
      /\ UNCHANGED <<mode, waiting, reading, last, view, paint, screen, subscribed>>
      /\ pipe # <<>> /\ pipe' = Tail(pipe)
      /\ pending' = IF failed THEN pending ELSE pending \o PiecesOf(Head(pipe))
  BY DEF Collect, device, page, drawing
<1>3. bridge # "none" /\ bridge' # "none"
  <2>1. bridge # "none"
    BY <1>2 DEF Tidy
  <2> QED  BY <2>1 DEF Collect
<1>4. CASE failed
  <2>1. Legal(G)'
    BY <1>2, LegalKept DEF Mirror
  <2>2. Cuts(G, K)
    BY DEF Mirror
  <2>3. Cuts(G, K)'
    BY <1>2, <1>3, <1>4, <2>2 DEF Cuts
  <2>4. Supply(G)'
    BY <1>2, <1>4 DEF Supply
  <2>5. ASSUME NEW b \in Browsers, mode'[b] # "closed"
        PROVE  (Lined(b, G, K) /\ Drawn(b, G, K))'
    <3>1. Lined(b, G, K) /\ Drawn(b, G, K)
      BY <1>2, <2>5 DEF Mirror
    <3>2. Lined(b, G, K)'
      BY <1>2, <1>4, <3>1 DEF Lined
    <3> QED  BY <1>2, <3>1, <3>2, DrawnKept
  <2>6. Mirror(G, K)'
    BY <2>1, <2>3, <2>4, <2>5 DEF Mirror
  <2> QED  BY <2>6
<1>5. CASE ~failed
  <2> DEFINE n == Len(pipe)
  <2>1. /\ pipe \in Seq(FrameSet) /\ n \in Nat \ {0} /\ DOMAIN pipe = 1..n /\ produced \in Nat
        /\ \A i \in 1..n : pipe[i] \in FrameSet
    BY <1>1, <1>2, LenProperties, ElementOfSeq, EmptySeq DEF DaemonOK
  <2>2. PICK f \in FrameSet : f = pipe[1] /\ f = Head(pipe)
    <3>1. 1 \in 1..n /\ Head(pipe) = pipe[1]
      BY <1>2, <2>1, HeadTailProperties
    <3>2. pipe[1] \in FrameSet
      BY <2>1, <3>1
    <3> QED  BY <3>1, <3>2
  <2> DEFINE r == PiecesOf(f)
             H == G \o r
  <2> DEFINE t == Tail(pipe)
  <2>3. t \in Seq(FrameSet) /\ Len(t) = n - 1 /\ (\A i \in 1..Len(t) : t[i] = pipe[i + 1])
    BY <1>2, <2>1, HeadTailProperties
  <2>4. DOMAIN t = 1..n - 1
    BY <2>3, LenProperties
  <2> HIDE DEF t
  <2>5. /\ H \in Seq(PieceSet) /\ Len(G) \in Nat /\ Len(H) \in Nat
        /\ DOMAIN G = 1..Len(G) /\ DOMAIN H = 1..Len(H)
        /\ Len(H) \in {Len(G) + 1, Len(G) + 2} /\ (f.seq = 0 => Len(H) = Len(G) + 1)
        /\ \A i \in 1..Len(G) : H[i] = G[i]
        /\ \A i \in Len(G) + 1..Len(H) :
             /\ H[i].seq = f.seq /\ H[i].kind = f.kind
             /\ H[i].start = (i = Len(G) + 1) /\ H[i].end = (i = Len(H))
    BY LineGrows
  <2>6. r \in Seq(PieceSet)
    BY PiecesType
  <2> HIDE DEF r
  <2>7. Supply(G) /\ Legal(G) /\ Cuts(G, K)
    BY DEF Mirror
  <2>70. /\ \A i \in 1..n : /\ pipe[i].seq <= produced
                            /\ pipe[i].seq > 0 => DueAfter(G, pipe, i - 1, pipe[i].seq)
         /\ subscribed => DueAfter(G, pipe, n, produced + 1)
         /\ committed > 0 => \E j \in DOMAIN G : G[j].seq = committed /\ G[j].end
         /\ faults["link"] = 0 \/ retry =>
              /\ \A i \in DOMAIN G : G[i].kind = "reset" => i = 1
              /\ \A i \in 1..n : pipe[i].kind = "reset" => i = 1 /\ G = <<>>
    BY <1>3, <1>5, <2>1, <2>7 DEF Supply
  <2>71. 1 \in 1..n /\ n \in 1..n
    BY <2>1, NatSteps
  <2>8. Legal(H)'
    <3>1. f.seq > 0 => Due(G, Len(G), f.seq)
      <4>1. f.seq > 0 => DueAfter(G, pipe, 0, f.seq)
        <5>1. pipe[1].seq > 0 => DueAfter(G, pipe, 1 - 1, pipe[1].seq)
          BY <2>70, <2>71
        <5>2. 1 - 1 = 0
          OBVIOUS
        <5> QED  BY <2>2, <5>1, <5>2
      <4>2. 1..0 = {}
        OBVIOUS
      <4>3. DOMAIN G = 1..Len(G)
        BY LenProperties
      <4>4. DueAfter(G, pipe, 0, f.seq) => Due(G, Len(G), f.seq)
        BY <4>2, <4>3, Zenon DEF DueAfter, Due
      <4> QED  BY <4>1, <4>4
    <3>2. LegalLine(H)
      BY <2>2, <2>7, <3>1, LegalGrows DEF Legal, r
    <3>3. f.seq <= produced
      BY <2>2, <2>70, <2>71
    <3>4. ASSUME NEW i \in DOMAIN H
          PROVE  H[i].seq <= produced
      <4>1. i \in 1..Len(G) \/ i \in Len(G) + 1..Len(H)
        BY <2>5
      <4>2. CASE i \in 1..Len(G)
        BY <2>5, <2>7, <4>2 DEF Legal
      <4>3. CASE i \in Len(G) + 1..Len(H)
        BY <2>5, <3>3, <4>3
      <4> QED  BY <4>1, <4>2, <4>3
    <3>5. \A i \in DOMAIN H : H[i].seq <= produced'
      BY <1>2, <3>4
    <3> HIDE DEF H
    <3> QED  BY <3>2, <3>5 DEF Legal
  <2>9. chunks \in Nat /\ pending \in Seq(PieceSet) /\ publish' = publish /\ chunks' = chunks
    BY <1>1, <1>2 DEF BridgeOK
  <2>90. UNCHANGED <<outbox, waiting, last>> /\ chunks' \in Nat /\ chunks <= chunks' /\ failed' = failed
    BY <1>2, <2>9
  <2>10. Cuts(H, K)'
    <3>1. /\ \A i \in DOMAIN outbox : IsChunk(outbox[i], G, K, chunks)
          /\ \A i \in DOMAIN publish : IsChunk(publish[i], G, K, chunks)
          /\ IsPart(pending, G, K[chunks], Len(G))
          /\ \A i \in DOMAIN publish : publish[i].seq = chunks - Len(publish) + i
      BY <1>3, <2>7 DEF Cuts
    <3>2. ASSUME NEW c, IsChunk(c, G, K, chunks)
          PROVE  IsChunk(c, H, K, chunks)
      <4>1. chunks <= chunks /\ \A k \in 0..chunks : K[k] = K[k]
        BY <2>9, NatSteps
      <4> QED  BY <2>6, <2>9, <3>2, <4>1, ChunkGrows
    <3>3. pending' = pending \o r
      <4>1. pending' = pending \o PiecesOf(Head(pipe))
        BY <1>2, <1>5
      <4> QED  BY <2>2, <4>1 DEF r
    <3>4. IsPart(pending \o r, H, K[chunks], Len(H))
      BY <2>6, <2>9, <3>1, PartConcat
    <3> HIDE DEF H
    <3> QED  BY <1>2, <3>1, <3>2, <3>3, <3>4 DEF Cuts
  <2>11. Supply(H)'
    <3>2. \A m \in 1..n : \A s \in Nat : DueAfter(G, pipe, m, s) => DueAfter(H, t, m - 1, s)
      BY <2>1, <2>2, DueMoves DEF r, t
    <3>3. ASSUME NEW i \in 1..n - 1
          PROVE  /\ t[i].seq <= produced
                 /\ t[i].seq > 0 => DueAfter(H, t, i - 1, t[i].seq)
                 /\ faults["link"] = 0 \/ retry => ~(t[i].kind = "reset")
      <4>1. i + 1 \in 1..n /\ (i + 1) - 1 = i /\ i \in 1..n /\ i + 1 # 1 /\ i \in 1..Len(t)
        <5>1. i + 1 \in 1..n /\ (i + 1) - 1 = i /\ i \in 1..n /\ i + 1 # 1
          BY <2>1, NatSteps
        <5> QED  BY <2>3, <5>1
      <4>2. t[i] = pipe[i + 1]
        BY <2>3, <4>1
      <4>3. pipe[i + 1].seq \in Nat
        BY <2>1, <4>1 DEF FrameSet
      <4>4. pipe[i + 1].seq > 0 => DueAfter(G, pipe, i, pipe[i + 1].seq)
        BY <2>70, <4>1
      <4>5. pipe[i + 1].seq > 0 => DueAfter(H, t, i - 1, pipe[i + 1].seq)
        BY <3>2, <4>1, <4>3, <4>4
      <4>6. faults["link"] = 0 \/ retry => ~(pipe[i + 1].kind = "reset")
        BY <2>70, <4>1
      <4>7. pipe[i + 1].seq <= produced
        BY <2>70, <4>1
      <4> QED  BY <4>2, <4>5, <4>6, <4>7
    <3>4. subscribed => DueAfter(H, t, n - 1, produced + 1)
      <4>1. n \in 1..n /\ produced + 1 \in Nat
        BY <2>1
      <4> QED  BY <2>70, <3>2, <4>1
    <3>5. committed > 0 => \E j \in DOMAIN H : H[j].seq = committed /\ H[j].end
      <4> SUFFICES ASSUME committed > 0
                   PROVE  \E j \in DOMAIN H : H[j].seq = committed /\ H[j].end
        OBVIOUS
      <4>1. PICK j \in DOMAIN G : G[j].seq = committed /\ G[j].end
        BY <2>70
      <4>2. j \in 1..Len(G) /\ j \in 1..Len(H)
        BY <2>5
      <4>3. H[j] = G[j] /\ j \in DOMAIN H
        BY <2>5, <4>2
      <4> HIDE DEF H
      <4> QED  BY <4>1, <4>3
    <3>6. ASSUME faults["link"] = 0 \/ retry, NEW i \in DOMAIN H, H[i].kind = "reset"
          PROVE  i = 1
      <4>1. i \in 1..Len(G) \/ i \in Len(G) + 1..Len(H)
        BY <2>5
      <4>2. CASE i \in 1..Len(G)
        <5>1. i \in DOMAIN G /\ H[i] = G[i]
          BY <2>5, <4>2
        <5>2. G[i].kind = "reset"
          BY <3>6, <5>1
        <5> HIDE DEF H
        <5> QED  BY <2>70, <3>6, <5>1, <5>2
      <4>3. CASE i \in Len(G) + 1..Len(H)
        <5>1. f.kind = "reset"
          BY <2>5, <3>6, <4>3
        <5>2. G = <<>>
          <6>1. 1 \in 1..n
            BY <2>1
          <6> HIDE DEF H, n
          <6> QED  BY <2>2, <2>70, <3>6, <5>1, <6>1
        <5>3. Len(G) = 0
          BY <5>2
        <5>4. f.seq = 0
          BY <2>2, <5>1 DEF FrameSet, Marks
        <5>5. Len(H) = Len(G) + 1
          BY <2>5, <5>4
        <5> HIDE DEF H
        <5> QED  BY <4>3, <5>3, <5>5
      <4> QED  BY <4>1, <4>2, <4>3
    <3>7. pipe' = t /\ DOMAIN t = 1..n - 1 /\ Len(t) = n - 1
      BY <1>2, <2>3, <2>4 DEF t
    <3> HIDE DEF H, n
    <3> QED  BY <1>2, <3>3, <3>4, <3>5, <3>6, <3>7 DEF Supply
  <2>12. ASSUME NEW b \in Browsers, mode'[b] # "closed"
         PROVE  (Lined(b, H, K) /\ Drawn(b, H, K))'
    <3>1. Lined(b, G, K) /\ Drawn(b, G, K)
      BY <1>2, <2>12 DEF Mirror
    <3>2. Lined(b, H, K)'
      <4>2. chunks' - Len(publish') + HandedCount(publish') = chunks - Len(publish) + HandedCount(publish)
        BY <2>9
      <4> QED  BY <1>3, <1>5, <2>6, <2>90, <3>1, <4>2, LinedGrows
    <3>3. Drawn(b, H, K)'
      BY <1>2, <2>6, <3>1, DrawnGrows
    <3> QED  BY <3>2, <3>3
  <2>13. Mirror(H, K)'
    <3> HIDE DEF H
    <3> QED  BY <2>8, <2>10, <2>11, <2>12 DEF Mirror
  <2> QED  BY <2>5, <2>13
<1> QED  BY <1>4, <1>5

\* A chunk keeps its place when more cuts are made behind it.
LEMMA ChunkCut ==
  ASSUME NEW G \in Seq(PieceSet), NEW K, NEW J, NEW m \in Nat, NEW n \in Nat,
         m <= n, \A k \in 0..m : J[k] = K[k], NEW c, IsChunk(c, G, K, m)
  PROVE  IsChunk(c, G, J, n)
<1>1. <<>> \in Seq(PieceSet) /\ G \o <<>> = G
  BY ConcatEmptySeq
<1>2. IsChunk(c, G \o <<>>, J, n)
  BY <1>1, ChunkGrows
<1> QED  BY <1>1, <1>2

\* The pending pieces are cut into the next chunks.
LEMMA MirrorFlush ==
  ASSUME TypeInv, Tidy, NEW G \in Seq(PieceSet), NEW K \in [Nat -> Nat], Mirror(G, K), Flush
  PROVE  \E J \in [Nat -> Nat] : Mirror(G, J)'
<1>1. /\ pending \in Seq(PieceSet) /\ publish \in Seq(PublishSet) /\ chunks \in Nat
      /\ \A b \in Browsers : last[b] \in Nat
  BY DEF TypeInv, BridgeOK, PageOK
<1>2. /\ UNCHANGED <<outbox, bridge, failed, pipe, produced, subscribed, committed, retry, faults>>
      /\ UNCHANGED <<mode, waiting, reading, last, view, paint, screen>>
      /\ pending # <<>> /\ pending' = <<>>
  BY DEF Flush, daemon, device, page, drawing
<1>3. bridge # "none"
  BY <1>2 DEF Tidy
<1>4. Legal(G) /\ Cuts(G, K) /\ Supply(G)
  BY DEF Mirror
<1>5. /\ \A i \in DOMAIN outbox : IsChunk(outbox[i], G, K, chunks)
      /\ \A i \in DOMAIN publish : IsChunk(publish[i], G, K, chunks)
      /\ IsPart(pending, G, K[chunks], Len(G))
      /\ \A i \in DOMAIN publish : publish[i].seq = chunks - Len(publish) + i
  BY <1>3, <1>4 DEF Cuts
<1>6. PICK B \in Seq(Seq(PieceSet)) : B = Batches(pending)
  <2>1. Batches(pending) \in Seq(Seq(PieceSet))
    BY <1>1, <1>2, <1>5, BatchesCut
  <2> QED  BY <2>1
<1> DEFINE n == Len(B)
           e == [k \in DOMAIN B |-> [seq |-> chunks + k, pieces |-> B[k], handed |-> FALSE, current |-> TRUE]]
           z == Len(publish)
<1>7. PICK J \in [Nat -> Nat] :
        /\ \A k \in 0..chunks : J[k] = K[k]
        /\ J[chunks + n] = Len(G)
        /\ \A k \in 1..n : IsPart(B[k], G, J[chunks + k - 1], J[chunks + k])
  <2>1. \E J \in [Nat -> Nat] : Recut(Batches(pending), G, K, chunks, J)
    BY <1>1, <1>2, <1>5, BatchesCut
  <2> QED  BY <1>6, <2>1 DEF Recut
<1>8. chunks' = chunks + n /\ publish' = publish \o e
  BY <1>6 DEF Flush
<1>9. n \in Nat /\ DOMAIN B = 1..n /\ z \in Nat /\ DOMAIN publish = 1..z
  BY <1>1, LenProperties
<1>10. /\ e \in Seq(PublishSet) /\ DOMAIN e = 1..n /\ Len(e) = n
       /\ \A k \in 1..n : e[k].seq = chunks + k /\ e[k].pieces = B[k] /\ ~e[k].handed
  <2>1. ASSUME NEW k \in 1..n
        PROVE  /\ [seq |-> chunks + k, pieces |-> B[k], handed |-> FALSE, current |-> TRUE] \in PublishSet
               /\ e[k] = [seq |-> chunks + k, pieces |-> B[k], handed |-> FALSE, current |-> TRUE]
    <3>1. chunks + k \in Nat /\ k \in DOMAIN B
      BY <1>1, <1>9
    <3>2. B[k] \in Seq(PieceSet)
      BY <1>9, ElementOfSeq
    <3> HIDE DEF n
    <3> QED  BY <3>1, <3>2 DEF PublishSet
  <2>2. e \in [1..n -> PublishSet]
    BY <1>9, <2>1
  <2>3. e \in Seq(PublishSet)
    <3> HIDE DEF e, n
    <3> QED  BY <1>9, <2>2, SeqDef
  <2>4. DOMAIN e = 1..n
    BY <1>9
  <2>5. Len(e) = n
    <3> HIDE DEF e, n
    <3> QED  BY <1>9, <2>3, <2>4, LenProperties
  <2> HIDE DEF n
  <2> QED  BY <2>1, <2>3, <2>4, <2>5
<1> HIDE DEF e, n
<1>11. /\ publish \o e \in Seq(PublishSet) /\ Len(publish \o e) = z + Len(e)
       /\ \A i \in 1..z + Len(e) : (publish \o e)[i] = IF i <= z THEN publish[i] ELSE e[i - z]
  BY <1>1, <1>10, ConcatProperties
<1>12. DOMAIN publish' = 1..z + n /\ Len(publish') = z + n
  BY <1>8, <1>10, <1>11, LenProperties
<1>13. \A i \in 1..z + n : publish'[i] = IF i <= z THEN publish[i] ELSE e[i - z]
  BY <1>8, <1>10, <1>11
<1> HIDE DEF z
<1>14. \A i \in 1..z : publish'[i] = publish[i]
  <2> TAKE i \in 1..z
  <2>1. i \in 1..z + n /\ i <= z
    BY <1>9
  <2> QED  BY <1>13, <2>1
<1>15. \A k \in 1..n : z + k \in 1..z + n /\ publish'[z + k] = e[k]
  <2> TAKE k \in 1..n
  <2>1. z + k \in 1..z + n /\ ~(z + k <= z) /\ (z + k) - z = k
    BY <1>9
  <2> QED  BY <1>13, <2>1
<1>16. \A i \in 1..z + n : i \in 1..z \/ \E k \in 1..n : i = z + k
  <2> TAKE i \in 1..z + n
  <2>1. i \in 1..z \/ (i - z \in 1..n /\ i = z + (i - z))
    BY <1>9
  <2> QED  BY <2>1
<1>17. chunks + n \in Nat /\ chunks <= chunks + n
  BY <1>1, <1>9
<1>18. \A i \in 1..z + n : IsChunk(publish'[i], G, J, chunks + n)
  <2>1. ASSUME NEW i \in 1..z
        PROVE  IsChunk(publish'[i], G, J, chunks + n)
    <3>1. IsChunk(publish[i], G, K, chunks)
      BY <1>5, <1>9
    <3>2. IsChunk(publish[i], G, J, chunks + n)
      BY <1>1, <1>7, <1>17, <3>1, ChunkCut
    <3> QED  BY <1>14, <3>2
  <2>2. ASSUME NEW k \in 1..n
        PROVE  IsChunk(e[k], G, J, chunks + n)
    <3>1. chunks + k \in 1..chunks + n /\ (chunks + k) - 1 = chunks + k - 1
      BY <1>1, <1>9
    <3>2. IsPart(B[k], G, J[chunks + k - 1], J[chunks + k])
      BY <1>7
    <3>3. e[k].seq = chunks + k /\ e[k].pieces = B[k]
      BY <1>10
    <3> QED  BY <3>1, <3>2, <3>3 DEF IsChunk
  <2> QED  BY <1>15, <1>16, <2>1, <2>2
<1>19. \A i \in 1..z + n : publish'[i].seq = (chunks + n) - (z + n) + i
  <2>1. ASSUME NEW i \in 1..z
        PROVE  publish'[i].seq = (chunks + n) - (z + n) + i
    <3>1. publish[i].seq = chunks - z + i
      BY <1>5, <1>9 DEF z
    <3>2. chunks - z + i = (chunks + n) - (z + n) + i
      BY <1>1, <1>9
    <3> QED  BY <1>14, <3>1, <3>2
  <2>2. ASSUME NEW k \in 1..n
        PROVE  publish'[z + k].seq = (chunks + n) - (z + n) + (z + k)
    <3>1. chunks + k = (chunks + n) - (z + n) + (z + k)
      BY <1>1, <1>9
    <3> QED  BY <1>10, <1>15, <3>1
  <2> QED  BY <1>16, <2>1, <2>2
<1>20. Cuts(G, J)'
  <2>1. \A i \in DOMAIN outbox : IsChunk(outbox[i], G, J, chunks + n)
    <3> SUFFICES ASSUME NEW i \in DOMAIN outbox
                 PROVE  IsChunk(outbox[i], G, J, chunks + n)
      OBVIOUS
    <3>1. IsChunk(outbox[i], G, K, chunks)
      BY <1>5
    <3> QED  BY <1>1, <1>7, <1>17, <3>1, ChunkCut
  <2>2. IsPart(<<>>, G, J[chunks + n], Len(G))
    <3>1. Len(G) \in Nat /\ Len(<<>>) = 0 /\ Len(G) - Len(G) = 0 /\ 1..0 = {}
      BY LenProperties
    <3> QED  BY <1>7, <3>1 DEF IsPart
  <2> QED  BY <1>2, <1>8, <1>12, <1>18, <1>19, <2>1, <2>2 DEF Cuts
<1>21. Legal(G)' /\ Supply(G)'
  <2>1. faults'["link"] = faults["link"]
    BY <1>2
  <2> QED  BY <1>2, <1>4, <2>1, LegalKept, SupplyKept
<1>22. HandedCount(publish') = HandedCount(publish)
  <2>1. CASE publish # <<>>
    <3>1. z \in Nat \ {0}
      BY <1>1, <1>9, <2>1, EmptySeq DEF z
    <3>2. 1 \in 1..z /\ z + n # 0
      BY <1>9, <3>1
    <3>3. publish' # <<>> /\ publish' \in Seq(PublishSet)
      BY <1>8, <1>11, <1>12, <3>2, EmptySeq
    <3>4. Head(publish') = publish'[1] /\ Head(publish) = publish[1]
      BY <1>1, <2>1, <3>3, HeadTailProperties
    <3>5. Head(publish') = Head(publish)
      BY <1>14, <3>2, <3>4
    <3> QED  BY <2>1, <3>3, <3>5 DEF HandedCount
  <2>2. CASE publish = <<>>
    <3>1. z = 0
      BY <2>2 DEF z
    <3>2. ASSUME publish' # <<>>
          PROVE  ~Head(publish').handed
      <4>1. publish' \in Seq(PublishSet)
        BY <1>8, <1>11
      <4>2. Head(publish') = publish'[1] /\ Len(publish') # 0
        BY <3>2, <4>1, HeadTailProperties, EmptySeq
      <4>3. 1 \in 1..n /\ 0 + 1 = 1
        BY <1>9, <1>12, <3>1, <4>2
      <4>4. publish'[1] = e[1]
        BY <1>15, <3>1, <4>3
      <4> QED  BY <1>10, <4>2, <4>3, <4>4
    <3> QED  BY <2>2, <3>2 DEF HandedCount
  <2> QED  BY <2>1, <2>2
<1>23. chunks' - Len(publish') + HandedCount(publish') = chunks - Len(publish) + HandedCount(publish)
  <2>1. (chunks + n) - (z + n) = chunks - z
    BY <1>1, <1>9
  <2> QED  BY <1>8, <1>12, <1>22, <2>1 DEF z
<1>24. ASSUME NEW b \in Browsers, mode'[b] # "closed"
       PROVE  (Lined(b, G, J) /\ Drawn(b, G, J))'
  <2>1. Lined(b, G, K) /\ Drawn(b, G, K)
    BY <1>2, <1>24 DEF Mirror
  <2>2. <<>> \in Seq(PieceSet) /\ G \o <<>> = G
    BY ConcatEmptySeq
  <2>3. chunks' \in Nat /\ chunks <= chunks'
    BY <1>8, <1>17
  <2>4. Lined(b, G \o <<>>, J)'
    BY <1>2, <1>3, <1>7, <1>23, <2>1, <2>2, <2>3, LinedGrows
  <2>5. J[last[b]] = K[last[b]]
    <3>1. last[b] <= chunks
      BY <2>1 DEF Lined
    <3>2. last[b] \in 0..chunks
      <4>1. last[b] \in Nat
        BY <1>1
      <4> QED  BY <1>1, <3>1, <4>1, NatSteps
    <3> QED  BY <1>7, <3>2
  <2>6. Drawn(b, G \o <<>>, J)'
    BY <1>2, <2>1, <2>2, <2>5, DrawnGrows
  <2>7. Lined(b, G, J)' /\ Drawn(b, G, J)'
    BY <2>2, <2>4, <2>6
  <2> QED  BY <2>7
<1>25. Mirror(G, J)'
  BY <1>20, <1>21, <1>24 DEF Mirror
<1> QED  BY <1>25

\* The first chunk of the publish queue.
LEMMA PublishHead ==
  ASSUME TypeInv, publish # <<>>
  PROVE  /\ Len(publish) \in Nat \ {0} /\ DOMAIN publish = 1..Len(publish)
         /\ 1 \in DOMAIN publish /\ Head(publish) = publish[1] /\ publish[1] \in PublishSet
         /\ Tail(publish) \in Seq(PublishSet) /\ Len(Tail(publish)) = Len(publish) - 1
         /\ DOMAIN Tail(publish) = 1..Len(publish) - 1
         /\ \A i \in 1..Len(publish) - 1 : i + 1 \in DOMAIN publish /\ Tail(publish)[i] = publish[i + 1]
<1>1. publish \in Seq(PublishSet)
  BY DEF TypeInv, BridgeOK
<1>2. Len(publish) \in Nat \ {0} /\ DOMAIN publish = 1..Len(publish)
  BY <1>1, LenProperties, EmptySeq
<1>3. /\ Head(publish) = publish[1]
      /\ Tail(publish) \in Seq(PublishSet) /\ Len(Tail(publish)) = Len(publish) - 1
      /\ \A i \in 1..Len(Tail(publish)) : Tail(publish)[i] = publish[i + 1]
  BY <1>1, HeadTailProperties
<1>4. 1 \in DOMAIN publish
  BY <1>2, NatSteps
<1>5. publish[1] \in PublishSet
  BY <1>1, <1>2, <1>4, ElementOfSeq
<1>6. DOMAIN Tail(publish) = 1..Len(publish) - 1
  BY <1>3, LenProperties
<1>7. \A i \in 1..Len(publish) - 1 : i + 1 \in DOMAIN publish
  BY <1>2, NatSteps
<1> QED  BY <1>2, <1>3, <1>4, <1>5, <1>6, <1>7

\* The first chunk of the queue has been published, or given up.
LEMMA CutsTail ==
  ASSUME TypeInv, NEW G, NEW K, Cuts(G, K), publish # <<>>, publish' = Tail(publish),
         UNCHANGED <<outbox, chunks, bridge, pending>>
  PROVE  Cuts(G, K)'
<1> DEFINE z == Len(publish)
<1>1. /\ z \in Nat \ {0} /\ DOMAIN publish' = 1..z - 1 /\ Len(publish') = z - 1
      /\ \A i \in 1..z - 1 : i + 1 \in DOMAIN publish /\ publish'[i] = publish[i + 1]
  BY PublishHead
<1>2. \A i \in 1..z - 1 : IsChunk(publish'[i], G, K, chunks)
  BY <1>1 DEF Cuts
<1>3. bridge # "none" => \A i \in 1..z - 1 : publish'[i].seq = chunks - (z - 1) + i
  <2> SUFFICES ASSUME bridge # "none", NEW i \in 1..z - 1
               PROVE  publish'[i].seq = chunks - (z - 1) + i
    OBVIOUS
  <2>1. publish[i + 1].seq = chunks - z + (i + 1)
    BY <1>1 DEF Cuts
  <2>2. chunks - z + (i + 1) = chunks - (z - 1) + i
    <3>1. chunks \in Nat
      BY DEF TypeInv, BridgeOK
    <3> HIDE DEF z
    <3> QED  BY <1>1, <3>1
  <2> QED  BY <1>1, <2>1, <2>2
<1> HIDE DEF z
<1> QED  BY <1>1, <1>2, <1>3 DEF Cuts

\* Only what the line contains is acknowledged.
LEMMA MirrorPublishDone ==
  ASSUME TypeInv, Tidy, NEW G \in Seq(PieceSet), NEW K \in [Nat -> Nat], Mirror(G, K), PublishDone
  PROVE  Mirror(G, K)'
<1>1. /\ UNCHANGED <<outbox, chunks, bridge, pending, failed, pipe, produced, subscribed, retry, faults>>
      /\ UNCHANGED <<mode, waiting, reading, last, view, paint, screen>>
      /\ publish # <<>> /\ Head(publish).handed /\ publish' = Tail(publish)
      /\ committed' \in Acks(Head(publish).pieces) \cup {committed}
  BY DEF PublishDone, daemon, device, page, drawing
<1> DEFINE z == Len(publish)
<1>2. /\ z \in Nat \ {0} /\ DOMAIN publish' = 1..z - 1 /\ Len(publish') = z - 1
      /\ \A i \in 1..z - 1 : i + 1 \in DOMAIN publish /\ publish'[i] = publish[i + 1]
      /\ 1 \in DOMAIN publish /\ Head(publish) = publish[1] /\ publish[1] \in PublishSet
      /\ publish' \in Seq(PublishSet)
  BY <1>1, PublishHead
<1>3. Legal(G) /\ Cuts(G, K) /\ Supply(G)
  BY DEF Mirror
<1>4. Legal(G)' /\ Cuts(G, K)'
  BY <1>1, <1>3, LegalKept, CutsTail
<1>5. committed' # committed => \E j \in DOMAIN G : G[j].seq = committed' /\ G[j].end
  <2> SUFFICES ASSUME committed' # committed
               PROVE  \E j \in DOMAIN G : G[j].seq = committed' /\ G[j].end
    OBVIOUS
  <2> DEFINE q == publish[1].pieces
             c == publish[1].seq
             m == K[c - 1]
  <2>1. PICK i \in DOMAIN q : q[i].seq = committed' /\ q[i].end
    BY <1>1, <1>2 DEF Acks
  <2>2. IsPart(q, G, m, K[c])
    BY <1>2, <1>3 DEF Cuts, IsChunk
  <2>3. q \in Seq(PieceSet)
    BY <1>2 DEF PublishSet
  <2> HIDE DEF q, m
  <2>4. /\ m \in Nat /\ K[c] \in Nat /\ m <= K[c] /\ K[c] <= Len(G) /\ Len(q) = K[c] - m
        /\ \A k \in 1..K[c] - m : q[k] = G[m + k]
    BY <2>2 DEF IsPart
  <2>5. DOMAIN q = 1..K[c] - m /\ DOMAIN G = 1..Len(G) /\ Len(G) \in Nat
    BY <2>3, <2>4, LenProperties
  <2>6. i \in 1..K[c] - m
    BY <2>1, <2>5
  <2> DEFINE k == K[c]
  <2> HIDE DEF k
  <2>7. m + i \in 1..Len(G)
    <3>1. k \in Nat /\ k <= Len(G) /\ i \in 1..k - m
      BY <2>4, <2>6 DEF k
    <3>2. m \in Nat /\ Len(G) \in Nat
      BY <2>4, <2>5
    <3> QED  BY <3>1, <3>2, NatSteps
  <2>8. q[i] = G[m + i] /\ m + i \in DOMAIN G
    BY <2>4, <2>5, <2>6, <2>7
  <2>9. G[m + i].seq = committed' /\ G[m + i].end
    BY <2>1, <2>8
  <2> QED  BY <2>8, <2>9
<1>6. Supply(G)'
  BY <1>1, <1>3, <1>5 DEF Supply
<1>7. HandedCount(publish) = 1 /\ HandedCount(publish') = 0
  <2>1. HandedCount(publish) = 1
    BY <1>1 DEF HandedCount
  <2>2. ASSUME publish' # <<>>
        PROVE  ~Head(publish').handed
    <3>1. Len(publish') # 0 /\ Head(publish') = publish'[1]
      <4>1. publish' \in Seq(PublishSet)
        BY <1>2
      <4>2. Len(publish') # 0
        BY <2>2, <4>1, EmptySeq
      <4>3. Head(publish') = publish'[1]
        BY <2>2, <4>1, HeadTailProperties
      <4> QED  BY <4>2, <4>3
    <3>2. 1 \in 1..z - 1
      <4> HIDE DEF z
      <4> QED  BY <1>2, <3>1
    <3>3. publish'[1] = publish[1 + 1] /\ 1 + 1 \in DOMAIN publish
      BY <1>2, <3>2
    <3>4. 1 + 1 # 1
      OBVIOUS
    <3>5. ~publish[1 + 1].handed
      BY <3>3, <3>4 DEF Tidy
    <3> QED  BY <3>1, <3>3, <3>5
  <2> QED  BY <2>1, <2>2 DEF HandedCount
<1>8. chunks' - Len(publish') + HandedCount(publish') = chunks - Len(publish) + HandedCount(publish)
  <2>1. chunks \in Nat
    BY DEF TypeInv, BridgeOK
  <2>2. chunks - (z - 1) + 0 = chunks - z + 1
    <3> HIDE DEF z
    <3> QED  BY <1>2, <2>1
  <2> QED  BY <1>1, <1>2, <1>7, <2>2
<1>9. ASSUME NEW b \in Browsers, mode'[b] # "closed"
      PROVE  (Lined(b, G, K) /\ Drawn(b, G, K))'
  <2>1. Lined(b, G, K) /\ Drawn(b, G, K)
    BY <1>1, <1>9 DEF Mirror
  <2>2. <<>> \in Seq(PieceSet) /\ G \o <<>> = G
    BY ConcatEmptySeq
  <2>3. chunks' \in Nat /\ chunks <= chunks' /\ \A k \in 0..chunks : K[k] = K[k]
    BY <1>1, NatSteps DEF TypeInv, BridgeOK
  <2>4. Lined(b, G \o <<>>, K)'
    BY <1>1, <1>8, <2>1, <2>2, <2>3, LinedGrows
  <2>5. Drawn(b, G, K)'
    BY <1>1, <2>1, DrawnKept
  <2> QED  BY <2>2, <2>4, <2>5
<1> QED  BY <1>4, <1>6, <1>9 DEF Mirror

\* A stream that has failed sends no chunk behind the missing one.
LEMMA MirrorGiveUp ==
  ASSUME TypeInv, NEW G \in Seq(PieceSet), NEW K \in [Nat -> Nat], Mirror(G, K), GiveUp
  PROVE  Mirror(G, K)'
<1>1. /\ UNCHANGED <<outbox, chunks, bridge, pending, pipe, produced, subscribed, retry, committed>>
      /\ UNCHANGED <<mode, waiting, reading, last, view, paint, screen>>
      /\ publish # <<>> /\ publish' = Tail(publish) /\ failed'
  BY DEF GiveUp, daemon, device, page, drawing
<1>2. Legal(G) /\ Cuts(G, K)
  BY DEF Mirror
<1>3. Legal(G)' /\ Cuts(G, K)'
  BY <1>1, <1>2, LegalKept, CutsTail
<1>4. Supply(G)'
  BY <1>1 DEF Supply
<1>5. ASSUME NEW b \in Browsers, mode'[b] # "closed"
      PROVE  (Lined(b, G, K) /\ Drawn(b, G, K))'
  <2>1. Lined(b, G, K) /\ Drawn(b, G, K)
    BY <1>1, <1>5 DEF Mirror
  <2>2. Lined(b, G, K)'
    BY <1>1, <2>1 DEF Lined
  <2> QED  BY <1>1, <2>1, <2>2, DrawnKept
<1> QED  BY <1>3, <1>4, <1>5 DEF Mirror

\* The chunk handed to the outbox follows those that were handed to it before.
LEMMA MirrorAdmit ==
  ASSUME TypeInv, Tidy, NEW G \in Seq(PieceSet), NEW K \in [Nat -> Nat], Mirror(G, K), Admit
  PROVE  Mirror(G, K)'
<1> DEFINE z == Len(publish)
           x == publish[1]
           e == [seq |-> x.seq, pieces |-> x.pieces]
           n == Len(outbox)
<1>1. /\ UNCHANGED <<chunks, bridge, pending, failed, pipe, produced, subscribed, retry, committed, faults>>
      /\ UNCHANGED <<mode, waiting, reading, last, view, paint, screen>>
      /\ publish # <<>> /\ ~Head(publish).handed /\ ~failed
      /\ outbox' = Append(outbox, [seq |-> Head(publish).seq, pieces |-> Head(publish).pieces])
      /\ publish' = [publish EXCEPT ![1].handed = TRUE]
  BY DEF Admit, Runs, daemon, page, drawing
<1>2. /\ z \in Nat \ {0} /\ DOMAIN publish = 1..z /\ 1 \in DOMAIN publish /\ Head(publish) = x
      /\ x \in PublishSet /\ publish \in Seq(PublishSet) /\ publish \in [1..z -> PublishSet]
  <2>1. publish \in Seq(PublishSet)
    BY DEF TypeInv, BridgeOK
  <2>2. publish \in [1..z -> PublishSet]
    BY <2>1, LenProperties
  <2> QED  BY <1>1, <2>1, <2>2, PublishHead
<1>3. bridge # "none"
  BY <1>1, <1>2 DEF Tidy
<1>4. /\ DOMAIN publish' = 1..z /\ publish'[1] = [x EXCEPT !.handed = TRUE]
      /\ \A i \in 1..z : i # 1 => publish'[i] = publish[i]
  <2> HIDE DEF z
  <2> QED  BY <1>1, <1>2
<1>5. [x EXCEPT !.handed = TRUE] \in PublishSet /\ publish'[1].seq = x.seq /\ publish'[1].pieces = x.pieces
        /\ publish'[1].handed
  BY <1>2, <1>4 DEF PublishSet
<1>6. publish' \in Seq(PublishSet) /\ Len(publish') = z
  <2>1. publish' \in [1..z -> PublishSet]
    <3>1. \A i \in 1..z : publish'[i] \in PublishSet
      BY <1>2, <1>4, <1>5
    <3> HIDE DEF z, x
    <3>2. publish' = [i \in 1..z |-> publish'[i]]
      BY <1>1, <1>2
    <3> QED  BY <3>1, <3>2
  <2>2. publish' \in Seq(PublishSet)
    <3> HIDE DEF z
    <3> QED  BY <1>2, <2>1, SeqDef
  <2>3. Len(publish') = z
    <3> HIDE DEF z
    <3> QED  BY <1>2, <1>4, <2>2, LenProperties
  <2> QED  BY <2>2, <2>3
<1>7. Legal(G) /\ Cuts(G, K) /\ Supply(G)
  BY DEF Mirror
<1>8. /\ \A i \in DOMAIN outbox : IsChunk(outbox[i], G, K, chunks)
      /\ \A i \in DOMAIN publish : IsChunk(publish[i], G, K, chunks)
      /\ IsPart(pending, G, K[chunks], Len(G))
      /\ \A i \in DOMAIN publish : publish[i].seq = chunks - z + i
  BY <1>3, <1>7 DEF Cuts
<1>9. outbox \in Seq(ChunkSet) /\ n \in Nat /\ DOMAIN outbox = 1..n /\ chunks \in Nat
  BY LenProperties DEF TypeInv, DeviceOK, BridgeOK
<1>10. e \in ChunkSet /\ e.seq = x.seq /\ e.pieces = x.pieces
  BY <1>2 DEF PublishSet, ChunkSet
<1>11. outbox' = Append(outbox, e)
  BY <1>1, <1>2
<1> HIDE DEF e
<1>12. Append(outbox, e) \in Seq(ChunkSet) /\ Len(Append(outbox, e)) = n + 1
  BY <1>9, <1>10, AppendProperties
<1>13. \A i \in 1..n : Append(outbox, e)[i] = outbox[i]
  BY <1>9, <1>10, AppendProperties
<1>14. Append(outbox, e)[n + 1] = e
  BY <1>9, <1>10, AppendProperties
<1>15. DOMAIN outbox' = 1..n + 1 /\ Len(outbox') = n + 1
  BY <1>11, <1>12, LenProperties
<1>16. IsChunk(x, G, K, chunks) /\ x.seq = chunks - z + 1
  BY <1>2, <1>8
<1> HIDE DEF n, x, z
<1>17. \A i \in 1..n + 1 : IsChunk(outbox'[i], G, K, chunks)
  <2> TAKE i \in 1..n + 1
  <2>1. CASE i \in 1..n
    BY <1>8, <1>9, <1>11, <1>13, <2>1
  <2>2. CASE i = n + 1
    <3>1. IsChunk(e, G, K, chunks)
      BY <1>10, <1>16 DEF IsChunk
    <3> QED  BY <1>11, <1>14, <2>2, <3>1
  <2> QED  BY <1>9, <2>1, <2>2, NatSteps
<1>18. \A i \in 1..z : publish'[i].seq = publish[i].seq /\ publish'[i].pieces = publish[i].pieces
  BY <1>4, <1>5 DEF x
<1>19. \A i \in 1..z : IsChunk(publish'[i], G, K, chunks) /\ publish'[i].seq = chunks - z + i
  BY <1>2, <1>8, <1>18 DEF IsChunk
<1>20. Cuts(G, K)'
  BY <1>1, <1>4, <1>6, <1>8, <1>15, <1>17, <1>19 DEF Cuts
<1>21. Legal(G)' /\ Supply(G)'
  <2>1. faults'["link"] = faults["link"]
    BY <1>1
  <2> QED  BY <1>1, <1>7, <2>1, LegalKept, SupplyKept
<1>22. HandedCount(publish) = 0 /\ HandedCount(publish') = 1
  <2>1. HandedCount(publish) = 0
    BY <1>1 DEF HandedCount
  <2>2. publish' # <<>>
    BY <1>2, <1>6, EmptySeq
  <2>3. Head(publish') = publish'[1]
    BY <1>6, <2>2, HeadTailProperties
  <2> QED  BY <1>5, <2>1, <2>2, <2>3 DEF HandedCount
<1>23. ASSUME NEW b \in Browsers, mode'[b] # "closed"
       PROVE  (Lined(b, G, K) /\ Drawn(b, G, K))'
  <2>1. Lined(b, G, K) /\ Drawn(b, G, K)
    BY <1>1, <1>23 DEF Mirror
  <2> DEFINE w == Len(waiting[b])
             l == last[b]
  <2>2. w \in Nat /\ l \in Nat
    BY LenProperties DEF TypeInv, PageOK
  <2>3. /\ l <= chunks
        /\ \A i \in DOMAIN waiting[b] : /\ waiting[b][i].seq = l + i
                                        /\ IsChunk(waiting[b][i], G, K, chunks)
        /\ \A i \in 1..n : outbox[i].seq = l + w + i
        /\ l + w + n = chunks - z
    <3>1. l + w + Len(outbox) = chunks - Len(publish) + 0
      BY <1>1, <1>3, <1>22, <2>1 DEF Lined
    <3>2. chunks - z + 0 = chunks - z
      BY <1>2, <1>9
    <3> QED  BY <1>9, <2>1, <3>1, <3>2 DEF Lined, n, z
  <2>4. UNCHANGED <<waiting, last>> /\ w = Len(waiting'[b]) /\ l = last'[b]
    BY <1>1
  <2> HIDE DEF w, l
  <2>5. \A i \in 1..n + 1 : outbox'[i].seq = l + w + i
    <3> TAKE i \in 1..n + 1
    <3>1. CASE i \in 1..n
      BY <1>11, <1>13, <2>3, <3>1
    <3>2. CASE i = n + 1
      <4>1. x.seq = (l + w + n) + 1
        BY <1>16, <2>3
      <4>2. (l + w + n) + 1 = l + w + (n + 1)
        BY <1>9, <2>2
      <4> QED  BY <1>10, <1>11, <1>14, <3>2, <4>1, <4>2
    <3> QED  BY <1>9, <3>1, <3>2, NatSteps
  <2>6. l + w + (n + 1) = chunks - z + 1
    BY <1>2, <1>9, <2>2, <2>3
  <2>7. Lined(b, G, K)'
    BY <1>1, <1>6, <1>15, <1>22, <2>3, <2>4, <2>5, <2>6 DEF Lined, w, l
  <2>8. Drawn(b, G, K)'
    BY <1>1, <2>1, DrawnKept
  <2> QED  BY <2>7, <2>8
<1> QED  BY <1>20, <1>21, <1>23 DEF Mirror

\* What the lost connection was to bring is gone; nothing else is.
LEMMA MirrorLinkDrop ==
  ASSUME TypeInv, Tidy, Calm', NEW G \in Seq(PieceSet), NEW K \in [Nat -> Nat], Mirror(G, K), LinkDrop
  PROVE  Mirror(G, K)'
<1>1. /\ UNCHANGED <<outbox, chunks, produced>>
      /\ UNCHANGED <<mode, waiting, reading, last, view, paint, screen>>
      /\ subscribed /\ bridge # "none"
  BY DEF LinkDrop, device, page, drawing, Tidy
<1>2. Legal(G) /\ Cuts(G, K) /\ Supply(G)
  BY DEF Mirror
<1>3. Legal(G)'
  BY <1>1, <1>2, LegalKept
<1>4. CASE bridge = "opening"
  <2>1. bridge' = "none" /\ publish' = Disown(publish)
    BY <1>4 DEF LinkDrop, Dispose, RestartOutput
  <2>2. Supply(G)'
    BY <2>1 DEF Supply
  <2>3. Cuts(G, K)'
    <3>1. publish \in Seq(PublishSet)
      BY DEF TypeInv, BridgeOK
    <3>2. \A i \in DOMAIN publish' : /\ i \in DOMAIN publish
                                     /\ publish'[i].seq = publish[i].seq /\ publish'[i].pieces = publish[i].pieces
      BY <2>1, <3>1, DisownHanded
    <3>3. \A i \in DOMAIN publish' : IsChunk(publish'[i], G, K, chunks)
      BY <1>2, <3>2 DEF Cuts, IsChunk
    <3> QED  BY <1>1, <1>2, <2>1, <3>3 DEF Cuts
  <2>4. ASSUME NEW b \in Browsers, mode'[b] # "closed"
        PROVE  (Lined(b, G, K) /\ Drawn(b, G, K))'
    <3>1. Lined(b, G, K) /\ Drawn(b, G, K)
      BY <1>1, <2>4 DEF Mirror
    <3>2. Lined(b, G, K)'
      BY <1>1, <2>1, <3>1 DEF Lined
    <3> QED  BY <1>1, <3>1, <3>2, DrawnKept
  <2> QED  BY <1>3, <2>2, <2>3, <2>4 DEF Mirror
<1>5. CASE bridge # "opening"
  <2>1. /\ UNCHANGED <<bridge, committed, pending, failed, publish>>
        /\ retry' /\ pipe' = <<>> /\ ~subscribed'
    BY <1>5 DEF LinkDrop
  <2>2. faults["link"] = 0
    BY CalmFault DEF LinkDrop, Faults, TypeInv
  <2>3. Cuts(G, K)'
    BY <1>1, <1>2, <2>1, CutsKept
  <2>4. Supply(G)'
    <3>1. DOMAIN pipe' = {}
      BY <2>1
    <3> QED  BY <1>1, <1>2, <2>1, <2>2, <3>1 DEF Supply
  <2>5. ASSUME NEW b \in Browsers, mode'[b] # "closed"
        PROVE  (Lined(b, G, K) /\ Drawn(b, G, K))'
    <3>1. Lined(b, G, K) /\ Drawn(b, G, K)
      BY <1>1, <2>5 DEF Mirror
    <3> QED  BY <1>1, <2>1, <3>1, LinedKept, DrawnKept
  <2> QED  BY <1>3, <2>3, <2>4, <2>5 DEF Mirror
<1> QED  BY <1>4, <1>5

\* The replay continues the line behind the last frame acknowledged: frames that
\* are sent again begin where they are due, or everything begins anew.
LEMMA MirrorRelink ==
  ASSUME TypeInv, Tidy, NEW G \in Seq(PieceSet), NEW K \in [Nat -> Nat], Mirror(G, K), Relink
  PROVE  Mirror(G, K)'
<1>1. /\ UNCHANGED <<outbox, publish, chunks, bridge, pending, failed, committed, produced, faults>>
      /\ UNCHANGED <<mode, waiting, reading, last, view, paint, screen>>
      /\ retry /\ ~retry' /\ subscribed' /\ pipe' = pipe \o AttachedFrames(committed, FALSE)
  BY DEF Relink, Attach, device, page, drawing
<1>2. /\ pipe = <<>> /\ faults["link"] = 1 /\ bridge # "none"
      /\ oldest \in Nat \ {0} /\ produced \in Nat /\ committed \in Nat
  BY <1>1 DEF Tidy, TypeInv, DaemonOK, BridgeOK
<1>3. Legal(G) /\ Cuts(G, K) /\ Supply(G)
  BY DEF Mirror
<1>4. Legal(G)' /\ Cuts(G, K)'
  BY <1>1, <1>3, LegalKept, CutsKept
<1>5. Supply(G)'
  <2> SUFFICES ASSUME ~failed
               PROVE  Supply(G)'
    BY <1>1 DEF Supply
  <2>1. committed > 0 => \E j \in DOMAIN G : G[j].seq = committed /\ G[j].end
    BY <1>2, <1>3 DEF Supply
  <2>2. \A i \in DOMAIN G : G[i].kind = "reset" => i = 1
    BY <1>1, <1>2, <1>3 DEF Supply
  <2>3. committed > 0 => /\ committed <= produced
                         /\ \E j \in DOMAIN G : G[j].seq = committed /\ G[j].end /\ NoReset(G, j, Len(G))
    <3> SUFFICES ASSUME committed > 0
                 PROVE  /\ committed <= produced
                        /\ \E j \in DOMAIN G : G[j].seq = committed /\ G[j].end /\ NoReset(G, j, Len(G))
      OBVIOUS
    <3>1. PICK j \in DOMAIN G : G[j].seq = committed /\ G[j].end
      BY <2>1
    <3>2. committed <= produced
      BY <1>3, <3>1 DEF Legal
    <3>3. NoReset(G, j, Len(G))
      <4> SUFFICES ASSUME NEW k \in j..Len(G), G[k].kind = "reset"
                   PROVE  FALSE
        BY DEF NoReset
      <4>1. DOMAIN G = 1..Len(G) /\ Len(G) \in Nat
        BY LenProperties
      <4>2. k \in DOMAIN G /\ j <= k /\ j >= 1 /\ j \in Nat
        BY <3>1, <4>1
      <4>3. k = 1
        BY <2>2, <4>2
      <4>4. j = k
        BY <4>2, <4>3
      <4>5. G[k].seq = 0
        <5>1. G[k] \in PieceSet
          BY <4>2, ElementOfSeq, <4>1
        <5> QED  BY <5>1 DEF PieceSet, Marks
      <4>6. committed = 0
        BY <3>1, <4>4, <4>5
      <4>7. ~(0 > 0)
        OBVIOUS
      <4> QED  BY <4>6, <4>7
    <3> QED  BY <3>1, <3>2, <3>3
  <2>4. PICK q \in Seq(FrameSet) : q = AttachedFrames(committed, FALSE)
    <3>1. FALSE \in BOOLEAN
      OBVIOUS
    <3>2. AttachedFrames(committed, FALSE) \in Seq(FrameSet)
      BY <1>2, <3>1, AttachedType
    <3> QED  BY <3>2
  <2>5. /\ DueAfter(G, q, Len(q), produced + 1)
        /\ \A i \in DOMAIN q : /\ q[i].seq <= produced
                               /\ q[i].seq > 0 => DueAfter(G, q, i - 1, q[i].seq)
    <3>1. FALSE \in BOOLEAN
      OBVIOUS
    <3> QED  BY <1>2, <2>3, <2>4, <3>1, AttachedDue
  <2>6. pipe' = q
    <3>1. <<>> \o q = q
      BY <2>4, ConcatEmptySeq
    <3> QED  BY <1>1, <1>2, <2>4, <3>1
  <2>7. ~(faults'["link"] = 0 \/ retry')
    BY <1>1, <1>2
  <2> QED  BY <1>1, <2>1, <2>5, <2>6, <2>7 DEF Supply
<1>6. ASSUME NEW b \in Browsers, mode'[b] # "closed"
      PROVE  (Lined(b, G, K) /\ Drawn(b, G, K))'
  <2>1. Lined(b, G, K) /\ Drawn(b, G, K)
    BY <1>1, <1>6 DEF Mirror
  <2> QED  BY <1>1, <2>1, LinedKept, DrawnKept
<1> QED  BY <1>4, <1>5, <1>6 DEF Mirror

\* With the attach the line begins, empty.
LEMMA MirrorAttach ==
  ASSUME TypeInv, Tidy, BlankPages, Connected, attaches = 0, TakeAttach
  PROVE  \E G \in Seq(PieceSet) : \E K \in [Nat -> Nat] : Mirror(G, K)'
<1> DEFINE G == <<>>
           K == [k \in Nat |-> 0]
<1>1. /\ UNCHANGED <<outbox, chunks, committed, produced, faults, retry>>
      /\ UNCHANGED <<mode, waiting, reading, last, view, paint, screen>>
      /\ commands # <<>> /\ pipe' = pipe \o AttachedFrames(Head(commands).after, TRUE)
      /\ pending' = <<>> /\ publish' = Disown(publish)
  BY DEF TakeAttach, Attach, RestartOutput, page, drawing
<1>2. /\ bridge = "none" /\ publish = <<>> /\ outbox = <<>> /\ chunks = 0 /\ committed = 0
      /\ pipe = <<>>
  BY DEF Tidy
<1>3. /\ commands \in Seq(CommandSet) /\ publish \in Seq(PublishSet)
      /\ oldest \in Nat \ {0} /\ produced \in Nat
  BY DEF TypeInv, DeviceOK, BridgeOK, DaemonOK
<1>4. Head(commands).after = 0
  <2>1. Head(commands) = commands[1] /\ Len(commands) \in Nat \ {0}
    BY <1>1, <1>3, HeadTailProperties, EmptySeq, LenProperties
  <2>2. 1 \in DOMAIN commands
    BY <1>3, <2>1, NatSteps, LenProperties
  <2> QED  BY <2>1, <2>2 DEF Connected, AttachFrom
<1>5. /\ G \in Seq(PieceSet) /\ Len(G) = 0 /\ DOMAIN G = {}
      /\ K \in [Nat -> Nat] /\ \A k \in Nat : K[k] = 0
  OBVIOUS
<1>6. 1..0 = {} /\ 0 - 0 = 0 /\ 0 \in 0..0
  OBVIOUS
<1> HIDE DEF G, K
<1>7. IsPart(<<>>, G, 0, 0)
  <2>1. Len(<<>>) = 0
    OBVIOUS
  <2> QED  BY <1>5, <1>6, <2>1 DEF IsPart
<1>8. Legal(G)'
  BY <1>5 DEF Legal, LegalLine
<1>9. publish' = <<>> /\ DOMAIN publish' = {} /\ DOMAIN outbox = {} /\ Len(publish') = 0 /\ Len(outbox) = 0
  <2>1. publish' = <<>>
    BY <1>1, <1>2, <1>3, DisownHanded
  <2> QED  BY <1>2, <2>1
<1>10. Cuts(G, K)'
  BY <1>1, <1>2, <1>5, <1>7, <1>9 DEF Cuts
<1>11. Supply(G)'
  <2>1. PICK q \in Seq(FrameSet) : q = AttachedFrames(0, TRUE)
    <3>1. TRUE \in BOOLEAN /\ 0 \in Nat
      OBVIOUS
    <3>2. AttachedFrames(0, TRUE) \in Seq(FrameSet)
      BY <1>3, <3>1, AttachedType
    <3> QED  BY <3>2
  <2>2. /\ DueAfter(G, q, Len(q), produced + 1)
        /\ \A i \in DOMAIN q : /\ q[i].seq <= produced
                               /\ q[i].seq > 0 => DueAfter(G, q, i - 1, q[i].seq)
                               /\ q[i].kind = "reset" => i = 1
    <3>1. PICK n \in Nat : n = 0
      OBVIOUS
    <3>2. PICK c \in BOOLEAN : c = TRUE
      OBVIOUS
    <3>3. n > 0 => /\ n <= produced
                   /\ \E j \in DOMAIN G : G[j].seq = n /\ G[j].end /\ NoReset(G, j, Len(G))
      BY <3>1
    <3>4. G \in Seq(PieceSet) /\ q = AttachedFrames(n, c)
      BY <1>5, <2>1, <3>1, <3>2
    <3>5. DueAfter(G, q, Len(q), produced + 1)
      BY <1>3, <3>3, <3>4, AttachedDue
    <3>6. \A i \in DOMAIN q : /\ q[i].seq <= produced
                              /\ q[i].seq > 0 => DueAfter(G, q, i - 1, q[i].seq)
                              /\ q[i].kind = "reset" => i = 1
      BY <1>3, <3>3, <3>4, AttachedDue
    <3> QED  BY <3>5, <3>6
  <2>3. pipe' = q
    <3>1. <<>> \o q = q
      BY <2>1, ConcatEmptySeq
    <3> QED  BY <1>1, <1>2, <1>4, <2>1, <3>1
  <2>4. ~(committed' > 0) /\ G = <<>> /\ \A i \in DOMAIN G : G[i].kind = "reset" => i = 1
    BY <1>1, <1>2, <1>5 DEF G
  <2> QED  BY <1>1, <2>2, <2>3, <2>4 DEF Supply
<1>12. ASSUME NEW b \in Browsers
       PROVE  (Lined(b, G, K) /\ Drawn(b, G, K))'
  <2>1. /\ waiting[b] = <<>> /\ reading[b] = <<>> /\ last[b] = 0
        /\ view[b] = NewView /\ paint[b] = <<>> /\ screen[b] = <<>>
    BY DEF BlankPages, Blank
  <2>2. DOMAIN waiting'[b] = {} /\ Len(waiting'[b]) = 0
    BY <1>1, <2>1
  <2>3. HandedCount(publish') = 0
    BY <1>9 DEF HandedCount
  <2>4. Lined(b, G, K)'
    BY <1>1, <1>2, <1>9, <2>1, <2>2, <2>3 DEF Lined
  <2>5. ViewOf(G, 0, NewView)
    BY <1>6 DEF ViewOf, Seen, HalfOf, NewView
  <2>6. DrawnOf(<<>>, <<>>, NewView)
    <3>1. DOMAIN <<>> = {} /\ Len(<<>>) = 0 /\ 2..0 = {}
      OBVIOUS
    <3>2. Chained(<<>>)
      BY <3>1 DEF Chained
    <3> QED  BY <3>1, <3>2 DEF DrawnOf, Drawing, Left, Tip, NewView
  <2>7. Drawn(b, G, K)'
    BY <1>1, <1>5, <1>6, <1>7, <2>1, <2>5, <2>6 DEF Drawn
  <2> QED  BY <2>4, <2>7
<1>13. Mirror(G, K)'
  BY <1>8, <1>10, <1>11, <1>12 DEF Mirror
<1> QED  BY <1>5, <1>13

-----------------------------------------------------------------------------
(* What the pages do to a mirror. *)

\* A step of a page changes nothing of the bridge.
LEMMA BridgeKept ==
  ASSUME NEW G, NEW K, Mirror(G, K), UNCHANGED <<daemon, bridging, outbox, faults>>
  PROVE  Legal(G)' /\ Cuts(G, K)' /\ Supply(G)'
<1>1. /\ UNCHANGED <<outbox, publish, chunks, bridge, pending, failed, committed, retry, produced, pipe>>
      /\ subscribed' = subscribed /\ faults'["link"] = faults["link"]
  BY DEF daemon, bridging
<1> QED  BY <1>1, LegalKept, CutsKept, SupplyKept DEF Mirror

\* A page that does nothing.
LEMMA LinedSame ==
  ASSUME NEW G, NEW K, NEW b, Lined(b, G, K), UNCHANGED <<outbox, bridging>>,
         waiting'[b] = waiting[b], last'[b] = last[b]
  PROVE  Lined(b, G, K)'
<1>1. UNCHANGED <<outbox, publish, chunks, bridge, failed>>
  BY DEF bridging
<1> QED  BY <1>1 DEF Lined

\* A page that neither reads nor draws has read the same beginning.
LEMMA DrawnSame ==
  ASSUME NEW G, NEW K, NEW b, Drawn(b, G, K), reading'[b] = reading[b], last'[b] = last[b],
         view'[b] = view[b], paint'[b] = paint[b], screen'[b] = screen[b]
  PROVE  Drawn(b, G, K)'
  BY DEF Drawn

\* The types of what a page keeps.
LEMMA PageTypes ==
  ASSUME TypeInv, NEW b \in Browsers
  PROVE  /\ waiting[b] \in Seq(ChunkSet) /\ reading[b] \in Seq(PieceSet) /\ last[b] \in Nat
         /\ view[b] \in Views /\ paint[b] \in Seq(EntrySet) /\ screen[b] \in Seq(ShapeSet)
         /\ mode[b] \in {"closed", "open", "mounted"}
         /\ mode[b] = "open" => Len(waiting[b]) <= BufferMax
         /\ DOMAIN waiting = Browsers /\ DOMAIN reading = Browsers /\ DOMAIN last = Browsers
         /\ DOMAIN view = Browsers /\ DOMAIN paint = Browsers /\ DOMAIN screen = Browsers
         /\ DOMAIN mode = Browsers
  BY DEF TypeInv, PageOK, DrawOK

\* A page reads the next piece of the line.
LEMMA MirrorRead ==
  ASSUME TypeInv, NEW G \in Seq(PieceSet), NEW K \in [Nat -> Nat], Mirror(G, K),
         NEW a \in Browsers, Read(a)
  PROVE  Mirror(G, K)'
<1>1. /\ UNCHANGED <<daemon, bridging, outbox, faults, mode, waiting, last, screen>>
      /\ reading[a] # <<>>
      /\ reading' = [reading EXCEPT ![a] = Tail(@)]
      /\ view' = [view EXCEPT ![a] = TakePiece(@, Head(reading[a]))]
      /\ paint' = [paint EXCEPT ![a] = @ \o Shown(view[a], Head(reading[a]))]
  BY DEF Read, device
<1>2. Legal(G)' /\ Cuts(G, K)' /\ Supply(G)'
  BY <1>1, BridgeKept
<1>3. ASSUME NEW b \in Browsers, mode'[b] # "closed"
      PROVE  (Lined(b, G, K) /\ Drawn(b, G, K))'
  <2>1. Lined(b, G, K) /\ Drawn(b, G, K)
    BY <1>1, <1>3 DEF Mirror
  <2>2. Lined(b, G, K)'
    BY <1>1, <2>1, LinedSame
  <2>3. CASE b # a
    <3>1. reading'[b] = reading[b] /\ view'[b] = view[b] /\ paint'[b] = paint[b]
      BY <1>1, <2>3, PageTypes
    <3>2. Drawn(b, G, K)'
      BY <1>1, <2>1, <3>1, DrawnSame
    <3> QED  BY <2>2, <3>2
  <2>4. CASE b = a
    <3> DEFINE x == Head(reading[b])
    <3>1. /\ reading'[b] = Tail(reading[b]) /\ view'[b] = TakePiece(view[b], x)
          /\ paint'[b] = paint[b] \o Shown(view[b], x)
      BY <1>1, <2>4, PageTypes
    <3>2. PICK p \in 0..Len(G) : IsPart(reading[b], G, p, K[last[b]]) /\ ViewOf(G, p, view[b])
      BY <2>1 DEF Drawn
    <3>3. DrawnOf(screen[b], paint[b], view[b])
      BY <2>1 DEF Drawn
    <3>4. /\ reading[b] \in Seq(PieceSet) /\ view[b] \in Views
          /\ screen[b] \in Seq(ShapeSet) /\ paint[b] \in Seq(EntrySet)
      BY PageTypes
    <3>5. reading[b] # <<>>
      BY <1>1, <2>4
    <3>6. /\ p \in Nat /\ p + 1 \in DOMAIN G /\ x = G[p + 1]
          /\ IsPart(Tail(reading[b]), G, p + 1, K[last[b]])
      BY <3>2, <3>4, <3>5, PartTail
    <3> HIDE DEF x
    <3>7. LegalLine(G)
      BY DEF Mirror, Legal
    <3>8. /\ ViewOf(G, p + 1, TakePiece(view[b], x))
          /\ DrawnOf(screen[b], paint[b] \o Shown(view[b], x), TakePiece(view[b], x))
      BY <3>2, <3>3, <3>4, <3>6, <3>7, PageRead
    <3>9. p + 1 \in 0..Len(G)
      BY <3>6, LenProperties
    <3>10. last'[b] = last[b] /\ screen'[b] = screen[b]
      BY <1>1
    <3>11. Drawn(b, G, K)'
      BY <3>1, <3>6, <3>8, <3>9, <3>10 DEF Drawn
    <3> QED  BY <2>2, <3>11
  <2> QED  BY <2>3, <2>4
<1> QED  BY <1>2, <1>3 DEF Mirror

\* A page draws what it has given to the render queue.
LEMMA MirrorDraw ==
  ASSUME TypeInv, NEW G \in Seq(PieceSet), NEW K \in [Nat -> Nat], Mirror(G, K),
         NEW a \in Browsers, Draw(a)
  PROVE  Mirror(G, K)'
<1>1. /\ UNCHANGED <<daemon, bridging, outbox, faults, mode, waiting, reading, last, view>>
      /\ paint[a] # <<>>
      /\ paint' = [paint EXCEPT ![a] = Tail(paint[a])]
      /\ screen' = [screen EXCEPT ![a] = (IF Head(paint[a]).clear THEN <<>> ELSE @) \o Head(paint[a]).body]
  BY DEF Draw, device
<1>2. Legal(G)' /\ Cuts(G, K)' /\ Supply(G)'
  BY <1>1, BridgeKept
<1>3. ASSUME NEW b \in Browsers, mode'[b] # "closed"
      PROVE  (Lined(b, G, K) /\ Drawn(b, G, K))'
  <2>1. Lined(b, G, K) /\ Drawn(b, G, K)
    BY <1>1, <1>3 DEF Mirror
  <2>2. Lined(b, G, K)'
    BY <1>1, <2>1, LinedSame
  <2>3. CASE b # a
    <3>1. paint'[b] = paint[b] /\ screen'[b] = screen[b]
      BY <1>1, <2>3, PageTypes
    <3>2. Drawn(b, G, K)'
      BY <1>1, <2>1, <3>1, DrawnSame
    <3> QED  BY <2>2, <3>2
  <2>4. CASE b = a
    <3> DEFINE e == Head(paint[b])
               t == (IF e.clear THEN <<>> ELSE screen[b]) \o e.body
    <3>1. paint'[b] = Tail(paint[b]) /\ screen'[b] = t /\ paint[b] # <<>>
      BY <1>1, <2>4, PageTypes
    <3>2. screen[b] \in Seq(ShapeSet) /\ paint[b] \in Seq(EntrySet)
      BY PageTypes
    <3>3. DrawnOf(screen[b], paint[b], view[b])
      BY <2>1 DEF Drawn
    <3>4. /\ Drawing(t, Tail(paint[b]))
          /\ \A n : Tip(Left(screen[b], paint[b]), n) => Tip(Left(t, Tail(paint[b])), n)
      <4>1. Drawing(screen[b], paint[b])
        BY <3>3 DEF DrawnOf
      <4> QED  BY <3>1, <3>2, <4>1, DrawnOne
    <3> HIDE DEF t
    <3>5. DrawnOf(t, Tail(paint[b]), view[b])
      BY <3>3, <3>4 DEF DrawnOf
    <3>6. reading'[b] = reading[b] /\ last'[b] = last[b] /\ view'[b] = view[b]
      BY <1>1
    <3>7. Drawn(b, G, K)'
      BY <2>1, <3>1, <3>5, <3>6 DEF Drawn
    <3> QED  BY <2>2, <3>7
  <2> QED  BY <2>3, <2>4
<1> QED  BY <1>2, <1>3 DEF Mirror

\* The terminal of a page mounts, or a page without one connects.
LEMMA MirrorMount ==
  ASSUME TypeInv, NEW G \in Seq(PieceSet), NEW K \in [Nat -> Nat], Mirror(G, K),
         NEW a \in Browsers, Mount(a) \/ Ready(a)
  PROVE  Mirror(G, K)'
<1>1. UNCHANGED <<daemon, bridging, outbox, faults, waiting, reading, last, view, paint, screen>>
  BY DEF Mount, Ready, device, page, drawing
<1>2. \A b \in Browsers : mode'[b] # "closed" => mode[b] # "closed"
  <2>1. CASE Mount(a)
    BY <2>1, PageTypes DEF Mount
  <2>2. CASE Ready(a)
    BY <2>2 DEF Ready, page
  <2> QED  BY <2>1, <2>2
<1>3. Legal(G)' /\ Cuts(G, K)' /\ Supply(G)'
  BY <1>1, BridgeKept
<1>4. ASSUME NEW b \in Browsers, mode'[b] # "closed"
      PROVE  (Lined(b, G, K) /\ Drawn(b, G, K))'
  <2>1. Lined(b, G, K) /\ Drawn(b, G, K)
    BY <1>2, <1>4 DEF Mirror
  <2> QED  BY <1>1, <2>1, LinedSame, DrawnSame
<1> QED  BY <1>3, <1>4 DEF Mirror

\* A page takes the chunk behind the last one it has taken.
LEMMA ChunkTaken ==
  ASSUME TypeInv, NEW G \in Seq(PieceSet), NEW K \in [Nat -> Nat], NEW b \in Browsers, Drawn(b, G, K),
         reading[b] = <<>>, NEW c, IsChunk(c, G, K, chunks), c.seq = last[b] + 1,
         reading'[b] = c.pieces, last'[b] = c.seq,
         view'[b] = view[b], paint'[b] = paint[b], screen'[b] = screen[b]
  PROVE  Drawn(b, G, K)' /\ last'[b] <= chunks /\ last'[b] = last[b] + 1
<1>1. PICK p \in 0..Len(G) : IsPart(reading[b], G, p, K[last[b]]) /\ ViewOf(G, p, view[b])
  BY DEF Drawn
<1>2. p = K[last[b]]
  BY <1>1, PartEmpty
<1>3. chunks \in Nat /\ last[b] \in Nat
  BY PageTypes DEF TypeInv, BridgeOK
<1>4. c.seq \in 1..chunks /\ IsPart(c.pieces, G, K[c.seq - 1], K[c.seq])
  BY DEF IsChunk
<1>5. c.seq - 1 = last[b] /\ c.seq <= chunks
  BY <1>3, <1>4, NatSteps
<1>6. IsPart(reading'[b], G, p, K[last'[b]])
  BY <1>2, <1>4, <1>5
<1>7. Drawn(b, G, K)'
  BY <1>1, <1>6 DEF Drawn
<1> QED  BY <1>5, <1>7

\* The first of the chunks, and the others.
LEMMA ChunkTail ==
  ASSUME NEW q \in Seq(ChunkSet), q # <<>>
  PROVE  /\ Len(q) \in Nat \ {0} /\ DOMAIN q = 1..Len(q) /\ 1 \in DOMAIN q /\ Head(q) = q[1]
         /\ Head(q) \in ChunkSet
         /\ Tail(q) \in Seq(ChunkSet) /\ Len(Tail(q)) = Len(q) - 1 /\ DOMAIN Tail(q) = 1..Len(q) - 1
         /\ \A i \in 1..Len(q) - 1 : i + 1 \in DOMAIN q /\ Tail(q)[i] = q[i + 1]
<1>1. Len(q) \in Nat \ {0} /\ DOMAIN q = 1..Len(q)
  BY LenProperties, EmptySeq
<1>2. /\ Head(q) = q[1]
      /\ Tail(q) \in Seq(ChunkSet) /\ Len(Tail(q)) = Len(q) - 1
      /\ \A i \in 1..Len(Tail(q)) : Tail(q)[i] = q[i + 1]
  BY HeadTailProperties
<1>3. 1 \in DOMAIN q
  BY <1>1, NatSteps
<1>4. q[1] \in ChunkSet
  BY <1>1, <1>3, ElementOfSeq
<1>5. DOMAIN Tail(q) = 1..Len(q) - 1
  BY <1>2, LenProperties
<1>6. \A i \in 1..Len(q) - 1 : i + 1 \in DOMAIN q
  BY <1>1, NatSteps
<1> QED  BY <1>1, <1>2, <1>3, <1>4, <1>5, <1>6

\* A page takes the first chunk it has buffered.
LEMMA MirrorUnpack ==
  ASSUME TypeInv, NEW G \in Seq(PieceSet), NEW K \in [Nat -> Nat], Mirror(G, K),
         NEW a \in Browsers, Unpack(a)
  PROVE  Mirror(G, K)'
<1>1. /\ UNCHANGED <<daemon, bridging, outbox, faults, mode, view, paint, screen>>
      /\ waiting[a] # <<>> /\ reading[a] = <<>> /\ mode[a] = "mounted"
      /\ waiting' = [waiting EXCEPT ![a] = Tail(@)]
      /\ IF Head(waiting[a]).seq <= last[a] THEN UNCHANGED <<reading, last>>
         ELSE /\ reading' = [reading EXCEPT ![a] = Head(waiting[a]).pieces]
              /\ last' = [last EXCEPT ![a] = Head(waiting[a]).seq]
  BY DEF Unpack, device, drawing
<1>2. Legal(G)' /\ Cuts(G, K)' /\ Supply(G)'
  BY <1>1, BridgeKept
<1>3. ASSUME NEW b \in Browsers, mode'[b] # "closed"
      PROVE  (Lined(b, G, K) /\ Drawn(b, G, K))'
  <2>1. Lined(b, G, K) /\ Drawn(b, G, K)
    BY <1>1, <1>3 DEF Mirror
  <2>2. CASE b # a
    <3>1. waiting'[b] = waiting[b] /\ reading'[b] = reading[b] /\ last'[b] = last[b]
      BY <1>1, <2>2, PageTypes
    <3>2. view'[b] = view[b] /\ paint'[b] = paint[b] /\ screen'[b] = screen[b]
      BY <1>1
    <3> QED  BY <1>1, <2>1, <3>1, <3>2, LinedSame, DrawnSame
  <2>3. CASE b = a
    <3> DEFINE w == waiting[b]
               c == Head(waiting[b])
               n == Len(w)
               l == last[b]
    <3>1. waiting'[b] = Tail(w) /\ w # <<>>
      BY <1>1, <2>3, PageTypes
    <3>2. w \in Seq(ChunkSet) /\ l \in Nat
      BY PageTypes
    <3>3. /\ n \in Nat \ {0} /\ DOMAIN w = 1..n /\ 1 \in DOMAIN w /\ c = w[1]
          /\ Len(Tail(w)) = n - 1 /\ DOMAIN Tail(w) = 1..n - 1
          /\ \A i \in 1..n - 1 : i + 1 \in DOMAIN w /\ Tail(w)[i] = w[i + 1]
      BY <3>1, <3>2, ChunkTail
    <3>4. /\ \A i \in DOMAIN w : w[i].seq = l + i /\ IsChunk(w[i], G, K, chunks)
          /\ \A i \in DOMAIN outbox : outbox[i].seq = l + n + i
          /\ bridge # "none" /\ ~failed =>
               l + n + Len(outbox) = chunks - Len(publish) + HandedCount(publish)
      BY <2>1 DEF Lined
    <3>5. c.seq = l + 1 /\ IsChunk(c, G, K, chunks)
      BY <3>3, <3>4
    <3>6. ~(c.seq <= l)
      <4> HIDE DEF c, l
      <4> QED  BY <3>2, <3>5
    <3>7. reading'[b] = c.pieces /\ last'[b] = c.seq
      BY <1>1, <2>3, <3>6, PageTypes
    <3>8. view'[b] = view[b] /\ paint'[b] = paint[b] /\ screen'[b] = screen[b] /\ reading[b] = <<>>
      BY <1>1, <2>3
    <3>9. Drawn(b, G, K)' /\ last'[b] <= chunks /\ last'[b] = l + 1
      BY <2>1, <3>5, <3>7, <3>8, ChunkTaken
    <3>10. /\ UNCHANGED <<outbox, publish, chunks, bridge, failed>>
      BY <1>1 DEF bridging
    <3> DEFINE o == Len(outbox)
    <3>11. o \in Nat /\ DOMAIN outbox = 1..o
      BY LenProperties DEF TypeInv, DeviceOK
    <3> HIDE DEF w, n, l, c, o
    <3>12. \A i \in 1..n - 1 : /\ Tail(w)[i].seq = (l + 1) + i
                               /\ IsChunk(Tail(w)[i], G, K, chunks)
      <4> TAKE i \in 1..n - 1
      <4>1. Tail(w)[i] = w[i + 1] /\ w[i + 1].seq = l + (i + 1) /\ IsChunk(w[i + 1], G, K, chunks)
        BY <3>3, <3>4
      <4>2. l + (i + 1) = (l + 1) + i
        BY <3>2, <3>3
      <4> QED  BY <4>1, <4>2
    <3>13. (l + 1) + (n - 1) = l + n
      BY <3>2, <3>3
    <3>14. \A i \in 1..o : outbox[i].seq = (l + 1) + (n - 1) + i
      BY <3>4, <3>11, <3>13
    <3>15. bridge # "none" /\ ~failed =>
             (l + 1) + (n - 1) + o = chunks - Len(publish) + HandedCount(publish)
      BY <3>4, <3>13 DEF o
    <3>16. waiting'[b] = Tail(w) /\ last'[b] = l + 1 /\ DOMAIN outbox = 1..o /\ Len(outbox) = o
      BY <3>1, <3>9, <3>11 DEF o
    <3>17. Lined(b, G, K)'
      BY <3>3, <3>9, <3>10, <3>12, <3>14, <3>15, <3>16 DEF Lined
    <3> QED  BY <3>9, <3>17
  <2> QED  BY <2>2, <2>3
<1> QED  BY <1>2, <1>3 DEF Mirror

\* TerminalStream keeps all that it has room for.
LEMMA NewestAll ==
  ASSUME NEW s \in Seq(ChunkSet), Len(s) <= BufferMax
  PROVE  Newest(s) = s
<1> DEFINE n == Len(s)
           r == SubSeq(s, 1, n)
<1>1. BufferMax \in Nat \ {0} /\ n \in Nat /\ DOMAIN s = 1..n
  BY MirrorAssumption, LenProperties
<1>2. n - BufferMax + 1 <= 1
  <2> HIDE DEF n
  <2>1. n <= BufferMax
    BY DEF n
  <2> QED  BY <1>1, <2>1
<1>3. Max2(1, n - BufferMax + 1) = 1
  BY <1>2 DEF Max2
<1>4. Newest(s) = r
  BY <1>3 DEF Newest
<1>5. \A i \in 1..n : s[i] \in ChunkSet
  BY <1>1, ElementOfSeq
<1> HIDE DEF n, r
<1>6. SubSeq(s, 1, n) \in Seq(ChunkSet)
  BY <1>1, <1>5, SubSeqProperties
<1>7. Len(SubSeq(s, 1, n)) = IF 1 <= n THEN n - 1 + 1 ELSE 0
  BY <1>1, <1>5, SubSeqProperties
<1>8. \A i \in 1..n - 1 + 1 : SubSeq(s, 1, n)[i] = s[1 + i - 1]
  BY <1>1, <1>5, SubSeqProperties
<1>9. r \in Seq(ChunkSet) /\ Len(r) = n
  BY <1>1, <1>6, <1>7 DEF r
<1>10. \A i \in 1..n : r[i] = s[i]
  <2> TAKE i \in 1..n
  <2>1. i \in 1..n - 1 + 1 /\ 1 + i - 1 = i
    BY <1>1
  <2> QED  BY <1>8, <2>1 DEF r
<1>11. r = s
  <2>1. Len(r) = Len(s)
    BY <1>9 DEF n
  <2>2. \A i \in 1..Len(r) : r[i] = s[i]
    BY <1>9, <1>10
  <2> QED  BY <1>9, <2>1, <2>2, SeqEqual
<1> QED  BY <1>4, <1>11

\* A page takes the chunk that is sent, or buffers it.
LEMMA MirrorSend ==
  ASSUME TypeInv, Connected, Calm', NEW G \in Seq(PieceSet), NEW K \in [Nat -> Nat], Mirror(G, K),
         Idle, Send
  PROVE  Mirror(G, K)'
<1> DEFINE c == Head(outbox)
           n == Len(outbox)
<1>1. /\ UNCHANGED <<daemon, bridging, mode, view, paint, screen>>
      /\ outbox # <<>> /\ outbox' = Tail(outbox)
      /\ waiting' = [b \in Browsers |-> IF Buffers(b) THEN Newest(Append(waiting[b], c)) ELSE waiting[b]]
      /\ reading' = [b \in Browsers |-> IF Listens(b) THEN c.pieces ELSE reading[b]]
      /\ last' = [b \in Browsers |-> IF Listens(b) THEN c.seq ELSE last[b]]
  BY DEF Send, drawing
<1>2. faults' = faults /\ \A b \in Browsers : Buffers(b) => ~(Len(waiting[b]) >= BufferMax)
  <2>1. "overflow" \in Faults /\ "overflow" \notin {"link", "giveup", "evict"}
    BY DEF Faults
  <2>2. ~Happens("overflow")
    BY <2>1, CalmFault DEF TypeInv
  <2> QED  BY <2>2 DEF Send
<1>3. /\ n \in Nat \ {0} /\ DOMAIN outbox = 1..n /\ 1 \in DOMAIN outbox /\ c = outbox[1] /\ c \in ChunkSet
      /\ Len(outbox') = n - 1 /\ DOMAIN outbox' = 1..n - 1
      /\ \A i \in 1..n - 1 : i + 1 \in DOMAIN outbox /\ outbox'[i] = outbox[i + 1]
  <2>1. outbox \in Seq(ChunkSet)
    BY DEF TypeInv, DeviceOK
  <2> QED  BY <1>1, <2>1, ChunkTail
<1>4. UNCHANGED <<bridge, failed, publish, chunks, pending, committed, retry, produced, pipe, subscribed>>
  BY <1>1 DEF daemon, bridging
<1>5. Legal(G) /\ Cuts(G, K) /\ Supply(G)
  BY DEF Mirror
<1>6. Legal(G)' /\ Supply(G)'
  <2>1. faults'["link"] = faults["link"]
    BY <1>2
  <2> QED  BY <1>4, <1>5, <2>1, LegalKept, SupplyKept
<1> HIDE DEF c, n
<1>7. (\A i \in 1..n : IsChunk(outbox[i], G, K, chunks)) /\ IsChunk(c, G, K, chunks)
  BY <1>3, <1>5 DEF Cuts
<1>8. Cuts(G, K)'
  <2>1. \A i \in DOMAIN outbox' : IsChunk(outbox'[i], G, K, chunks)
    BY <1>3, <1>7
  <2> QED  BY <1>4, <1>5, <2>1 DEF Cuts
<1>9. ASSUME NEW b \in Browsers, mode'[b] # "closed"
      PROVE  (Lined(b, G, K) /\ Drawn(b, G, K))'
  <2> DEFINE w == waiting[b]
             m == Len(w)
             l == last[b]
  <2>1. Lined(b, G, K) /\ Drawn(b, G, K)
    BY <1>1, <1>9 DEF Mirror
  <2>2. online[b] /\ mode[b] # "closed" /\ mode[b] \in {"closed", "open", "mounted"}
    BY <1>1, <1>9, PageTypes DEF Connected
  <2>3. w \in Seq(ChunkSet) /\ l \in Nat /\ m \in Nat /\ DOMAIN w = 1..m
    BY PageTypes, LenProperties
  <2>4. /\ l <= chunks
        /\ \A i \in 1..m : w[i].seq = l + i /\ IsChunk(w[i], G, K, chunks)
        /\ \A i \in 1..n : outbox[i].seq = l + m + i
        /\ bridge # "none" /\ ~failed => l + m + n = chunks - Len(publish) + HandedCount(publish)
    BY <1>3, <2>1, <2>3 DEF Lined, n
  <2>5. view'[b] = view[b] /\ paint'[b] = paint[b] /\ screen'[b] = screen[b]
    BY <1>1
  <2>6. c.seq = l + m + 1
    BY <1>3, <2>4
  <2>7. /\ waiting'[b] = IF Buffers(b) THEN Newest(Append(w, c)) ELSE w
        /\ reading'[b] = IF Listens(b) THEN c.pieces ELSE reading[b]
        /\ last'[b] = IF Listens(b) THEN c.seq ELSE l
    BY <1>1
  <2>8. HandedCount(publish)' = HandedCount(publish) /\ Len(publish)' = Len(publish)
    BY <1>4
  <2>9. CASE mode[b] = "open"
    <3>1. Buffers(b) /\ ~Listens(b)
      BY <2>2, <2>9 DEF Buffers, Listens
    <3>2. ~(m >= BufferMax)
      BY <1>2, <3>1
    <3> DEFINE q == Append(w, c)
    <3>3. q \in Seq(ChunkSet) /\ Len(q) = m + 1
      BY <1>3, <2>3, AppendProperties
    <3>4. \A i \in 1..m : q[i] = w[i]
      BY <1>3, <2>3, AppendProperties
    <3>5. q[m + 1] = c
      <4>1. w \in Seq(ChunkSet) /\ c \in ChunkSet
        BY <1>3, <2>3
      <4> HIDE DEF w
      <4>2. Append(w, c)[Len(w) + 1] = c
        BY <4>1, AppendProperties
      <4> QED  BY <4>2
    <3> HIDE DEF q, w, m, l
    <3>6. DOMAIN q = 1..m + 1
      BY <3>3, LenProperties
    <3>7. Len(q) <= BufferMax
      <4>1. BufferMax \in Nat
        BY MirrorAssumption
      <4>2. m + 1 <= BufferMax
        BY <2>3, <3>2, <4>1
      <4> QED  BY <3>3, <4>2
    <3>8. Newest(q) = q
      BY <3>3, <3>7, NewestAll
    <3>9. waiting'[b] = q /\ reading'[b] = reading[b] /\ last'[b] = l
      BY <2>7, <3>1, <3>8 DEF q
    <3>10. Drawn(b, G, K)'
      BY <2>1, <2>5, <3>9, DrawnSame DEF l
    <3>11. \A i \in 1..m + 1 : q[i].seq = l + i /\ IsChunk(q[i], G, K, chunks)
      <4> TAKE i \in 1..m + 1
      <4>1. CASE i \in 1..m
        BY <2>4, <3>4, <4>1
      <4>2. CASE i = m + 1
        <5>1. l + m + 1 = l + (m + 1)
          BY <2>3
        <5> QED  BY <1>7, <2>6, <3>5, <4>2, <5>1
      <4> QED  BY <2>3, <4>1, <4>2, NatSteps
    <3>12. \A i \in 1..n - 1 : outbox'[i].seq = l + (m + 1) + i
      <4> TAKE i \in 1..n - 1
      <4>1. outbox'[i] = outbox[i + 1] /\ outbox[i + 1].seq = l + m + (i + 1)
        BY <1>3, <2>4
      <4>2. l + m + (i + 1) = l + (m + 1) + i
        BY <1>3, <2>3
      <4> QED  BY <4>1, <4>2
    <3>13. l + (m + 1) + (n - 1) = l + m + n
      BY <1>3, <2>3
    <3>14. bridge # "none" /\ ~failed =>
             l + (m + 1) + (n - 1) = chunks - Len(publish) + HandedCount(publish)
      BY <2>4, <3>13
    <3>15. Lined(b, G, K)'
      BY <1>3, <1>4, <2>4, <2>8, <3>3, <3>6, <3>9, <3>11, <3>12, <3>14 DEF Lined
    <3> QED  BY <3>10, <3>15
  <2>10. CASE mode[b] = "mounted"
    <3>1. w = <<>> /\ reading[b] = <<>>
      BY <2>10 DEF Idle
    <3>2. m = 0 /\ DOMAIN w = {}
      BY <3>1
    <3> HIDE DEF w, m, l
    <3>3. c.seq = l + 1 /\ c.seq > l
      <4>1. c.seq = l + 0 + 1
        BY <2>6, <3>2
      <4>2. l + 0 + 1 = l + 1 /\ l + 1 > l
        BY <2>3
      <4> QED  BY <4>1, <4>2
    <3>4. Listens(b) /\ ~Buffers(b)
      BY <2>2, <2>10, <3>3 DEF Buffers, Listens, c, l
    <3>5. waiting'[b] = w /\ reading'[b] = c.pieces /\ last'[b] = c.seq
      BY <2>7, <3>4
    <3>6. Drawn(b, G, K)' /\ last'[b] <= chunks /\ last'[b] = l + 1
      BY <1>7, <2>1, <2>5, <3>1, <3>3, <3>5, ChunkTaken DEF l
    <3>7. \A i \in 1..n - 1 : outbox'[i].seq = (l + 1) + m + i
      <4> TAKE i \in 1..n - 1
      <4>1. outbox'[i] = outbox[i + 1] /\ outbox[i + 1].seq = l + m + (i + 1)
        BY <1>3, <2>4
      <4>2. l + m + (i + 1) = (l + 1) + m + i
        BY <1>3, <2>3
      <4> QED  BY <4>1, <4>2
    <3>8. (l + 1) + m + (n - 1) = l + m + n
      BY <1>3, <2>3
    <3>9. bridge # "none" /\ ~failed =>
             (l + 1) + m + (n - 1) = chunks - Len(publish) + HandedCount(publish)
      BY <2>4, <3>8
    <3>10. Len(w) = m
      BY DEF m
    <3>11. Lined(b, G, K)'
      BY <1>3, <1>4, <2>8, <3>2, <3>5, <3>6, <3>7, <3>9, <3>10 DEF Lined
    <3> QED  BY <3>6, <3>11
  <2> QED  BY <2>2, <2>9, <2>10
<1> QED  BY <1>6, <1>8, <1>9 DEF Mirror

-----------------------------------------------------------------------------
(* What a page shows. *)

Held == attaches > 0 => \E G \in Seq(PieceSet) : \E K \in [Nat -> Nat] : Mirror(G, K)
Still == Calm => Connected /\ (Single => BlankPages /\ Tidy /\ Held)

\* An undisturbed mirror stays one, and its pages show whole frames.
LEMMA StillInit == Init => Still
<1> SUFFICES ASSUME Init PROVE Still
  OBVIOUS
<1>1. DOMAIN commands = {} /\ DOMAIN publish = {} /\ ~(0 > 0)
  BY DEF Init
<1>2. Connected
  BY <1>1 DEF Init, Connected
<1>3. BlankPages
  BY DEF Init, BlankPages, Blank
<1>4. Tidy
  BY <1>1 DEF Init, Tidy
<1>5. Held
  BY <1>1 DEF Init, Held
<1> QED  BY <1>2, <1>3, <1>4, <1>5 DEF Still

\* Every step keeps some line of pieces and cuts.
LEMMA HeldStep ==
  ASSUME TypeInv, Connected, BlankPages, Tidy, Held, Undisturbing, Single', Calm'
  PROVE  Held'
<1>1. CASE TakeAttach
  <2>1. attaches = 0
    BY <1>1, SingleStep
  <2>2. \E G \in Seq(PieceSet) : \E K \in [Nat -> Nat] : Mirror(G, K)'
    BY <1>1, <2>1, MirrorAttach
  <2> QED  BY <2>2 DEF Held
<1>2. CASE ~TakeAttach
  <2> SUFFICES ASSUME attaches' > 0
               PROVE  \E G \in Seq(PieceSet) : \E K \in [Nat -> Nat] : Mirror(G, K)'
    BY DEF Held
  <2>1. attaches' = attaches
    BY <1>2, CommandsStep
  <2>2. PICK G \in Seq(PieceSet) : \E K \in [Nat -> Nat] : Mirror(G, K)
    BY <2>1 DEF Held
  <2>3. PICK K \in [Nat -> Nat] : Mirror(G, K)
    BY <2>2
  <2>4. ASSUME NEW a \in Browsers, Open(a)
        PROVE  FALSE
    <3>1. attaches > 0
      BY <2>1
    <3>2. commands = <<>> /\ commands' = <<>>
      BY <3>1, SingleStep
    <3>3. commands' = commands \o <<AttachFrom(0)>>
      BY <2>4 DEF Open, SendCommands, Connected
    <3>4. <<>> \o <<AttachFrom(0)>> = <<AttachFrom(0)>> /\ <<AttachFrom(0)>> # <<>>
      <4> DEFINE x == AttachFrom(0)
      <4>1. x \in {x}
        OBVIOUS
      <4> HIDE DEF x
      <4>2. <<x>> \in Seq({x}) /\ <<x>> # <<>>
        BY <4>1, SmallSeq
      <4>3. <<>> \o <<x>> = <<x>>
        BY <4>2, ConcatEmptySeq
      <4> QED  BY <4>2, <4>3 DEF x
    <3> QED  BY <3>2, <3>3, <3>4
  <2>5. CASE Produce \/ Evict
    <3>1. Mirror(G, K)'
      BY <2>3, <2>5, MirrorProduce, MirrorEvict
    <3> QED  BY <3>1
  <2>6. CASE Collect
    <3>1. PICK H \in Seq(PieceSet) : Mirror(H, K)'
      BY <2>3, <2>6, MirrorCollect
    <3> QED  BY <3>1
  <2>7. CASE Flush
    <3>1. PICK J \in [Nat -> Nat] : Mirror(G, J)'
      BY <2>3, <2>7, MirrorFlush
    <3> QED  BY <3>1
  <2>8. CASE Admit \/ PublishDone \/ GiveUp
    <3>1. Mirror(G, K)'
      BY <2>3, <2>8, MirrorAdmit, MirrorPublishDone, MirrorGiveUp
    <3> QED  BY <3>1
  <2>9. CASE LinkDrop \/ Relink
    <3>1. Mirror(G, K)'
      BY <2>3, <2>9, MirrorLinkDrop, MirrorRelink
    <3> QED  BY <3>1
  <2>10. CASE Idle /\ Send
    <3>1. Mirror(G, K)'
      BY <2>3, <2>10, MirrorSend
    <3> QED  BY <3>1
  <2>11. ASSUME NEW a \in Browsers, Read(a) \/ Mount(a) \/ Unpack(a) \/ Draw(a) \/ Ready(a)
         PROVE  Mirror(G, K)'
    <3>1. CASE Read(a)
      BY <2>3, <3>1, MirrorRead
    <3>2. CASE Mount(a) \/ Ready(a)
      BY <2>3, <3>2, MirrorMount
    <3>3. CASE Unpack(a)
      BY <2>3, <3>3, MirrorUnpack
    <3>4. CASE Draw(a)
      BY <2>3, <3>4, MirrorDraw
    <3> QED  BY <2>11, <3>1, <3>2, <3>3, <3>4
  <2>12. CASE UNCHANGED vars
    <3>1. /\ UNCHANGED <<daemon, bridging, outbox, faults>>
          /\ UNCHANGED <<mode, waiting, reading, last, view, paint, screen>>
      BY <2>12 DEF vars, device, page, drawing
    <3>2. Legal(G)' /\ Cuts(G, K)' /\ Supply(G)'
      BY <2>3, <3>1, BridgeKept
    <3>3. ASSUME NEW b \in Browsers, mode'[b] # "closed"
          PROVE  (Lined(b, G, K) /\ Drawn(b, G, K))'
      <4>1. Lined(b, G, K) /\ Drawn(b, G, K)
        BY <2>3, <3>1, <3>3 DEF Mirror
      <4>2. waiting'[b] = waiting[b] /\ last'[b] = last[b] /\ UNCHANGED <<outbox, bridging>>
        BY <3>1
      <4> QED  BY <3>1, <4>1, <4>2, LinedSame, DrawnKept
    <3>4. Mirror(G, K)'
      BY <3>2, <3>3 DEF Mirror
    <3> QED  BY <3>4
  <2> QED  BY <1>2, <2>4, <2>5, <2>6, <2>7, <2>8, <2>9, <2>10, <2>11, <2>12 DEF Undisturbing
<1> QED  BY <1>1, <1>2

LEMMA StillStep ==
  ASSUME TypeInv, Still, [Next]_vars
  PROVE  Still'
<1> SUFFICES ASSUME Calm'
             PROVE  (Connected /\ (Single => BlankPages /\ Tidy /\ Held))'
  BY DEF Still
<1>1. Calm /\ Undisturbing
  BY CalmStep DEF Still
<1>2. Connected /\ (Single => BlankPages /\ Tidy /\ Held)
  BY <1>1 DEF Still
<1>3. Connected'
  BY <1>1, <1>2, ConnectedStep
<1>4. ASSUME Single'
      PROVE  (BlankPages /\ Tidy /\ Held)'
  <2>1. Single
    BY <1>1, <1>2, <1>4, SingleStep
  <2>2. BlankPages'
    BY <1>1, <1>2, <2>1, BlankStep
  <2>3. Tidy'
    BY <1>1, <1>2, <1>4, <2>1, TidyStep
  <2>4. Held'
    BY <1>1, <1>2, <1>4, <2>1, HeldStep
  <2> QED  BY <2>2, <2>3, <2>4
<1> QED  BY <1>3, <1>4

LEMMA StillShows ==
  ASSUME TypeInv, Still
  PROVE  UndisturbedContiguous
<1> SUFFICES ASSUME Calm, Single, NEW b \in Browsers
             PROVE  Whole(screen[b])
  BY DEF UndisturbedContiguous, MirrorContiguous, Calm, Single
<1>1. BlankPages /\ Held
  BY DEF Still
<1>2. CASE mode[b] = "closed" \/ attaches = 0
  <2>1. screen[b] = <<>>
    BY <1>1, <1>2 DEF BlankPages, Blank
  <2>2. Whole(<<>>)
    BY DEF Whole
  <2> QED  BY <2>1, <2>2
<1>3. CASE mode[b] # "closed" /\ attaches # 0
  <2>1. attaches > 0
    <3>1. attaches \in Nat
      BY DEF TypeInv, BridgeOK
    <3> QED  BY <1>3, <3>1
  <2>2. PICK G \in Seq(PieceSet) : \E K \in [Nat -> Nat] : Mirror(G, K)
    BY <1>1, <2>1 DEF Held
  <2>3. PICK K \in [Nat -> Nat] : Mirror(G, K)
    BY <2>2
  <2>4. Chained(screen[b])
    BY <1>3, <2>3 DEF Mirror, Drawn, DrawnOf, Drawing
  <2> QED  BY <2>4, PageTypes, ChainedWhole
<1> QED  BY <1>2, <1>3

\* As long as a terminal has been attached once, its bridge has lost the daemon
\* at most once, and no page and no device has been lost, a page shows a run of
\* whole frames, none missing: whatever the size of the frames, of the batches
\* and of the queues, and however often the outbox is full or the daemon gives
\* up old frames.  What the bridge has collected is one line of pieces, whose
\* cuts the chunks follow wherever they are; a page has read a beginning of it.
THEOREM UndisturbedAlways == Spec => []UndisturbedContiguous
<1>1. Init => Still
  BY StillInit
<1>2. TypeInv /\ Still /\ [Next]_vars => Still'
  BY StillStep
<1>3. TypeInv /\ Still => UndisturbedContiguous
  BY StillShows
<1> QED  BY <1>1, <1>2, <1>3, TypeAlways, PTL DEF Spec

=============================================================================
