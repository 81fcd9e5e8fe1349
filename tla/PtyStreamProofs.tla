--------------------------- MODULE PtyStreamProofs ---------------------------
(***************************************************************************)
(* Theorems about PtyStream, for any number of clients and terminals and   *)
(* any limits.                                                             *)
(***************************************************************************)
EXTENDS PtyStream, FiniteSetTheorems, SequenceTheorems, TLAPS

(***************************************************************************)
(* Sets of sequence numbers.                                               *)
(***************************************************************************)

\* A set of sequence numbers with an upper bound is finite, and so are its parts.
LEMMA BoundedFinite ==
  ASSUME NEW n \in Nat, NEW S \in SUBSET (1..n)
  PROVE  IsFiniteSet(S) /\ Cardinality(S) \in Nat
  BY FS_Interval, FS_Subset, FS_CardinalityType, 1 \in Int, n \in Int

\* Every non-empty set of naturals has a least element.
LEMMA LeastElement ==
  ASSUME NEW V \in SUBSET Nat, V # {}
  PROVE  \E m \in V : \A k \in V : m <= k
<1>1. PICK m \in V : \A k \in V : ~ (<<k, m>> \in OpToRel(<, Nat))
  BY WFMin, NatLessThanWellFounded
<1>2. \A k \in V : ~ (k < m)
  BY <1>1 DEF OpToRel
<1> QED  BY <1>2

\* Every rank from 1 to the size of the set is the rank of one of its elements.
LEMMA RankExists ==
  ASSUME NEW n \in Nat, NEW S \in SUBSET (1..n), NEW i \in 1..Cardinality(S)
  PROVE  \E s \in S : Cardinality(UpTo(S, s)) = i
<1> DEFINE V == {k \in Nat : i <= Cardinality(UpTo(S, k))}
<1>1. \A k \in Nat : /\ UpTo(S, k) \in SUBSET (1..n)
                     /\ IsFiniteSet(UpTo(S, k))
                     /\ Cardinality(UpTo(S, k)) \in Nat
  BY BoundedFinite DEF UpTo
<1>2. V # {}
  <2>1. \A r \in S : r \in 1..n /\ r <= n
    OBVIOUS
  <2>2. UpTo(S, n) = S
    BY <2>1, Zenon DEF UpTo
  <2> QED  BY <2>2, <1>1
<1>3. PICK m \in V : \A k \in V : m <= k
  <2> HIDE DEF V
  <2>1. V \in SUBSET Nat
    BY DEF V
  <2> QED  BY <1>2, <2>1, LeastElement
<1>4. m \in Nat /\ i <= Cardinality(UpTo(S, m))
  BY <1>3
<1>5. m # 0
  <2>1. \A r \in S : ~ (r <= 0)
    OBVIOUS
  <2>2. UpTo(S, 0) = {}
    BY <2>1, Zenon DEF UpTo
  <2> QED  BY <2>2, <1>4, FS_EmptySet
<1>6. m - 1 \in Nat /\ Cardinality(UpTo(S, m - 1)) < i
  BY <1>1, <1>3, <1>4, <1>5
<1>7. m \in S
  <2>1. \A r \in S : r # m => (r <= m <=> r <= m - 1)
    BY <1>4
  <2>2. m \notin S => UpTo(S, m) = UpTo(S, m - 1)
    BY <2>1, Zenon DEF UpTo
  <2> QED  BY <2>2, <1>4, <1>6, <1>1
<1>8. UpTo(S, m) = UpTo(S, m - 1) \cup {m} /\ m \notin UpTo(S, m - 1)
  <2>1. \A r \in S : r <= m <=> (r = m \/ r <= m - 1)
    BY <1>4
  <2>2. m <= m /\ ~ (m <= m - 1)
    BY <1>4
  <2> QED  BY <2>1, <2>2, <1>7, Zenon DEF UpTo
<1>9. Cardinality(UpTo(S, m)) = Cardinality(UpTo(S, m - 1)) + 1
  BY <1>1, <1>6, <1>8, FS_AddElement
<1> QED  BY <1>1, <1>4, <1>6, <1>7, <1>9

\* Sorted lists elements of the set, and as many as it has.
LEMMA SortedType ==
  ASSUME NEW n \in Nat, NEW S \in SUBSET (1..n)
  PROVE  Sorted(S) \in Seq(S)
<1>1. Cardinality(S) \in Nat
  BY BoundedFinite
<1>2. \A i \in 1..Cardinality(S) :
        (CHOOSE s \in S : Cardinality(UpTo(S, s)) = i) \in S
  BY RankExists
<1>3. Sorted(S) \in [1..Cardinality(S) -> S]
  BY <1>2 DEF Sorted
<1> QED  BY <1>1, <1>3, SeqDef

(***************************************************************************)
(* Type correctness.                                                       *)
(***************************************************************************)

LEMMA FrameTypes ==
  \A s \in Nat : /\ ReplayFrame(s) \in Frames /\ OutputFrame(s) \in Frames
                /\ AttachedFrame(s) \in Frames /\ ResetFrame \in Frames
<1>1. \A s \in Nat : <<s>> \in Seq(Nat) /\ <<>> \in Seq(Nat)
  OBVIOUS
<1> QED  BY <1>1 DEF ReplayFrame, OutputFrame, AttachedFrame, ResetFrame, Frames

LEMMA RequestTypes ==
  \A s \in Nat : /\ AttachRequest(s) \in Requests /\ AckRequest(s) \in Requests
                /\ \A b \in Seq(Nat), l \in SUBSET Nat : CheckpointRequest(s, b, l) \in Requests
<1>1. <<>> \in Seq(Nat)
  OBVIOUS
<1> QED  BY <1>1 DEF AttachRequest, AckRequest, CheckpointRequest, Requests

\* The answer to an attach is made of frames.
LEMMA AttachedFramesType ==
  ASSUME TypeOK, NEW after \in Nat
  PROVE  AttachedFrames(after) \in Seq(Frames)
<1> DEFINE wanted(s) == ReplayReset(after) \/ s > after
           S == {s \in retained : wanted(s)}
           cp == IF checkpoint # NoCheckpoint /\ wanted(checkpoint.seq)
                   THEN <<[kind |-> "replay", seq |-> checkpoint.seq, body |-> checkpoint.body]>>
                   ELSE <<>>
           entries == [i \in DOMAIN Sorted(S) |-> ReplayFrame(Sorted(S)[i])]
<1>1. LatestSeq \in Nat /\ retained \subseteq 1..LatestSeq
  BY DEF TypeOK, SessionTypeOK, LatestSeq
<1>2. Sorted(S) \in Seq(Nat)
  <2>0. S \subseteq retained
    BY Zenon
  <2>1. S \in SUBSET (1..LatestSeq) /\ S \subseteq Nat
    <3> HIDE DEF S
    <3> QED  BY <1>1, <2>0
  <2> HIDE DEF S
  <2>2. Sorted(S) \in Seq(S)
    BY <1>1, <2>1, SortedType
  <2> QED  BY <2>1, <2>2, SeqMonotonic
<1>3. entries \in Seq(Frames)
  <2> HIDE DEF S
  <2>1. /\ DOMAIN Sorted(S) = 1..Len(Sorted(S)) /\ Len(Sorted(S)) \in Nat
        /\ \A i \in 1..Len(Sorted(S)) : Sorted(S)[i] \in Nat
    BY <1>2
  <2>2. entries \in [1..Len(Sorted(S)) -> Frames]
    BY <2>1, FrameTypes
  <2> QED  BY <2>1, <2>2, SeqDef
<1>4. cp \in Seq(Frames)
  <2>1. CASE checkpoint # NoCheckpoint /\ wanted(checkpoint.seq)
    <3>1. checkpoint.seq \in Nat /\ checkpoint.body \in Seq(Nat)
      BY <2>1 DEF TypeOK, SessionTypeOK, LatestSeq
    <3>2. [kind |-> "replay", seq |-> checkpoint.seq, body |-> checkpoint.body] \in Frames
      BY <3>1 DEF Frames
    <3> QED  BY <3>2, <2>1
  <2>2. CASE ~ (checkpoint # NoCheckpoint /\ wanted(checkpoint.seq))
    BY <2>2
  <2> QED  BY <2>1, <2>2
<1>5. ReplayEntries(after) \in Seq(Frames)
  <2>1. ReplayEntries(after) = cp \o entries
    BY DEF ReplayEntries
  <2> HIDE DEF cp, entries
  <2> QED  BY <1>3, <1>4, <2>1
<1>6. (IF ReplayReset(after) THEN <<ResetFrame>> ELSE <<>>) \in Seq(Frames)
  BY FrameTypes
<1>7. <<AttachedFrame(LatestSeq)>> \in Seq(Frames)
  BY FrameTypes, <1>1
<1> QED  BY <1>5, <1>6, <1>7 DEF AttachedFrames

LEMMA HeadFrame ==
  ASSUME NEW q \in Seq(Frames), q # <<>>
  PROVE  /\ Head(q) \in Frames /\ Tail(q) \in Seq(Frames)
         /\ Head(q).seq \in Nat /\ Head(q).body \in Seq(Nat)
<1>1. Head(q) \in Frames /\ Tail(q) \in Seq(Frames)
  BY HeadTailProperties
<1> QED  BY <1>1 DEF Frames

LEMMA HeadRequest ==
  ASSUME NEW q \in Seq(Requests), q # <<>>
  PROVE  /\ Head(q) \in Requests /\ Tail(q) \in Seq(Requests)
         /\ Head(q).seq \in Nat /\ Head(q).body \in Seq(Nat) /\ Head(q).late \in SUBSET Nat
<1>1. Head(q) \in Requests /\ Tail(q) \in Seq(Requests)
  BY HeadTailProperties
<1> QED  BY <1>1 DEF Requests

\* Closing connections leaves every handle and channel well typed.
LEMMA CloseWritersTypes ==
  ASSUME HandlesTypeOK, ChannelsTypeOK, NEW S \in SUBSET Clients,
         NEW state \in {"down", "closing"}, CloseWriters(S, state)
  PROVE  /\ attached' \in [Clients -> BOOLEAN] /\ attaching' \in [Clients -> BOOLEAN]
         /\ lastAcked' \in [Clients -> Nat]
         /\ reply' \in [Clients -> Seq(Frames)] /\ requests' \in [Clients -> Seq(Requests)]
         /\ link' \in [Clients -> {"down", "connected", "up", "closing"}]
<1> USE DEF CloseWriters, Override
<1>1. attached' \in [Clients -> BOOLEAN] /\ attaching' \in [Clients -> BOOLEAN]
  BY DEF HandlesTypeOK
<1>2. lastAcked' \in [Clients -> Nat]
  BY DEF HandlesTypeOK
<1>3. reply' \in [Clients -> Seq(Frames)] /\ requests' \in [Clients -> Seq(Requests)]
  BY DEF ChannelsTypeOK
<1>4. link' \in [Clients -> {"down", "connected", "up", "closing"}]
  BY DEF ChannelsTypeOK
<1> QED  BY <1>1, <1>2, <1>3, <1>4

LEMMA ClearFlowTypes ==
  ASSUME TypeOK, NEW c \in Clients, ClearFlow(c)
  PROVE  /\ held' \in [Clients -> Seq(Frames)] /\ out' \in [Clients -> Seq(Frames)]
         /\ unack' \in [Clients -> Nat] /\ paused' \in [Clients -> BOOLEAN]
         /\ lastSent' \in [Clients -> 0..LatestSeq]
<1>1. held' \in [Clients -> Seq(Frames)] /\ out' \in [Clients -> Seq(Frames)]
  BY DEF ClearFlow, TypeOK, ChannelsTypeOK
<1>2. unack' \in [Clients -> Nat] /\ paused' \in [Clients -> BOOLEAN]
  BY DEF ClearFlow, TypeOK, HandlesTypeOK
<1>3. lastSent' \in [Clients -> 0..LatestSeq]
  BY DEF ClearFlow, TypeOK, HandlesTypeOK, SessionTypeOK, LatestSeq
<1> QED  BY <1>1, <1>2, <1>3

LEMMA TypeInit == Init => TypeOK
<1> SUFFICES ASSUME Init PROVE TypeOK
  OBVIOUS
<1> USE DEF Init
<1>1. SessionTypeOK /\ drops \in [Clients -> Nat]
  BY DEF SessionTypeOK, LatestSeq
<1>2. HandlesTypeOK
  BY ClientsAssumption DEF HandlesTypeOK, LatestSeq
<1>3. ChannelsTypeOK
  BY DEF ChannelsTypeOK
<1>4. ViewersTypeOK
  BY DEF ViewersTypeOK, NoSnapshot, Snapshots
<1> QED  BY <1>1, <1>2, <1>3, <1>4 DEF TypeOK

LEMMA TypeEmit ==
  ASSUME TypeOK, Emit
  PROVE  TypeOK'
<1> DEFINE holding == {c \in Clients : attached[c] /\ attaching[c]}
           live == {c \in Clients : attached[c] /\ ~attaching[c] /\ ~paused[c]}
           sending == {c \in live : unack[c] < High}
           full == {c \in holding : Len(held[c]) >= QueueMax}
                     \cup {c \in sending : LiveQueued(c) >= QueueMax}
           taking == (holding \cup sending) \ full
<1>0. /\ nextSeq' = nextSeq + 1 /\ nextSeq \in Nat /\ OutputFrame(nextSeq) \in Frames
      /\ nextSeq \in 0..LatestSeq' /\ 0 \in 0..LatestSeq'
      /\ \A n \in 0..LatestSeq : n \in 0..LatestSeq'
  BY FrameTypes DEF Emit, TypeOK, SessionTypeOK, LatestSeq
<1>1. CloseWriters(full, "closing")
  BY DEF Emit
<1>2. full \in SUBSET Clients
  <2>1. holding \subseteq Clients /\ live \subseteq Clients /\ sending \subseteq live
    BY Zenon
  <2> HIDE DEF holding, live, sending
  <2>2. full \subseteq holding \cup sending
    BY Zenon
  <2> HIDE DEF full
  <2> QED  BY <2>1, <2>2
<1>3. SessionTypeOK' /\ drops' \in [Clients -> Nat]
  <2>1. retained' \subseteq retained \cup {nextSeq} /\ outputs' = outputs \cup {nextSeq}
    BY Zenon DEF Emit, PushOutput, Newest
  <2>2. checkpoint' = checkpoint /\ drops' = drops
    BY DEF Emit
  <2> QED  BY <1>0, <2>1, <2>2 DEF TypeOK, SessionTypeOK, LatestSeq
<1>4. HandlesTypeOK'
  <2>1. unack' \in [Clients -> Nat]
    BY DEF Emit, TypeOK, HandlesTypeOK
  <2>2. lastSent' \in [Clients -> 0..LatestSeq']
    BY <1>0 DEF Emit, TypeOK, HandlesTypeOK
  <2>3. paused' \in [Clients -> BOOLEAN]
    BY Zenon DEF Emit
  <2>4. flushing' = flushing
    BY DEF Emit
  <2> HIDE DEF full
  <2> QED  BY <1>1, <1>2, <2>1, <2>2, <2>3, <2>4, CloseWritersTypes DEF TypeOK, HandlesTypeOK
<1>5. ChannelsTypeOK'
  <2>1. held' \in [Clients -> Seq(Frames)]
    BY <1>0 DEF Emit, TypeOK, ChannelsTypeOK
  <2>2. out' \in [Clients -> Seq(Frames)]
    BY <1>0 DEF Emit, TypeOK, ChannelsTypeOK
  <2> HIDE DEF full
  <2> QED  BY <1>1, <1>2, <2>1, <2>2, CloseWritersTypes DEF TypeOK, ChannelsTypeOK
<1>6. ViewersTypeOK'
  BY DEF Emit, viewers, TypeOK, ViewersTypeOK
<1> QED  BY <1>3, <1>4, <1>5, <1>6 DEF TypeOK

LEMMA TypeResize ==
  ASSUME TypeOK, Resize
  PROVE  TypeOK'
<1> USE DEF Resize, session, handles, viewers
<1>1. SessionTypeOK' /\ drops' \in [Clients -> Nat]
  <2>1. retained' \subseteq retained \cup {nextSeq} /\ outputs' = outputs
    BY Zenon
  <2>2. nextSeq' = nextSeq + 1 /\ checkpoint' = checkpoint /\ drops' = drops
    OBVIOUS
  <2> HIDE DEF Resize
  <2> QED  BY <2>1, <2>2 DEF TypeOK, SessionTypeOK, LatestSeq
<1>2. HandlesTypeOK'
  BY DEF TypeOK, SessionTypeOK, HandlesTypeOK, LatestSeq
<1>3. ChannelsTypeOK'
  BY DEF TypeOK, ChannelsTypeOK
<1>4. ViewersTypeOK'
  BY DEF TypeOK, ViewersTypeOK
<1> QED  BY <1>1, <1>2, <1>3, <1>4 DEF TypeOK

LEMMA TypeHandleAttach ==
  ASSUME TypeOK, NEW c \in Clients, HandleAttach(c)
  PROVE  TypeOK'
<1> USE DEF HandleAttach, session, handles, viewers, Handles, PopRequest
<1>1. SessionTypeOK' /\ drops' \in [Clients -> Nat]
  BY DEF TypeOK, SessionTypeOK, LatestSeq
<1>2. HandlesTypeOK'
  BY DEF TypeOK, SessionTypeOK, HandlesTypeOK, LatestSeq
<1>3. ChannelsTypeOK'
  <2>1. requests[c] \in Seq(Requests) /\ requests[c] # <<>>
    BY DEF TypeOK, ChannelsTypeOK
  <2>2. AttachedFrames(Head(requests[c]).seq) \in Seq(Frames)
    BY <2>1, HeadRequest, AttachedFramesType
  <2>3. reply' \in [Clients -> Seq(Frames)]
    BY <2>2 DEF TypeOK, ChannelsTypeOK
  <2>4. requests' \in [Clients -> Seq(Requests)]
    BY <2>1, HeadRequest DEF TypeOK, ChannelsTypeOK
  <2> QED  BY <2>3, <2>4 DEF TypeOK, ChannelsTypeOK
<1>4. ViewersTypeOK'
  BY DEF TypeOK, ViewersTypeOK
<1> QED  BY <1>1, <1>2, <1>3, <1>4 DEF TypeOK

LEMMA TypeAttachReply ==
  ASSUME TypeOK, NEW c \in Clients, AttachReply(c)
  PROVE  TypeOK'
<1> USE DEF AttachReply, session, handles, viewers
<1>1. SessionTypeOK' /\ drops' \in [Clients -> Nat]
  BY DEF TypeOK, SessionTypeOK, LatestSeq
<1>2. HandlesTypeOK'
  BY DEF TypeOK, SessionTypeOK, HandlesTypeOK, LatestSeq
<1>3. ChannelsTypeOK'
  BY DEF TypeOK, ChannelsTypeOK
<1>4. ViewersTypeOK'
  BY DEF TypeOK, ViewersTypeOK
<1> QED  BY <1>1, <1>2, <1>3, <1>4 DEF TypeOK

LEMMA TypeCompleteAttach ==
  ASSUME TypeOK, NEW c \in Clients, CompleteAttach(c)
  PROVE  TypeOK'
<1> USE DEF CompleteAttach, session, handles, viewers
<1>1. SessionTypeOK' /\ drops' \in [Clients -> Nat]
  BY DEF TypeOK, SessionTypeOK, LatestSeq
<1>2. HandlesTypeOK'
  <2>1. CASE CloseWriters({c}, "closing") /\ ClearFlow(c)
    BY <2>1, CloseWritersTypes, ClearFlowTypes DEF TypeOK, HandlesTypeOK, LatestSeq
  <2>2. CASE ~ (CloseWriters({c}, "closing") /\ ClearFlow(c))
    BY <2>2 DEF TypeOK, HandlesTypeOK, LatestSeq
  <2> QED  BY <2>1, <2>2
<1>3. ChannelsTypeOK'
  <2>1. CASE CloseWriters({c}, "closing") /\ ClearFlow(c)
    BY <2>1, CloseWritersTypes, ClearFlowTypes DEF TypeOK, ChannelsTypeOK
  <2>2. CASE ~ (CloseWriters({c}, "closing") /\ ClearFlow(c))
    <3>1. out[c] \o held[c] \in Seq(Frames) /\ <<>> \in Seq(Frames)
      BY ConcatProperties DEF TypeOK, ChannelsTypeOK
    <3>2. /\ out' = [out EXCEPT ![c] = @ \o held[c]]
          /\ held' = [held EXCEPT ![c] = <<>>]
          /\ UNCHANGED <<reply, requests, link>>
      BY <2>2
    <3>3. ChannelsTypeOK
      BY DEF TypeOK
    <3>4. out' \in [Clients -> Seq(Frames)] /\ held' \in [Clients -> Seq(Frames)]
      BY <3>1, <3>2, <3>3 DEF ChannelsTypeOK
    <3> QED  BY <3>2, <3>3, <3>4 DEF ChannelsTypeOK
  <2> QED  BY <2>1, <2>2
<1>4. ViewersTypeOK'
  BY DEF TypeOK, ViewersTypeOK
<1> QED  BY <1>1, <1>2, <1>3, <1>4 DEF TypeOK

LEMMA TypeHandleAck ==
  ASSUME TypeOK, NEW c \in Clients, HandleAck(c)
  PROVE  TypeOK'
<1> USE DEF HandleAck, session, handles, viewers
<1>1. SessionTypeOK' /\ drops' \in [Clients -> Nat]
  BY DEF TypeOK, SessionTypeOK, LatestSeq
<1>0. /\ requests[c] \in Seq(Requests) /\ requests[c] # <<>>
      /\ Head(requests[c]).seq \in Nat /\ Tail(requests[c]) \in Seq(Requests)
  BY HeadRequest DEF Handles, TypeOK, ChannelsTypeOK
<1>2. HandlesTypeOK'
  <2>1. CASE CloseWriters({c}, "closing") /\ ClearFlow(c) /\ UNCHANGED flushing
    BY <2>1, CloseWritersTypes, ClearFlowTypes DEF TypeOK, HandlesTypeOK, LatestSeq
  <2>2. CASE UNCHANGED <<flushing, handles, out, link>>
    BY <2>2 DEF TypeOK, HandlesTypeOK, LatestSeq
  <2>3. CASE /\ unack' = [unack EXCEPT ![c] = Remaining(c)]
             /\ lastAcked' = [lastAcked EXCEPT ![c] = Head(requests[c]).seq]
             /\ flushing' = IF Reopens(c) THEN c ELSE Nobody
             /\ UNCHANGED <<attached, attaching, held, paused, lastSent, reply, out, link>>
    <3>1. Remaining(c) \in Nat
      BY DEF TypeOK, HandlesTypeOK, Remaining
    <3>2. unack' \in [Clients -> Nat] /\ lastAcked' \in [Clients -> Nat]
      BY <1>0, <2>3, <3>1 DEF TypeOK, HandlesTypeOK
    <3> QED  BY <2>3, <3>2 DEF TypeOK, HandlesTypeOK, LatestSeq
  <2> QED  BY <2>1, <2>2, <2>3
<1>3. ChannelsTypeOK'
  <2>1. CASE CloseWriters({c}, "closing") /\ ClearFlow(c)
    BY <2>1, CloseWritersTypes, ClearFlowTypes DEF TypeOK, ChannelsTypeOK
  <2>2. CASE PopRequest(c) /\ UNCHANGED <<held, reply, out, link>>
    BY <1>0, <2>2 DEF PopRequest, TypeOK, ChannelsTypeOK
  <2> QED  BY <2>1, <2>2
<1>4. ViewersTypeOK'
  BY DEF TypeOK, ViewersTypeOK
<1> QED  BY <1>1, <1>2, <1>3, <1>4 DEF TypeOK

LEMMA TypeFlushSend ==
  ASSUME TypeOK, NEW c \in Clients, FlushSend(c)
  PROVE  TypeOK'
<1> USE DEF FlushSend, session, handles, viewers
<1>1. SessionTypeOK' /\ drops' \in [Clients -> Nat]
  BY DEF TypeOK, SessionTypeOK, LatestSeq
<1>2. ViewersTypeOK'
  BY DEF TypeOK, ViewersTypeOK
<1>3. CASE CloseWriters({c}, "closing") /\ ClearFlow(c) /\ flushing' = Nobody
  <2>1. HandlesTypeOK'
    BY <1>3, CloseWritersTypes, ClearFlowTypes DEF TypeOK, HandlesTypeOK, LatestSeq
  <2>2. ChannelsTypeOK'
    BY <1>3, CloseWritersTypes, ClearFlowTypes DEF TypeOK, ChannelsTypeOK
  <2> QED  BY <1>1, <1>2, <2>1, <2>2 DEF TypeOK
<1>4. CASE /\ \E s \in MissingOutput(c) :
                /\ out' = [out EXCEPT ![c] = Append(@, OutputFrame(s))]
                /\ lastSent' = [lastSent EXCEPT ![c] = s]
           /\ unack' = [unack EXCEPT ![c] = @ + 1]
           /\ UNCHANGED <<flushing, attached, attaching, held, paused, lastAcked, reply, link,
                          requests>>
  <2>1. PICK s \in MissingOutput(c) :
                /\ out' = [out EXCEPT ![c] = Append(@, OutputFrame(s))]
                /\ lastSent' = [lastSent EXCEPT ![c] = s]
    BY <1>4
  <2>2. s \in Nat /\ s \in 0..LatestSeq
    <3>1. s \in outputs
      BY <2>1 DEF MissingOutput
    <3> QED  BY <3>1 DEF TypeOK, SessionTypeOK, LatestSeq
  <2>3. OutputFrame(s) \in Frames
    BY <2>2, FrameTypes
  <2>4. out' \in [Clients -> Seq(Frames)] /\ lastSent' \in [Clients -> 0..LatestSeq]
    BY <2>1, <2>2, <2>3 DEF TypeOK, ChannelsTypeOK, HandlesTypeOK
  <2>5. unack' \in [Clients -> Nat]
    BY <1>4 DEF TypeOK, HandlesTypeOK
  <2>6. HandlesTypeOK'
    BY <1>4, <2>4, <2>5 DEF TypeOK, HandlesTypeOK, LatestSeq
  <2>7. ChannelsTypeOK'
    BY <1>4, <2>4 DEF TypeOK, ChannelsTypeOK
  <2> QED  BY <1>1, <1>2, <2>6, <2>7 DEF TypeOK
<1> QED  BY <1>3, <1>4

LEMMA TypeFlushEnd ==
  ASSUME TypeOK, NEW c \in Clients, FlushEnd(c)
  PROVE  TypeOK'
<1> USE DEF FlushEnd, session, handles, viewers
<1>1. SessionTypeOK' /\ drops' \in [Clients -> Nat]
  BY DEF TypeOK, SessionTypeOK, LatestSeq
<1>2. HandlesTypeOK'
  BY ClientsAssumption DEF TypeOK, SessionTypeOK, HandlesTypeOK, LatestSeq
<1>3. ChannelsTypeOK'
  BY DEF TypeOK, ChannelsTypeOK
<1>4. ViewersTypeOK'
  BY DEF TypeOK, ViewersTypeOK
<1> QED  BY <1>1, <1>2, <1>3, <1>4 DEF TypeOK

LEMMA TypeHandleCheckpoint ==
  ASSUME TypeOK, NEW c \in Clients, HandleCheckpoint(c)
  PROVE  TypeOK'
<1> USE DEF HandleCheckpoint, session, handles, viewers
<1>0. /\ requests[c] \in Seq(Requests) /\ requests[c] # <<>>
      /\ Head(requests[c]).seq \in Nat /\ Head(requests[c]).body \in Seq(Nat)
      /\ Head(requests[c]).late \in SUBSET Nat /\ Tail(requests[c]) \in Seq(Requests)
  BY HeadRequest DEF Handles, TypeOK, ChannelsTypeOK
<1>1. SessionTypeOK' /\ drops' \in [Clients -> Nat]
  <2>1. CASE UNCHANGED <<checkpoint, retained>>
    BY <2>1 DEF TypeOK, SessionTypeOK, LatestSeq
  <2>2. CASE /\ Head(requests[c]).seq <= LatestSeq
             /\ checkpoint' = [seq |-> Head(requests[c]).seq, body |-> Head(requests[c]).body,
                                late |-> Head(requests[c]).late]
             /\ retained' = Uncovered(Head(requests[c]).seq)
    <3>1. checkpoint' \in [seq : 0..LatestSeq, body : Seq(Nat), late : SUBSET Nat]
      BY <1>0, <2>2 DEF TypeOK, SessionTypeOK, LatestSeq
    <3>2. retained' \subseteq retained
      BY <2>2, Zenon DEF Uncovered
    <3> QED  BY <3>1, <3>2 DEF TypeOK, SessionTypeOK, LatestSeq
  <2> QED  BY <2>1, <2>2
<1>2. HandlesTypeOK'
  <2>1. CASE CloseWriters({c}, "closing") /\ ClearFlow(c)
    BY <2>1, CloseWritersTypes, ClearFlowTypes DEF TypeOK, HandlesTypeOK, LatestSeq
  <2>2. CASE UNCHANGED handles
    BY <2>2 DEF TypeOK, HandlesTypeOK, LatestSeq
  <2> QED  BY <2>1, <2>2
<1>3. ChannelsTypeOK'
  <2>1. CASE CloseWriters({c}, "closing") /\ ClearFlow(c)
    BY <2>1, CloseWritersTypes, ClearFlowTypes DEF TypeOK, ChannelsTypeOK
  <2>2. CASE PopRequest(c) /\ UNCHANGED <<handles, out, link>>
    BY <1>0, <2>2 DEF PopRequest, TypeOK, ChannelsTypeOK
  <2> QED  BY <2>1, <2>2
<1>4. ViewersTypeOK'
  BY DEF TypeOK, ViewersTypeOK
<1> QED  BY <1>1, <1>2, <1>3, <1>4 DEF TypeOK

LEMMA TypeDeliver ==
  ASSUME TypeOK, NEW c \in Clients, Deliver(c)
  PROVE  TypeOK'
<1> USE DEF Deliver, session, handles, viewers
<1>0. /\ out[c] \in Seq(Frames) /\ Head(out[c]) \in Frames
      /\ Head(out[c]).seq \in Nat /\ Tail(out[c]) \in Seq(Frames)
  BY HeadFrame DEF TypeOK, ChannelsTypeOK
<1>1. SessionTypeOK' /\ drops' \in [Clients -> Nat]
  BY DEF TypeOK, SessionTypeOK, LatestSeq
<1>2. HandlesTypeOK'
  BY DEF TypeOK, SessionTypeOK, HandlesTypeOK, LatestSeq
<1>3. ChannelsTypeOK'
  BY <1>0 DEF TypeOK, ChannelsTypeOK
<1>4. ViewersTypeOK'
  <2>1. received' \in [Clients -> Nat]
    BY <1>0 DEF TypeOK, ViewersTypeOK
  <2>2. inbox' \in [Clients -> Seq(Frames)]
    BY <1>0 DEF TypeOK, ViewersTypeOK
  <2>3. rendered' \in [Clients -> Nat]
    BY <1>0 DEF TypeOK, ViewersTypeOK
  <2> QED  BY <2>1, <2>2, <2>3 DEF TypeOK, ViewersTypeOK
<1> QED  BY <1>1, <1>2, <1>3, <1>4 DEF TypeOK

LEMMA TypeCommit ==
  ASSUME TypeOK, NEW c \in Clients, Commit(c)
  PROVE  TypeOK'
<1> USE DEF Commit, session, handles, viewers
<1>0. /\ inbox[c] \in Seq(Frames) /\ Head(inbox[c]) \in Frames
      /\ Head(inbox[c]).seq \in Nat /\ Head(inbox[c]).body \in Seq(Nat)
      /\ Tail(inbox[c]) \in Seq(Frames)
  BY HeadFrame DEF TypeOK, ViewersTypeOK
<1>1. SessionTypeOK' /\ drops' \in [Clients -> Nat]
  BY DEF TypeOK, SessionTypeOK, LatestSeq
<1>2. HandlesTypeOK'
  BY DEF TypeOK, SessionTypeOK, HandlesTypeOK, LatestSeq
<1>3. ChannelsTypeOK'
  <2>1. AckRequest(Head(inbox[c]).seq) \in Requests
    BY <1>0, RequestTypes
  <2>2. Append(requests[c], AckRequest(Head(inbox[c]).seq)) \in Seq(Requests)
    BY <2>1 DEF TypeOK, ChannelsTypeOK
  <2>3. requests' \in [Clients -> Seq(Requests)]
    BY <2>2 DEF TypeOK, ChannelsTypeOK
  <2> QED  BY <2>3 DEF TypeOK, ChannelsTypeOK
<1>4. ViewersTypeOK'
  <2>1. inbox' \in [Clients -> Seq(Frames)] /\ screen' \in [Clients -> Seq(Nat)]
    BY <1>0 DEF TypeOK, ViewersTypeOK
  <2>2. rendered' \in [Clients -> Nat] /\ committed' \in [Clients -> Nat]
    BY <1>0 DEF TypeOK, ViewersTypeOK
  <2>3. /\ snapshot' \in [Clients -> Snapshots]
        /\ \A d \in Clients : snapshot'[d].stage # "none" => CheckpointReplay /\ d \in Terminals
    BY <1>0 DEF TypeOK, ViewersTypeOK, Snapshots, LoopWrites, Idle
  <2> QED  BY <2>1, <2>2, <2>3 DEF TypeOK, ViewersTypeOK
<1> QED  BY <1>1, <1>2, <1>3, <1>4 DEF TypeOK

LEMMA TypeSerialize ==
  ASSUME TypeOK, NEW c \in Clients, Serialize(c)
  PROVE  TypeOK'
<1> USE DEF Serialize, session, handles, viewers
<1>1. SessionTypeOK' /\ drops' \in [Clients -> Nat]
  BY DEF TypeOK, SessionTypeOK, LatestSeq
<1>2. HandlesTypeOK'
  BY DEF TypeOK, SessionTypeOK, HandlesTypeOK, LatestSeq
<1>3. ChannelsTypeOK'
  BY DEF TypeOK, ChannelsTypeOK
<1>4. ViewersTypeOK'
  BY DEF TypeOK, ViewersTypeOK, Snapshots
<1> QED  BY <1>1, <1>2, <1>3, <1>4 DEF TypeOK

\* What was written behind the serialization is a set of chunks.
LEMMA LateType ==
  ASSUME TypeOK, NEW c \in Clients
  PROVE  Late(c) \in SUBSET Nat
<1>1. screen[c] \in Seq(Nat)
  BY DEF TypeOK, ViewersTypeOK
<1>2. \A j \in DOMAIN screen[c] : screen[c][j] \in Nat
  BY <1>1
<1> QED  BY <1>2 DEF Late

\* The checkpoint a client would upload now.
LEMMA UploadType ==
  ASSUME TypeOK, NEW c \in Clients
  PROVE  CheckpointRequest(rendered[c], snapshot[c].body, Late(c)) \in Requests
  BY RequestTypes, LateType DEF TypeOK, ViewersTypeOK, Snapshots

LEMMA TypeSendCheckpoint ==
  ASSUME TypeOK, NEW c \in Clients, SendCheckpoint(c)
  PROVE  TypeOK'
<1> USE DEF SendCheckpoint, session, handles, viewers
<1>1. SessionTypeOK' /\ drops' \in [Clients -> Nat]
  BY DEF TypeOK, SessionTypeOK, LatestSeq
<1>2. HandlesTypeOK'
  BY DEF TypeOK, SessionTypeOK, HandlesTypeOK, LatestSeq
<1>3. ChannelsTypeOK'
  <2>1. CheckpointRequest(rendered[c], snapshot[c].body, Late(c)) \in Requests
    BY UploadType
  <2>2. requests' \in [Clients -> Seq(Requests)]
    BY <2>1 DEF TypeOK, ChannelsTypeOK
  <2> QED  BY <2>2 DEF TypeOK, ChannelsTypeOK
<1>4. ViewersTypeOK'
  <2>1. NoSnapshot \in Snapshots /\ NoSnapshot.stage = "none"
    BY DEF NoSnapshot, Snapshots
  <2> QED  BY <2>1 DEF TypeOK, ViewersTypeOK
<1> QED  BY <1>1, <1>2, <1>3, <1>4 DEF TypeOK

LEMMA TypeDrop ==
  ASSUME TypeOK, NEW c \in Clients, Drop(c)
  PROVE  TypeOK'
<1> USE DEF Drop, session, handles, viewers
<1>1. SessionTypeOK' /\ drops' \in [Clients -> Nat]
  BY DEF TypeOK, SessionTypeOK, LatestSeq
<1>2. HandlesTypeOK'
  BY CloseWritersTypes, ClearFlowTypes DEF TypeOK, HandlesTypeOK, LatestSeq
<1>3. ChannelsTypeOK'
  BY CloseWritersTypes, ClearFlowTypes DEF TypeOK, ChannelsTypeOK
<1>4. ViewersTypeOK'
  BY DEF TypeOK, ViewersTypeOK
<1> QED  BY <1>1, <1>2, <1>3, <1>4 DEF TypeOK

LEMMA TypeNoticeClose ==
  ASSUME TypeOK, NEW c \in Clients, NoticeClose(c)
  PROVE  TypeOK'
<1> USE DEF NoticeClose, session, handles, viewers
<1>1. SessionTypeOK' /\ drops' \in [Clients -> Nat]
  BY DEF TypeOK, SessionTypeOK, LatestSeq
<1>2. HandlesTypeOK'
  BY DEF TypeOK, SessionTypeOK, HandlesTypeOK, LatestSeq
<1>3. ChannelsTypeOK'
  BY DEF TypeOK, ChannelsTypeOK
<1>4. ViewersTypeOK'
  BY DEF TypeOK, ViewersTypeOK
<1> QED  BY <1>1, <1>2, <1>3, <1>4 DEF TypeOK

LEMMA TypeConnect ==
  ASSUME TypeOK, NEW c \in Clients, Connect(c)
  PROVE  TypeOK'
<1> USE DEF Connect, session, handles, viewers
<1>1. SessionTypeOK' /\ drops' \in [Clients -> Nat]
  BY DEF TypeOK, SessionTypeOK, LatestSeq
<1>2. HandlesTypeOK'
  BY DEF TypeOK, SessionTypeOK, HandlesTypeOK, LatestSeq
<1>3. ChannelsTypeOK'
  BY DEF TypeOK, ChannelsTypeOK
<1>4. ViewersTypeOK'
  BY DEF TypeOK, ViewersTypeOK
<1> QED  BY <1>1, <1>2, <1>3, <1>4 DEF TypeOK

LEMMA TypeSendAttach ==
  ASSUME TypeOK, NEW c \in Clients, SendAttach(c)
  PROVE  TypeOK'
<1> USE DEF SendAttach, session, handles, viewers
<1>1. SessionTypeOK' /\ drops' \in [Clients -> Nat]
  BY DEF TypeOK, SessionTypeOK, LatestSeq
<1>2. HandlesTypeOK'
  BY DEF TypeOK, SessionTypeOK, HandlesTypeOK, LatestSeq
<1>3. ChannelsTypeOK'
  <2>1. AttachRequest(committed[c]) \in Requests
    BY RequestTypes DEF TypeOK, ViewersTypeOK
  <2>2. requests' \in [Clients -> Seq(Requests)]
    BY <2>1 DEF TypeOK, ChannelsTypeOK
  <2> QED  BY <2>2 DEF TypeOK, ChannelsTypeOK
<1>4. ViewersTypeOK'
  BY DEF TypeOK, ViewersTypeOK
<1> QED  BY <1>1, <1>2, <1>3, <1>4 DEF TypeOK

\* Every step preserves the types.
LEMMA TypeStep ==
  ASSUME TypeOK, [Next]_vars
  PROVE  TypeOK'
<1>1. CASE Next
  BY <1>1, TypeEmit, TypeResize, TypeHandleAttach, TypeAttachReply, TypeCompleteAttach,
     TypeHandleAck, TypeFlushSend, TypeFlushEnd, TypeHandleCheckpoint, TypeDeliver, TypeCommit,
     TypeNoticeClose, TypeConnect, TypeSendAttach, TypeSerialize, TypeSendCheckpoint,
     TypeDrop
  DEF Next, DaemonStep, ClientStep, Checkpointing
<1>2. CASE UNCHANGED vars
  BY <1>2 DEF vars, session, handles, viewers, TypeOK, SessionTypeOK, HandlesTypeOK,
              ChannelsTypeOK, ViewersTypeOK, LatestSeq
<1> QED  BY <1>1, <1>2

\* Every variable keeps its type, and the daemon keeps only sequence numbers it
\* has given out, whatever the order of output, attaches, ACKs, checkpoints and
\* lost connections.
THEOREM TypeCorrect == Spec => []TypeOK
<1>1. Init => TypeOK
  BY TypeInit
<1>2. TypeOK /\ [Next]_vars => TypeOK'
  BY TypeStep
<1> QED  BY <1>1, <1>2, PTL DEF Spec

(***************************************************************************)
(* What the actions do to one client's handle.                             *)
(***************************************************************************)

\* What the daemon knows about the stream: the variables the safety invariants
\* are about.
stream == <<nextSeq, outputs, retained, checkpoint, flushing,
            attached, attaching, unack, paused, lastSent>>

\* The steps of the clients, and the queueing of an attach answer, leave it alone.
LEMMA QuietSteps ==
  ASSUME NEW c \in Clients,
         AttachReply(c) \/ ClientStep(c) \/ Checkpointing(c) \/ UNCHANGED vars
  PROVE  UNCHANGED stream
<1> USE DEF stream, session, handles, viewers
<1>1. CASE AttachReply(c)
  BY <1>1 DEF AttachReply
<1>2. CASE ClientStep(c)
  BY <1>2 DEF ClientStep, Deliver, Commit, NoticeClose, Connect, SendAttach
<1>3. CASE Checkpointing(c)
  BY <1>3 DEF Checkpointing, Serialize, SendCheckpoint
<1>4. CASE UNCHANGED vars
  BY <1>4 DEF vars
<1> QED  BY <1>1, <1>2, <1>3, <1>4

\* A closed client is detached; the handles of the others are as before.
LEMMA ClosedClient ==
  ASSUME TypeOK, NEW c \in Clients, NEW state, CloseWriters({c}, state), ClearFlow(c)
  PROVE  /\ ~attached'[c] /\ ~attaching'[c]
         /\ \A d \in Clients \ {c} :
              /\ attached'[d] = attached[d] /\ attaching'[d] = attaching[d]
              /\ unack'[d] = unack[d] /\ paused'[d] = paused[d] /\ lastSent'[d] = lastSent[d]
<1>1. ~attached'[c] /\ ~attaching'[c]
  BY DEF CloseWriters, Override
<1>2. \A d \in Clients \ {c} : attached'[d] = attached[d] /\ attaching'[d] = attaching[d]
  BY DEF CloseWriters, Override, TypeOK, HandlesTypeOK
<1>3. \A d \in Clients \ {c} :
         unack'[d] = unack[d] /\ paused'[d] = paused[d] /\ lastSent'[d] = lastSent[d]
  BY DEF ClearFlow, TypeOK, HandlesTypeOK
<1> QED  BY <1>1, <1>2, <1>3

\* One chunk of output, seen from one client.
LEMMA EmitClient ==
  ASSUME TypeOK, Emit, NEW d \in Clients, attached'[d]
  PROVE  /\ attached[d] /\ attaching'[d] = attaching[d]
         /\ \/ /\ attaching[d] \/ (~paused[d] /\ unack[d] < High)
               /\ unack'[d] = unack[d] + 1 /\ lastSent'[d] = nextSeq
               /\ paused'[d] <=> paused[d] \/ unack'[d] >= High
            \/ /\ ~attaching[d] /\ (paused[d] \/ unack[d] >= High)
               /\ unack'[d] = unack[d] /\ lastSent'[d] = lastSent[d]
               /\ paused'[d]
<1> DEFINE holding == {c \in Clients : attached[c] /\ attaching[c]}
           live == {c \in Clients : attached[c] /\ ~attaching[c] /\ ~paused[c]}
           sending == {c \in live : unack[c] < High}
           full == {c \in holding : Len(held[c]) >= QueueMax}
                     \cup {c \in sending : LiveQueued(c) >= QueueMax}
           taking == (holding \cup sending) \ full
<1>1. CloseWriters(full, "closing")
  BY DEF Emit
<1>2. /\ unack'[d] = IF d \in full THEN 0 ELSE IF d \in taking THEN unack[d] + 1 ELSE unack[d]
      /\ lastSent'[d] = IF d \in full THEN 0 ELSE IF d \in taking THEN nextSeq ELSE lastSent[d]
  BY DEF Emit
<1>3. paused'[d] <=> /\ d \notin full
                     /\ \/ paused[d]
                        \/ d \in taking /\ unack[d] + 1 >= High
                        \/ d \in live \ sending
  BY DEF Emit
<1>4. d \notin full /\ attached[d] /\ attaching'[d] = attaching[d]
  <2> HIDE DEF full
  <2> QED  BY <1>1 DEF CloseWriters, Override
<1>5. d \in taking <=> d \in holding \/ d \in sending
  <2> HIDE DEF full, holding, sending
  <2> QED  BY <1>4
<1>6. d \in holding <=> attaching[d]
  BY <1>4
<1>7. d \in live <=> ~attaching[d] /\ ~paused[d]
  BY <1>4
<1>8. d \in sending <=> d \in live /\ unack[d] < High
  <2> HIDE DEF live
  <2> QED  OBVIOUS
<1>9. unack[d] \in Nat /\ High \in Nat /\ paused[d] \in BOOLEAN /\ attaching[d] \in BOOLEAN
  BY LimitsAssumption DEF TypeOK, HandlesTypeOK
<1> HIDE DEF holding, live, sending, full, taking
<1> QED  BY <1>2, <1>3, <1>4, <1>5, <1>6, <1>7, <1>8, <1>9

(***************************************************************************)
(* No lost wake-up.                                                        *)
(***************************************************************************)

LEMMA PausedOwesMoreStep ==
  ASSUME TypeOK, PausedOwesMore, [Next]_vars
  PROVE  PausedOwesMore'
<1> SUFFICES ASSUME NEW d \in Clients, attached'[d], paused'[d], flushing' # d
             PROVE  unack'[d] > Low
  BY DEF PausedOwesMore
<1> USE DEF session, handles, viewers
<1>0. /\ High \in Nat /\ Low \in Nat /\ Low < High /\ unack[d] \in Nat
      /\ attached[d] /\ paused[d] /\ flushing # d => unack[d] > Low
  BY LimitsAssumption DEF TypeOK, HandlesTypeOK, PausedOwesMore
<1>1. CASE Emit
  <2>1. flushing' = flushing
    BY <1>1 DEF Emit
  <2> QED  BY <1>0, <1>1, <2>1, EmitClient
<1>2. CASE Resize
  BY <1>0, <1>2 DEF Resize
<1>3. ASSUME NEW c \in Clients, HandleAttach(c)
      PROVE  unack'[d] > Low
  BY <1>0, <1>3 DEF HandleAttach, TypeOK, HandlesTypeOK
<1>4. ASSUME NEW c \in Clients, CompleteAttach(c)
      PROVE  unack'[d] > Low
  <2>1. CASE CloseWriters({c}, "closing") /\ ClearFlow(c)
    BY <1>0, <1>4, <2>1, ClosedClient DEF CompleteAttach
  <2>2. CASE ~ (CloseWriters({c}, "closing") /\ ClearFlow(c))
    BY <1>0, <1>4, <2>2 DEF CompleteAttach
  <2> QED  BY <2>1, <2>2
<1>5. ASSUME NEW c \in Clients, HandleAck(c)
      PROVE  unack'[d] > Low
  <2>0. flushing = Nobody /\ flushing # d
    BY <1>5, ClientsAssumption DEF HandleAck, Handles
  <2>1. CASE CloseWriters({c}, "closing") /\ ClearFlow(c)
    BY <1>0, <2>0, <2>1, ClosedClient
  <2>2. CASE UNCHANGED <<flushing, handles>>
    BY <1>0, <2>0, <2>2
  <2>3. CASE /\ unack' = [unack EXCEPT ![c] = Remaining(c)]
             /\ flushing' = IF Reopens(c) THEN c ELSE Nobody
             /\ UNCHANGED <<attached, paused>>
    <3>1. CASE d = c
      BY <1>0, <2>3, <3>1 DEF Reopens, Remaining, TypeOK, HandlesTypeOK
    <3>2. CASE d # c
      BY <1>0, <2>0, <2>3, <3>2 DEF TypeOK, HandlesTypeOK
    <3> QED  BY <3>1, <3>2
  <2> QED  BY <1>5, <2>1, <2>2, <2>3 DEF HandleAck
<1>6. ASSUME NEW c \in Clients, FlushSend(c)
      PROVE  unack'[d] > Low
  <2>1. CASE CloseWriters({c}, "closing") /\ ClearFlow(c)
    BY <1>0, <1>6, <2>1, ClosedClient DEF FlushSend
  <2>2. CASE /\ unack' = [unack EXCEPT ![c] = @ + 1]
             /\ UNCHANGED <<flushing, attached, paused>>
    BY <1>0, <1>6, <2>2 DEF FlushSend, TypeOK, HandlesTypeOK
  <2> QED  BY <1>6, <2>1, <2>2 DEF FlushSend
<1>7. ASSUME NEW c \in Clients, FlushEnd(c)
      PROVE  unack'[d] > Low
  BY <1>0, <1>7 DEF FlushEnd, TypeOK, HandlesTypeOK
<1>8. ASSUME NEW c \in Clients, HandleCheckpoint(c)
      PROVE  unack'[d] > Low
  <2>1. CASE CloseWriters({c}, "closing") /\ ClearFlow(c)
    BY <1>0, <1>8, <2>1, ClosedClient DEF HandleCheckpoint
  <2>2. CASE UNCHANGED handles
    BY <1>0, <1>8, <2>2 DEF HandleCheckpoint
  <2> QED  BY <1>8, <2>1, <2>2 DEF HandleCheckpoint
<1>9. ASSUME NEW c \in Clients, Drop(c)
      PROVE  unack'[d] > Low
  BY <1>0, <1>9, ClosedClient DEF Drop
<1>10. ASSUME UNCHANGED stream
       PROVE  unack'[d] > Low
  BY <1>0, <1>10 DEF stream
<1> QED
  BY <1>1, <1>2, <1>3, <1>4, <1>5, <1>6, <1>7, <1>8, <1>9, <1>10, QuietSteps
  DEF Next, DaemonStep

\* A paused client is never forgotten: whatever happens, it still owes ACKs
\* that will bring it to the low watermark, where acknowledge_output reopens
\* its window.
THEOREM NoLostWakeup == Spec => []PausedOwesMore
<1>1. Init => PausedOwesMore
  BY DEF Init, PausedOwesMore
<1>2. TypeOK /\ PausedOwesMore /\ [Next]_vars => PausedOwesMore'
  BY PausedOwesMoreStep
<1> QED  BY <1>1, <1>2, TypeCorrect, PTL DEF Spec

(***************************************************************************)
(* An unpaused client has been sent everything no checkpoint replaced.     *)
(***************************************************************************)

\* enforce_spool_cap keeps the newest frames: at least the last one, and none
\* without all that follow it.
LEMMA NewestKept ==
  ASSUME NEW n \in Nat, NEW S \in SUBSET (1..n), NEW k \in Nat \ {0}
  PROVE  /\ n \in S => n \in Newest(k, S)
         /\ \A s \in Newest(k, S), r \in S : s <= r => r \in Newest(k, S)
<1> DEFINE Above(s) == {r \in S : r > s}
<1>1. \A s \in S : /\ Above(s) \in SUBSET (1..n)
                   /\ IsFiniteSet(Above(s)) /\ Cardinality(Above(s)) \in Nat
  BY BoundedFinite
<1>2. ASSUME n \in S
      PROVE  n \in Newest(k, S)
  <2>1. \A r \in S : ~ (r > n)
    OBVIOUS
  <2>2. Above(n) = {}
    BY <2>1, Zenon
  <2>3. Cardinality(Above(n)) < k
    BY <2>2, FS_EmptySet
  <2> QED  BY <1>2, <2>3 DEF Newest
<1>3. ASSUME NEW s \in Newest(k, S), NEW r \in S, s <= r
      PROVE  r \in Newest(k, S)
  <2>1. s \in S /\ Cardinality(Above(s)) < k
    BY DEF Newest
  <2>2. \A q \in S : q > r => q > s
    BY <1>3, <2>1
  <2>3. Above(r) \in SUBSET Above(s)
    BY <2>2
  <2>4. Cardinality(Above(r)) <= Cardinality(Above(s))
    <3> HIDE DEF Above
    <3> QED  BY <1>1, <2>1, <2>3, FS_Subset
  <2>5. Cardinality(Above(r)) < k
    BY <1>1, <2>1, <2>4
  <2> QED  BY <2>5 DEF Newest
<1> QED  BY <1>2, <1>3

LEMMA OutputKeptStep ==
  ASSUME TypeOK, OutputKept, [Next]_vars
  PROVE  OutputKept'
<1> USE DEF session, handles, viewers
<1>0. /\ nextSeq \in Nat \ {0} /\ outputs \subseteq 1..nextSeq - 1
      /\ retained \subseteq 1..nextSeq - 1 /\ checkpoint.seq \in Int
  BY DEF TypeOK, SessionTypeOK, LatestSeq, NoCheckpoint
<1>1. CASE Emit
  <2> DEFINE S == retained \cup {nextSeq}
  <2>1. /\ outputs' = outputs \cup {nextSeq} /\ checkpoint' = checkpoint
        /\ retained' = Newest(Retain, S)
    BY <1>1 DEF Emit, PushOutput
  <2>2. S \in SUBSET (1..nextSeq) /\ nextSeq \in S
    BY <1>0
  <2>3. retained' \subseteq S
    BY <2>1, Zenon DEF Newest
  <2> HIDE DEF S
  <2>4. /\ nextSeq \in retained'
        /\ \A s \in retained', r \in S : s <= r => r \in retained'
    BY <1>0, <2>1, <2>2, NewestKept, LimitsAssumption
  <2>5. SUFFICES ASSUME NEW o \in outputs', ~ (o <= checkpoint.seq), o \notin retained'
                 PROVE  \A r \in retained' : o < r
    BY <2>1, <2>4 DEF OutputKept
  <2>6. o \in outputs /\ o < nextSeq /\ o \in Nat
    BY <1>0, <2>1, <2>4, <2>5
  <2>7. CASE o \in retained
    <3>1. o \in S
      BY <2>7 DEF S
    <3>2. \A r \in retained' : r \in Nat /\ ~ (r <= o)
      BY <2>2, <2>3, <2>4, <2>5, <3>1
    <3> QED  BY <2>6, <3>2
  <2>8. CASE \A r \in retained : o < r
    BY <2>3, <2>6, <2>8 DEF S
  <2> QED  BY <2>5, <2>6, <2>7, <2>8 DEF OutputKept
<1>2. CASE Resize
  <2>1. outputs' = outputs /\ checkpoint' = checkpoint
    BY <1>2 DEF Resize
  <2>2. /\ retained' \subseteq retained \cup {nextSeq} /\ nextSeq \in retained'
        /\ \A o \in outputs : o \in retained => o \in retained'
    BY <1>2, Zenon DEF Resize
  <2> QED  BY <1>0, <2>1, <2>2 DEF OutputKept
<1>3. ASSUME NEW c \in Clients, HandleCheckpoint(c)
      PROVE  OutputKept'
  <2>1. CASE UNCHANGED <<checkpoint, retained>>
    BY <1>3, <2>1 DEF HandleCheckpoint, OutputKept
  <2>2. CASE /\ checkpoint.seq < Head(requests[c]).seq
             /\ checkpoint' = [seq |-> Head(requests[c]).seq, body |-> Head(requests[c]).body,
                                late |-> Head(requests[c]).late]
             /\ retained' = Uncovered(Head(requests[c]).seq)
    <3> DEFINE n == Head(requests[c]).seq
    <3>1. n \in Nat
      BY <1>3, HeadRequest DEF HandleCheckpoint, Handles, TypeOK, ChannelsTypeOK
    <3>2. outputs' = outputs /\ checkpoint'.seq = n /\ checkpoint.seq < n
      BY <1>3, <2>2 DEF HandleCheckpoint
    <3>3. \A r : r \in retained' <=> r \in retained /\ r > n
      BY <2>2 DEF Uncovered
    <3> HIDE DEF n
    <3>4. SUFFICES ASSUME NEW o \in outputs, ~ (o <= n), o \notin retained'
                   PROVE  retained' # {} /\ \A r \in retained' : o < r
      BY <3>2 DEF OutputKept
    <3>5. o \in Nat /\ o \notin retained /\ ~ (o <= checkpoint.seq)
      BY <1>0, <3>1, <3>2, <3>3, <3>4
    <3>6. retained # {} /\ \A r \in retained : r \in Nat /\ o < r
      BY <1>0, <3>5 DEF OutputKept
    <3>7. PICK q \in retained : q > n
      BY <3>1, <3>4, <3>5, <3>6
    <3> QED  BY <3>3, <3>6, <3>7
  <2> QED  BY <1>3, <2>1, <2>2 DEF HandleCheckpoint
<1>4. CASE UNCHANGED <<outputs, retained, checkpoint>>
  BY <1>4 DEF OutputKept
<1>5. ASSUME NEW c \in Clients,
             HandleAttach(c) \/ CompleteAttach(c) \/ HandleAck(c) \/ FlushSend(c)
               \/ FlushEnd(c) \/ Drop(c)
      PROVE  UNCHANGED <<outputs, retained, checkpoint>>
  <2>1. CASE HandleAttach(c) \/ CompleteAttach(c)
    BY <2>1 DEF HandleAttach, CompleteAttach
  <2>2. CASE HandleAck(c)
    BY <2>2 DEF HandleAck
  <2>3. CASE FlushSend(c)
    BY <2>3 DEF FlushSend
  <2>4. CASE FlushEnd(c) \/ Drop(c)
    BY <2>4 DEF FlushEnd, Drop
  <2> QED  BY <1>5, <2>1, <2>2, <2>3, <2>4
<1>6. CASE UNCHANGED stream
  BY <1>4, <1>6 DEF stream
<1>7. ASSUME NEW c \in Clients, DaemonStep(c) \/ Drop(c)
      PROVE  OutputKept'
  <2>1. CASE HandleCheckpoint(c)
    BY <1>3, <2>1
  <2>2. CASE AttachReply(c)
    BY <1>6, <2>2, QuietSteps
  <2> QED  BY <1>4, <1>5, <1>7, <2>1, <2>2 DEF DaemonStep
<1>8. ASSUME NEW c \in Clients, ClientStep(c) \/ Checkpointing(c)
      PROVE  OutputKept'
  BY <1>6, <1>8, QuietSteps
<1>9. CASE UNCHANGED vars
  BY <1>9, <1>6 DEF vars, stream
<1>10. CASE Next
  BY <1>1, <1>2, <1>7, <1>8, <1>10 DEF Next
<1> QED  BY <1>9, <1>10

LEMMA FlushContinuesStep ==
  ASSUME TypeOK, FlushContinues, [Next]_vars
  PROVE  FlushContinues'
<1> USE DEF session, handles, viewers
<1>0. /\ retained \subseteq Nat /\ \A c \in Clients : lastSent[c] \in Nat
      /\ Nobody \notin Clients
  BY ClientsAssumption DEF TypeOK, SessionTypeOK, HandlesTypeOK, LatestSeq
<1>1. CASE flushing' = Nobody
  BY <1>0, <1>1 DEF FlushContinues
<1>2. ASSUME Emit \/ Resize \/ \E c \in Clients :
               HandleAttach(c) \/ CompleteAttach(c) \/ FlushEnd(c) \/ HandleCheckpoint(c) \/ Drop(c)
      PROVE  flushing' = Nobody
  <2>1. CASE Emit
    BY <2>1 DEF Emit
  <2>2. CASE Resize
    BY <2>2 DEF Resize
  <2>3. ASSUME NEW c \in Clients, HandleAttach(c) \/ CompleteAttach(c)
        PROVE  flushing' = Nobody
    BY <2>3 DEF HandleAttach, CompleteAttach, Handles
  <2>4. ASSUME NEW c \in Clients, HandleCheckpoint(c)
        PROVE  flushing' = Nobody
    BY <2>4 DEF HandleCheckpoint, Handles
  <2>5. ASSUME NEW c \in Clients, FlushEnd(c) \/ Drop(c)
        PROVE  flushing' = Nobody
    BY <2>5 DEF FlushEnd, Drop
  <2> QED  BY <1>2, <2>1, <2>2, <2>3, <2>4, <2>5
<1>3. ASSUME NEW c \in Clients, HandleAck(c), flushing' # Nobody
      PROVE  FlushContinues'
  <2>1. /\ flushing' = c /\ attached[c] /\ ~attaching[c] /\ paused[c] /\ ~Gap(c)
        /\ UNCHANGED <<attached, attaching, paused, lastSent, retained>>
    BY <1>3 DEF HandleAck, Handles, Counts, Reopens
  <2>2. retained # {} => \E q \in retained : q <= lastSent[c] + 1
    <3>1. lastSent[c] \in Nat /\ retained \subseteq Nat
      BY <1>0
    <3>2. ASSUME NEW s \in retained, \A q \in retained : ~(q <= lastSent[c] + 1)
          PROVE  Gap(c)
      <4>1. \A q \in Missing(c) : q > lastSent[c] + 1
        BY <3>1, <3>2 DEF Missing
      <4>2. s \in Nat /\ s > lastSent[c]
        BY <3>1, <3>2
      <4>3. s \in Missing(c)
        BY <3>2, <4>2 DEF Missing
      <4> QED  BY <4>1, <4>3 DEF Gap
    <3> QED  BY <2>1, <3>2
  <2> QED  BY <2>1, <2>2 DEF FlushContinues
<1>4. ASSUME NEW c \in Clients, FlushSend(c), flushing' # Nobody
      PROVE  FlushContinues'
  <2>1. /\ flushing = c /\ flushing' = c
        /\ UNCHANGED <<attached, attaching, paused, retained>>
    BY <1>4 DEF FlushSend
  <2>2. PICK s \in MissingOutput(c) : lastSent' = [lastSent EXCEPT ![c] = s]
    BY <1>4 DEF FlushSend
  <2>3. s \in Nat /\ lastSent[c] < s /\ lastSent'[c] = s
    BY <1>0, <2>2 DEF MissingOutput, Missing, TypeOK, HandlesTypeOK
  <2> QED  BY <1>0, <2>1, <2>3 DEF FlushContinues
<1>5. CASE UNCHANGED stream
  BY <1>5 DEF stream, FlushContinues
<1>6. ASSUME NEW c \in Clients, DaemonStep(c) \/ Drop(c)
      PROVE  FlushContinues'
  <2>1. CASE AttachReply(c)
    BY <1>5, <2>1, QuietSteps
  <2>2. CASE HandleAck(c) \/ FlushSend(c)
    BY <1>1, <1>3, <1>4, <2>2
  <2>3. CASE HandleAttach(c) \/ CompleteAttach(c) \/ FlushEnd(c) \/ HandleCheckpoint(c) \/ Drop(c)
    BY <1>1, <1>2, <2>3
  <2> QED  BY <1>6, <2>1, <2>2, <2>3 DEF DaemonStep
<1>7. CASE Emit \/ Resize
  BY <1>1, <1>2, <1>7
<1>8. ASSUME NEW c \in Clients, ClientStep(c) \/ Checkpointing(c)
      PROVE  FlushContinues'
  BY <1>5, <1>8, QuietSteps
<1>9. CASE UNCHANGED vars
  BY <1>9, <1>5 DEF vars, stream
<1>10. CASE Next
  BY <1>7, <1>6, <1>8, <1>10 DEF Next
<1> QED  BY <1>9, <1>10

\* The end of a flush: a client whose pause ends has been sent all that is
\* retained, and what is not retained is covered or older than what it was sent.
LEMMA FlushedClient ==
  ASSUME TypeOK, OutputKept, FlushContinues, NEW c \in Clients, flushing = c,
         MissingOutput(c) = {}, NEW o \in outputs
  PROVE  o <= lastSent[c] \/ lastSent[c] < checkpoint.seq
<1>0. /\ o \in Nat /\ lastSent[c] \in Nat /\ checkpoint.seq \in Int
      /\ retained \subseteq Nat
  BY DEF TypeOK, SessionTypeOK, HandlesTypeOK, LatestSeq, NoCheckpoint
<1>1. CASE o <= checkpoint.seq
  BY <1>0, <1>1
<1>2. CASE o \in retained
  BY <1>0, <1>2 DEF MissingOutput, Missing
<1>3. CASE retained # {} /\ \A r \in retained : o < r
  <2>1. PICK q \in retained : q <= lastSent[c] + 1
    BY <1>3 DEF FlushContinues
  <2> QED  BY <1>0, <1>3, <2>1
<1> QED  BY <1>1, <1>2, <1>3 DEF OutputKept

LEMMA SentOrSkippedStep ==
  ASSUME TypeOK, StreamInv, [Next]_vars
  PROVE  SentOrSkipped'
<1> SUFFICES ASSUME NEW d \in Clients, attached'[d], attaching'[d] \/ ~paused'[d],
                    NEW o \in outputs'
             PROVE  o <= lastSent'[d] \/ lastSent'[d] < checkpoint'.seq
  BY DEF SentOrSkipped
<1> DEFINE Goal == o <= lastSent'[d] \/ lastSent'[d] < checkpoint'.seq
<1> USE DEF session, handles, viewers
<1>0. /\ nextSeq \in Nat \ {0} /\ outputs \subseteq 1..nextSeq - 1
      /\ lastSent[d] \in 0..nextSeq - 1 /\ checkpoint.seq \in Int
      /\ attaching[d] \in BOOLEAN /\ paused[d] \in BOOLEAN
  BY DEF TypeOK, SessionTypeOK, HandlesTypeOK, LatestSeq, NoCheckpoint
<1>a. attached[d] /\ (attaching[d] \/ ~paused[d]) /\ o \in outputs
         => o <= lastSent[d] \/ lastSent[d] < checkpoint.seq
  BY DEF StreamInv, SentOrSkipped
<1>1. CASE Emit
  <2>0. outputs' = outputs \cup {nextSeq}
    BY <1>1 DEF Emit
  <2>1. o \in Nat /\ o <= nextSeq
    BY <1>0, <2>0
  <2>2. lastSent'[d] = nextSeq
    BY <1>0, <1>1, EmitClient
  <2> QED  BY <2>1, <2>2
<1>2. CASE Resize
  BY <1>a, <1>2 DEF Resize
<1>3. ASSUME NEW c \in Clients, HandleAttach(c)
      PROVE  Goal
  <2>0. UNCHANGED <<outputs, checkpoint>>
    BY <1>3 DEF HandleAttach
  <2>1. CASE d = c
    <3>1. lastSent'[d] = LatestSeq
      BY <1>3, <2>1 DEF HandleAttach, TypeOK, HandlesTypeOK
    <3> QED  BY <1>0, <2>0, <3>1 DEF LatestSeq
  <2>2. CASE d # c
    BY <1>a, <1>3, <2>0, <2>2 DEF HandleAttach, TypeOK, HandlesTypeOK
  <2> QED  BY <2>1, <2>2
<1>4. ASSUME NEW c \in Clients, CompleteAttach(c)
      PROVE  Goal
  <2>0. UNCHANGED <<outputs, checkpoint>> /\ attaching[c]
    BY <1>4 DEF CompleteAttach
  <2>1. CASE CloseWriters({c}, "closing") /\ ClearFlow(c)
    BY <1>a, <2>0, <2>1, ClosedClient
  <2>2. CASE /\ attaching' = [attaching EXCEPT ![c] = FALSE]
             /\ UNCHANGED <<attached, paused, lastSent>>
    BY <1>a, <2>0, <2>2 DEF TypeOK, HandlesTypeOK
  <2> QED  BY <1>4, <2>1, <2>2 DEF CompleteAttach
<1>5. ASSUME NEW c \in Clients, HandleAck(c)
      PROVE  Goal
  <2>0. UNCHANGED <<outputs, checkpoint>>
    BY <1>5 DEF HandleAck
  <2>1. CASE CloseWriters({c}, "closing") /\ ClearFlow(c)
    BY <1>a, <2>0, <2>1, ClosedClient
  <2>2. CASE UNCHANGED <<attached, attaching, paused, lastSent>>
    BY <1>a, <2>0, <2>2
  <2> QED  BY <1>5, <2>1, <2>2 DEF HandleAck
<1>6. ASSUME NEW c \in Clients, FlushSend(c)
      PROVE  Goal
  <2>0. UNCHANGED <<outputs, checkpoint>> /\ flushing = c
    BY <1>6 DEF FlushSend
  <2>1. CASE CloseWriters({c}, "closing") /\ ClearFlow(c)
    BY <1>a, <2>0, <2>1, ClosedClient
  <2>2. CASE /\ \E s \in MissingOutput(c) : lastSent' = [lastSent EXCEPT ![c] = s]
             /\ UNCHANGED <<attached, attaching, paused>>
    <3>1. d # c
      BY <2>0, <2>2 DEF StreamInv, FlushContinues
    <3>2. lastSent'[d] = lastSent[d]
      BY <2>2, <3>1 DEF TypeOK, HandlesTypeOK
    <3> QED  BY <1>a, <2>0, <2>2, <3>2
  <2> QED  BY <1>6, <2>1, <2>2 DEF FlushSend
<1>7. ASSUME NEW c \in Clients, FlushEnd(c)
      PROVE  Goal
  <2>0. /\ UNCHANGED <<outputs, checkpoint, attached, attaching, lastSent>> /\ flushing = c
        /\ paused' = [paused EXCEPT ![c] = unack[c] > Low]
        /\ MissingOutput(c) = {} \/ unack[c] >= High
    BY <1>7 DEF FlushEnd
  <2>1. CASE d = c
    <3>1. ~ (unack[c] > Low)
      BY <2>0, <2>1 DEF StreamInv, FlushContinues, TypeOK, HandlesTypeOK
    <3>2. MissingOutput(c) = {}
      BY <2>0, <3>1, LimitsAssumption DEF TypeOK, HandlesTypeOK
    <3> QED  BY <2>0, <2>1, <3>2, FlushedClient DEF StreamInv
  <2>2. CASE d # c
    BY <1>a, <2>0, <2>2 DEF TypeOK, HandlesTypeOK
  <2> QED  BY <2>1, <2>2
<1>8. ASSUME NEW c \in Clients, HandleCheckpoint(c)
      PROVE  Goal
  <2>0. outputs' = outputs /\ checkpoint'.seq \in Int /\ checkpoint.seq <= checkpoint'.seq
    <3>1. Head(requests[c]).seq \in Nat
      BY <1>8, HeadRequest DEF HandleCheckpoint, Handles, TypeOK, ChannelsTypeOK
    <3> QED  BY <1>0, <1>8, <3>1 DEF HandleCheckpoint
  <2>1. CASE CloseWriters({c}, "closing") /\ ClearFlow(c)
    BY <1>0, <1>a, <2>0, <2>1, ClosedClient
  <2>2. CASE UNCHANGED handles
    BY <1>0, <1>a, <2>0, <2>2
  <2> QED  BY <1>8, <2>1, <2>2 DEF HandleCheckpoint
<1>9. ASSUME NEW c \in Clients, Drop(c)
      PROVE  Goal
  <2>0. UNCHANGED <<outputs, checkpoint>>
    BY <1>9 DEF Drop
  <2> QED  BY <1>a, <1>9, <2>0, ClosedClient DEF Drop
<1>10. CASE UNCHANGED stream
  BY <1>a, <1>10 DEF stream
<1> QED
  BY <1>1, <1>2, <1>3, <1>4, <1>5, <1>6, <1>7, <1>8, <1>9, <1>10, QuietSteps
  DEF Next, DaemonStep

LEMMA StreamInvStep ==
  ASSUME TypeOK, StreamInv, [Next]_vars
  PROVE  StreamInv'
  BY OutputKeptStep, FlushContinuesStep, SentOrSkippedStep DEF StreamInv

LEMMA StreamInvInit == Init => StreamInv
  BY ClientsAssumption DEF Init, StreamInv, OutputKept, FlushContinues, SentOrSkipped

\* What is retained, what is covered by the checkpoint and what a flush or an
\* attach is about to send always fit together.
THEOREM StreamInvariant == Spec => []StreamInv
<1>1. TypeOK /\ StreamInv /\ [Next]_vars => StreamInv'
  BY StreamInvStep
<1> QED  BY <1>1, StreamInvInit, TypeCorrect, PTL DEF Spec

(***************************************************************************)
(* Without checkpoints nothing is skipped.                                 *)
(***************************************************************************)

Plain == {r \in Requests : r.kind # "checkpoint"}
NoCheckpoints == checkpoint = NoCheckpoint /\ \A c \in Clients : requests[c] \in Seq(Plain)

LEMMA PlainRequests ==
  \A s \in Nat : AttachRequest(s) \in Plain /\ AckRequest(s) \in Plain
<1>1. \A s \in Nat : AttachRequest(s).kind = "attach" /\ AckRequest(s).kind = "ack"
  BY DEF AttachRequest, AckRequest
<1> QED  BY <1>1, RequestTypes DEF Plain

\* Requests only shrink, except for the ACK of a commit and the attach of a
\* new connection.
LEMMA RequestsStep ==
  ASSUME ~CheckpointReplay, TypeOK, NoCheckpoints, [Next]_vars
  PROVE  NoCheckpoints'
<1> USE DEF session, handles, viewers
<1>0. \A d \in Clients : /\ requests[d] \in Seq(Plain) /\ <<>> \in Seq(Plain)
                         /\ requests[d] # <<>> => Tail(requests[d]) \in Seq(Plain)
                                                  /\ Head(requests[d]).kind # "checkpoint"
                         /\ \A r \in Plain : Append(requests[d], r) \in Seq(Plain)
  <2>1. ASSUME NEW d \in Clients, requests[d] # <<>>
        PROVE  Tail(requests[d]) \in Seq(Plain) /\ Head(requests[d]) \in Plain
    BY <2>1, HeadTailProperties DEF NoCheckpoints
  <2> QED  BY <2>1 DEF NoCheckpoints, Plain
<1>1. ASSUME NEW S, NEW state, CloseWriters(S, state), NEW d \in Clients
      PROVE  requests'[d] \in Seq(Plain)
  BY <1>0, <1>1 DEF CloseWriters, Override
<1>2. ASSUME NEW c \in Clients, PopRequest(c), requests[c] # <<>>, NEW d \in Clients
      PROVE  requests'[d] \in Seq(Plain)
  BY <1>0, <1>2 DEF PopRequest, TypeOK, ChannelsTypeOK
<1>3. ASSUME UNCHANGED <<requests, checkpoint>>
      PROVE  NoCheckpoints'
  BY <1>3 DEF NoCheckpoints
<1>4. CASE Emit
  <2>1. checkpoint' = checkpoint /\ \E S : CloseWriters(S, "closing")
    BY <1>4 DEF Emit
  <2> QED  BY <1>1, <2>1 DEF NoCheckpoints
<1>5. CASE Resize
  BY <1>3, <1>5 DEF Resize
<1>6. ASSUME NEW c \in Clients, HandleAttach(c)
      PROVE  NoCheckpoints'
  <2>1. checkpoint' = checkpoint /\ PopRequest(c) /\ requests[c] # <<>>
    BY <1>6 DEF HandleAttach, Handles
  <2> QED  BY <1>2, <2>1 DEF NoCheckpoints
<1>7. ASSUME NEW c \in Clients, CompleteAttach(c)
      PROVE  NoCheckpoints'
  <2>1. checkpoint' = checkpoint
    BY <1>7 DEF CompleteAttach
  <2>2. UNCHANGED requests \/ CloseWriters({c}, "closing")
    BY <1>7 DEF CompleteAttach
  <2> QED  BY <1>1, <1>3, <2>1, <2>2 DEF NoCheckpoints
<1>8. ASSUME NEW c \in Clients, HandleAck(c)
      PROVE  NoCheckpoints'
  <2>1. checkpoint' = checkpoint /\ requests[c] # <<>>
    BY <1>8 DEF HandleAck, Handles
  <2>2. PopRequest(c) \/ CloseWriters({c}, "closing")
    BY <1>8 DEF HandleAck
  <2> QED  BY <1>1, <1>2, <2>1, <2>2 DEF NoCheckpoints
<1>9. ASSUME NEW c \in Clients, FlushSend(c)
      PROVE  NoCheckpoints'
  <2>1. checkpoint' = checkpoint
    BY <1>9 DEF FlushSend
  <2>2. UNCHANGED requests \/ CloseWriters({c}, "closing")
    BY <1>9 DEF FlushSend
  <2> QED  BY <1>1, <1>3, <2>1, <2>2 DEF NoCheckpoints
<1>10. ASSUME NEW c \in Clients, FlushEnd(c) \/ AttachReply(c)
       PROVE  NoCheckpoints'
  BY <1>3, <1>10 DEF FlushEnd, AttachReply
<1>11. ASSUME NEW c \in Clients
       PROVE  ~HandleCheckpoint(c) /\ ~Checkpointing(c)
  <2>1. ~HandleCheckpoint(c)
    BY <1>0 DEF HandleCheckpoint, Handles
  <2>2. Idle(c)
    BY DEF Idle, TypeOK, ViewersTypeOK
  <2> QED  BY <2>1, <2>2 DEF Checkpointing, Serialize, SendCheckpoint
<1>12. ASSUME NEW c \in Clients, Drop(c)
       PROVE  NoCheckpoints'
  BY <1>1, <1>12 DEF Drop, NoCheckpoints
<1>13. ASSUME NEW c \in Clients, Deliver(c) \/ NoticeClose(c) \/ Connect(c)
       PROVE  NoCheckpoints'
  BY <1>3, <1>13 DEF Deliver, NoticeClose, Connect
<1>14. ASSUME NEW c \in Clients, SendAttach(c)
       PROVE  NoCheckpoints'
  <2>1. /\ checkpoint' = checkpoint
        /\ requests' = [requests EXCEPT ![c] = Append(@, AttachRequest(committed[c]))]
    BY <1>14 DEF SendAttach
  <2>2. AttachRequest(committed[c]) \in Plain
    BY PlainRequests DEF TypeOK, ViewersTypeOK
  <2> QED  BY <1>0, <2>1, <2>2 DEF NoCheckpoints, TypeOK, ChannelsTypeOK
<1>15. ASSUME NEW c \in Clients, Commit(c)
       PROVE  NoCheckpoints'
  <2> DEFINE ack == AckRequest(Head(inbox[c]).seq)
  <2>1. ack \in Plain
    BY <1>15, HeadFrame, PlainRequests DEF Commit, TypeOK, ViewersTypeOK
  <2>2. /\ checkpoint' = checkpoint
        /\ \/ requests' = [requests EXCEPT ![c] = Append(requests[c], ack)]
           \/ requests' = [requests EXCEPT ![c] = requests[c]]
    BY <1>15 DEF Commit
  <2>3. /\ Append(requests[c], ack) \in Seq(Plain) /\ checkpoint = NoCheckpoint
        /\ \A d \in Clients : requests[d] \in Seq(Plain)
        /\ requests \in [Clients -> Seq(Requests)]
    BY <1>0, <2>1 DEF NoCheckpoints, TypeOK, ChannelsTypeOK
  <2> HIDE DEF ack
  <2>4. \A d \in Clients : requests'[d] \in Seq(Plain)
    BY <2>2, <2>3
  <2> QED  BY <2>2, <2>3, <2>4 DEF NoCheckpoints
<1>16. CASE Next
  BY <1>4, <1>5, <1>6, <1>7, <1>8, <1>9, <1>10, <1>11, <1>12, <1>13, <1>14, <1>15, <1>16
  DEF Next, DaemonStep, ClientStep
<1>17. CASE UNCHANGED vars
  BY <1>3, <1>17 DEF vars
<1> QED  BY <1>16, <1>17

\* With the checkpoint_replay_v1 feature off, a client whose window is open has
\* been sent all the output there is: the next chunk queued to it continues
\* its stream, however many clients watch the session.
THEOREM CurrentWithoutCheckpoints ==
  ASSUME ~CheckpointReplay
  PROVE  Spec => []UnpausedIsCurrent
<1>1. Init => NoCheckpoints
  BY DEF Init, NoCheckpoints
<1>2. TypeOK /\ NoCheckpoints /\ [Next]_vars => NoCheckpoints'
  BY RequestsStep
<1>3. TypeOK /\ NoCheckpoints /\ StreamInv => UnpausedIsCurrent
  <2> SUFFICES ASSUME TypeOK, NoCheckpoints, StreamInv, NEW c \in Clients,
                      attached[c], ~paused[c], NEW o \in outputs
               PROVE  o <= lastSent[c]
    BY DEF UnpausedIsCurrent
  <2>1. checkpoint.seq = -1 /\ lastSent[c] \in Nat
    BY DEF NoCheckpoints, NoCheckpoint, TypeOK, HandlesTypeOK, LatestSeq
  <2> QED  BY <2>1 DEF StreamInv, SentOrSkipped
<1> QED  BY <1>1, <1>2, <1>3, TypeCorrect, StreamInvariant, PTL DEF Spec
=============================================================================
