------------------------- MODULE PtyDeliveryProofs -------------------------
(***************************************************************************)
(* More theorems about PtyStream: the flow-control window of a client is   *)
(* never lost, what a terminal displays has no hole, live output is        *)
(* received without one, the terminals are readers of a log, and the       *)
(* checkpoint and the retained frames rebuild the output.                  *)
(*                                                                         *)
(* They follow one client.  What the daemon has sent it and it has not yet *)
(* written is one line of frames: its inbox, the send queue, the answer to *)
(* its attach and the frames held behind that answer.  Seen from the       *)
(* client, every step of the system is one of nine events, most of         *)
(* which append to that line or take its head.                             *)
(***************************************************************************)
EXTENDS PtyStreamProofs

(***************************************************************************)
(* Counting in a queue.                                                    *)
(***************************************************************************)

\* What the window charges for: live output, and its acknowledgement.
Charged(f, a) == f.kind \in {"output", "ack"} /\ f.seq > a
Marked(q, a) == {i \in DOMAIN q : Charged(q[i], a)}
Owed(q, a) == Cardinality(Marked(q, a))

LEMMA OwedType ==
  ASSUME NEW T, NEW q \in Seq(T), NEW a
  PROVE  IsFiniteSet(Marked(q, a)) /\ Owed(q, a) \in Nat
<1>1. DOMAIN q = 1..Len(q) /\ Len(q) \in Nat
  BY LenProperties
<1>2. Marked(q, a) \in SUBSET (1..Len(q))
  BY <1>1 DEF Marked
<1> QED  BY <1>1, <1>2, BoundedFinite DEF Owed

\* A queue owes what its two parts owe.
LEMMA OwedConcat ==
  ASSUME NEW T, NEW p \in Seq(T), NEW q \in Seq(T), NEW a
  PROVE  Owed(p \o q, a) = Owed(p, a) + Owed(q, a)
<1> DEFINE n == Len(p)
           f == [i \in Marked(q, a) |-> i + n]
           M == {i + n : i \in Marked(q, a)}
<1>1. /\ p \o q \in Seq(T) /\ Len(p \o q) = n + Len(q)
      /\ \A i \in 1..n + Len(q) : (p \o q)[i] = IF i <= n THEN p[i] ELSE q[i - n]
  BY ConcatProperties
<1>2. /\ DOMAIN p = 1..n /\ DOMAIN q = 1..Len(q) /\ n \in Nat /\ Len(q) \in Nat
      /\ DOMAIN (p \o q) = 1..n + Len(q)
  BY <1>1, LenProperties
<1>3. Marked(p, a) \subseteq 1..n /\ Marked(q, a) \subseteq 1..Len(q)
  BY <1>2 DEF Marked
<1>4. Marked(p \o q, a) = Marked(p, a) \cup M
  <2>1. ASSUME NEW i \in Marked(p \o q, a), i \notin Marked(p, a)
        PROVE  i \in M
    <3>1. i \in 1..n + Len(q) /\ Charged((p \o q)[i], a)
      BY <1>2 DEF Marked
    <3>2. ~ (i <= n)
      BY <1>1, <1>2, <2>1, <3>1 DEF Marked
    <3>3. i - n \in 1..Len(q) /\ (p \o q)[i] = q[i - n] /\ i = (i - n) + n
      BY <1>1, <1>2, <3>1, <3>2
    <3>4. i - n \in Marked(q, a)
      BY <1>2, <3>1, <3>3 DEF Marked
    <3> QED  BY <3>3, <3>4
  <2>2. ASSUME NEW i \in Marked(p, a)
        PROVE  i \in Marked(p \o q, a)
    <3>1. i \in 1..n /\ Charged(p[i], a)
      BY <1>2 DEF Marked
    <3> QED  BY <1>1, <1>2, <3>1 DEF Marked
  <2>3. ASSUME NEW i \in Marked(q, a)
        PROVE  i + n \in Marked(p \o q, a)
    <3>1. i \in 1..Len(q) /\ Charged(q[i], a)
      BY <1>2 DEF Marked
    <3>2. i + n \in 1..n + Len(q) /\ ~ (i + n <= n) /\ (i + n) - n = i
      BY <1>2, <3>1
    <3> QED  BY <1>1, <1>2, <3>1, <3>2 DEF Marked
  <2> QED  BY <2>1, <2>2, <2>3
<1>5. Marked(p, a) \cap M = {}
  BY <1>2, <1>3
<1>6. IsFiniteSet(Marked(p, a)) /\ IsFiniteSet(Marked(q, a)) /\ Owed(p, a) \in Nat /\ Owed(q, a) \in Nat
  BY OwedType
<1>7. IsFiniteSet(M) /\ Cardinality(M) = Owed(q, a)
  <2>1. f \in [Marked(q, a) -> M]
    OBVIOUS
  <2>2. \A i, j \in Marked(q, a) : f[i] = f[j] => i = j
    BY <1>2, <1>3
  <2>3. \A m \in M : \E i \in Marked(q, a) : f[i] = m
    OBVIOUS
  <2> HIDE DEF f, M
  <2>4. f \in Bijection(Marked(q, a), M)
    BY <2>1, <2>2, <2>3 DEF Bijection, Injection, Surjection, IsInjective
  <2>5. ExistsBijection(Marked(q, a), M)
    BY <2>4 DEF ExistsBijection
  <2> QED  BY <1>6, <2>5, FS_Bijection DEF Owed
<1> HIDE DEF M
<1>8. Cardinality(Marked(p, a) \cup M)
        = Cardinality(Marked(p, a)) + Cardinality(M) - Cardinality(Marked(p, a) \cap M)
  BY <1>6, <1>7, FS_Union
<1>9. Cardinality(Marked(p, a) \cap M) = 0
  BY <1>5, FS_EmptySet
<1>10. Owed(p \o q, a) = Cardinality(Marked(p, a)) + Cardinality(M)
                            - Cardinality(Marked(p, a) \cap M)
  BY <1>4, <1>8 DEF Owed
<1>11. Cardinality(Marked(p, a)) = Owed(p, a)
  BY DEF Owed
<1> HIDE DEF Owed
<1> QED  BY <1>6, <1>7, <1>9, <1>10, <1>11

LEMMA OwedOne ==
  ASSUME NEW e, NEW a
  PROVE  Owed(<<e>>, a) = IF Charged(e, a) THEN 1 ELSE 0
<1>1. DOMAIN <<e>> = {1} /\ <<e>>[1] = e
  OBVIOUS
<1>2. CASE Charged(e, a)
  <2>1. Marked(<<e>>, a) = {1}
    BY <1>1, <1>2 DEF Marked
  <2> QED  BY <1>2, <2>1, FS_Singleton DEF Owed
<1>3. CASE ~Charged(e, a)
  <2>1. Marked(<<e>>, a) = {}
    BY <1>1, <1>3 DEF Marked
  <2> QED  BY <1>3, <2>1, FS_EmptySet DEF Owed
<1> QED  BY <1>2, <1>3

LEMMA OwedAppend ==
  ASSUME NEW T, NEW q \in Seq(T), NEW e \in T, NEW a
  PROVE  Owed(Append(q, e), a) = Owed(q, a) + (IF Charged(e, a) THEN 1 ELSE 0)
<1>1. Append(q, e) = q \o <<e>> /\ <<e>> \in Seq(T)
  BY AppendIsConcat
<1>2. Owed(q \o <<e>>, a) = Owed(q, a) + Owed(<<e>>, a)
  BY <1>1, OwedConcat, Zenon
<1>3. Owed(<<e>>, a) = IF Charged(e, a) THEN 1 ELSE 0
  BY OwedOne
<1> QED  BY <1>1, <1>2, <1>3, Zenon

LEMMA OwedTail ==
  ASSUME NEW T, NEW q \in Seq(T), q # <<>>, NEW a
  PROVE  Owed(q, a) = Owed(Tail(q), a) + (IF Charged(Head(q), a) THEN 1 ELSE 0)
<1>1. Head(q) \in T /\ Tail(q) \in Seq(T) /\ <<Head(q)>> \in Seq(T)
  BY HeadTailProperties
<1>2. q = <<Head(q)>> \o Tail(q)
  OBVIOUS
<1>3. Owed(q, a) = Owed(<<Head(q)>>, a) + Owed(Tail(q), a)
  <2>1. Owed(<<Head(q)>> \o Tail(q), a) = Owed(<<Head(q)>>, a) + Owed(Tail(q), a)
    BY <1>1, OwedConcat, Zenon
  <2> QED  BY <1>2, <2>1
<1>4. Owed(Tail(q), a) \in Nat
  BY <1>1, OwedType
<1> QED  BY <1>3, <1>4, OwedOne

\* A queue of which nothing is charged for owes nothing.
LEMMA OwedNothing ==
  ASSUME NEW q, NEW a, \A i \in DOMAIN q : ~Charged(q[i], a)
  PROVE  Owed(q, a) = 0
<1>1. Marked(q, a) = {}
  BY DEF Marked
<1> QED  BY <1>1, FS_EmptySet DEF Owed

LEMMA OwedSame ==
  ASSUME NEW q, NEW a, NEW b, \A i \in DOMAIN q : Charged(q[i], a) <=> Charged(q[i], b)
  PROVE  Owed(q, a) = Owed(q, b)
<1>1. Marked(q, a) = Marked(q, b)
  BY DEF Marked
<1> QED  BY <1>1 DEF Owed

(***************************************************************************)
(* Connections, subscriptions and queues.                                  *)
(***************************************************************************)

\* A subscribed client is connected; a client that is not subscribed has
\* nothing queued; only a client that is attaching has frames held; a request
\* to attach is the only one and comes from a client that is not subscribed.
LinkOf(c) ==
  /\ attached[c] => link[c] = "up"
  /\ ~attached[c] => out[c] = <<>> /\ ~attaching[c]
  /\ ~attaching[c] => reply[c] = <<>> /\ held[c] = <<>>
  /\ \A i \in DOMAIN requests[c] : requests[c][i].kind = "attach" =>
       /\ link[c] = "up" /\ ~attached[c]
       /\ \A j \in DOMAIN requests[c] : requests[c][j].kind = "attach" => j = i
LinkInv == \A c \in Clients : LinkOf(c)

\* The daemon ends the subscription of d, or leaves its handle alone.
Shut(d, state) ==
  /\ ~attached'[d] /\ ~attaching'[d] /\ link'[d] = state
  /\ out'[d] = <<>> /\ reply'[d] = <<>> /\ held'[d] = <<>> /\ requests'[d] = <<>>
Kept(d) ==
  /\ UNCHANGED <<attached[d], attaching[d], unack[d], lastSent[d], lastAcked[d]>>
  /\ UNCHANGED <<out[d], reply[d], held[d], link[d], requests[d]>>

LEMMA CloseEffect ==
  ASSUME TypeOK, NEW c \in Clients, NEW state, CloseWriters({c}, state), ClearFlow(c),
         NEW d \in Clients
  PROVE  IF d = c THEN Shut(d, state) ELSE Kept(d)
<1>1. CASE d = c
  BY <1>1 DEF CloseWriters, Override, ClearFlow, Shut, TypeOK, HandlesTypeOK, ChannelsTypeOK
<1>2. CASE d # c
  <2>1. UNCHANGED <<attached[d], attaching[d], lastAcked[d], reply[d], link[d], requests[d]>>
    BY <1>2 DEF CloseWriters, Override
  <2>2. UNCHANGED <<unack[d], lastSent[d], out[d], held[d]>>
    BY <1>2 DEF ClearFlow, TypeOK, HandlesTypeOK, ChannelsTypeOK
  <2> QED  BY <1>2, <2>1, <2>2 DEF Kept
<1> QED  BY <1>1, <1>2

\* One chunk of output: the client is closed, or skipped, or the chunk is held
\* or queued for it.
Taken(d) ==
  /\ attached[d] /\ unack'[d] = unack[d] + 1 /\ lastSent'[d] = nextSeq
  /\ UNCHANGED <<attached[d], attaching[d], lastAcked[d], reply[d], link[d], requests[d]>>
  /\ \/ attaching[d] /\ held'[d] = Append(held[d], OutputFrame(nextSeq)) /\ out'[d] = out[d]
     \/ /\ ~attaching[d] /\ ~paused[d]
        /\ out'[d] = Append(out[d], OutputFrame(nextSeq)) /\ held'[d] = held[d]

LEMMA EmitEffect ==
  ASSUME TypeOK, Emit, NEW d \in Clients
  PROVE  Shut(d, "closing") \/ Kept(d) \/ Taken(d)
<1> DEFINE holding == {c \in Clients : attached[c] /\ attaching[c]}
           live == {c \in Clients : attached[c] /\ ~attaching[c] /\ ~paused[c]}
           sending == {c \in live : unack[c] < High}
           full == {c \in holding : Len(held[c]) >= QueueMax}
                     \cup {c \in sending : LiveQueued(c) >= QueueMax}
           taking == (holding \cup sending) \ full
<1>1. CloseWriters(full, "closing")
  BY DEF Emit
<1>2. /\ unack'[d] = IF d \in full THEN 0 ELSE IF d \in taking THEN unack[d] + 1 ELSE unack[d]
      /\ lastSent'[d] = IF d \in full THEN 0 ELSE IF d \in taking THEN nextSeq ELSE lastSent[d]
      /\ held'[d] = IF d \in full THEN <<>>
                    ELSE IF d \in holding THEN Append(held[d], OutputFrame(nextSeq)) ELSE held[d]
      /\ out'[d] = IF d \in full THEN <<>>
                   ELSE IF d \in sending THEN Append(out[d], OutputFrame(nextSeq)) ELSE out[d]
  BY DEF Emit
<1>3. /\ d \in holding <=> attached[d] /\ attaching[d]
      /\ d \in sending => attached[d] /\ ~attaching[d] /\ ~paused[d]
  OBVIOUS
<1>4. d \in taking <=> (d \in holding \/ d \in sending) /\ d \notin full
  <2> HIDE DEF full, holding, sending
  <2> QED  OBVIOUS
<1> HIDE DEF full, holding, sending, taking
<1>5. /\ attached'[d] = IF d \in full THEN FALSE ELSE attached[d]
      /\ attaching'[d] = IF d \in full THEN FALSE ELSE attaching[d]
      /\ link'[d] = IF d \in full THEN "closing" ELSE link[d]
      /\ reply'[d] = IF d \in full THEN <<>> ELSE reply[d]
      /\ lastAcked'[d] = IF d \in full THEN 0 ELSE lastAcked[d]
      /\ requests'[d] = IF d \in full THEN <<>> ELSE requests[d]
  BY <1>1 DEF CloseWriters, Override
<1>6. CASE d \in full
  BY <1>2, <1>5, <1>6 DEF Shut
<1>7. CASE d \notin full /\ d \in holding
  BY <1>2, <1>3, <1>4, <1>5, <1>7 DEF Taken
<1>8. CASE d \notin full /\ d \in sending
  BY <1>2, <1>3, <1>4, <1>5, <1>8 DEF Taken
<1>9. CASE d \notin full /\ d \notin holding /\ d \notin sending
  BY <1>2, <1>4, <1>5, <1>9 DEF Kept
<1> QED  BY <1>6, <1>7, <1>8, <1>9

\* The link facts of a client that keeps its handle, or loses it, still hold.
LEMMA LinkKept ==
  ASSUME NEW d \in Clients, LinkOf(d), Kept(d)
  PROVE  LinkOf(d)'
  BY DEF LinkOf, Kept

LEMMA LinkShut ==
  ASSUME NEW d \in Clients, NEW state, Shut(d, state)
  PROVE  LinkOf(d)'
<1>1. DOMAIN requests'[d] = {}
  BY DEF Shut
<1> QED  BY <1>1 DEF LinkOf, Shut

\* Requests lose their head, or gain one that does not attach.
LEMMA LinkPopped ==
  ASSUME TypeOK, NEW d \in Clients, LinkOf(d), requests[d] # <<>>,
         requests'[d] = Tail(requests[d]),
         UNCHANGED <<attached[d], attaching[d], out[d], reply[d], held[d], link[d]>>
  PROVE  LinkOf(d)'
<1>0. requests[d] \in Seq(Requests)
  BY DEF TypeOK, ChannelsTypeOK
<1>1. /\ Len(requests[d]) \in Nat /\ DOMAIN requests[d] = 1..Len(requests[d])
      /\ DOMAIN requests'[d] = 1..Len(requests[d]) - 1
      /\ \A i \in 1..Len(requests[d]) - 1 : requests'[d][i] = requests[d][i + 1]
  BY <1>0, HeadTailProperties, LenProperties
<1>2. ASSUME NEW i \in DOMAIN requests'[d], requests'[d][i].kind = "attach"
      PROVE  /\ link[d] = "up" /\ ~attached[d]
             /\ \A j \in DOMAIN requests'[d] : requests'[d][j].kind = "attach" => j = i
  <2>1. i + 1 \in DOMAIN requests[d] /\ requests[d][i + 1].kind = "attach"
    BY <1>1, <1>2
  <2>2. ASSUME NEW j \in DOMAIN requests'[d], requests'[d][j].kind = "attach"
        PROVE  j = i
    <3>1. j + 1 \in DOMAIN requests[d] /\ requests[d][j + 1].kind = "attach"
      BY <1>1, <2>2
    <3>2. j + 1 = i + 1
      BY <2>1, <3>1 DEF LinkOf
    <3> QED  BY <1>1, <1>2, <2>2, <3>2
  <2> QED  BY <2>1, <2>2 DEF LinkOf
<1> QED  BY <1>2 DEF LinkOf

LEMMA LinkAsked ==
  ASSUME TypeOK, NEW d \in Clients, LinkOf(d), NEW r \in Requests, r.kind # "attach",
         requests'[d] = Append(requests[d], r),
         UNCHANGED <<attached[d], attaching[d], out[d], reply[d], held[d], link[d]>>
  PROVE  LinkOf(d)'
<1>0. requests[d] \in Seq(Requests)
  BY DEF TypeOK, ChannelsTypeOK
<1>1. /\ Len(requests[d]) \in Nat /\ DOMAIN requests[d] = 1..Len(requests[d])
      /\ DOMAIN requests'[d] = 1..Len(requests[d]) + 1
      /\ \A i \in 1..Len(requests[d]) : requests'[d][i] = requests[d][i]
      /\ requests'[d][Len(requests[d]) + 1] = r
  BY <1>0, AppendProperties, LenProperties
<1>2. \A i \in DOMAIN requests'[d] : requests'[d][i].kind = "attach" =>
        i \in DOMAIN requests[d] /\ requests[d][i].kind = "attach"
  BY <1>1
<1> QED  BY <1>2 DEF LinkOf

LEMMA LinkStep ==
  ASSUME TypeOK, StreamInv, LinkInv, [Next]_vars
  PROVE  LinkInv'
<1> SUFFICES ASSUME NEW d \in Clients
             PROVE  LinkOf(d)'
  BY DEF LinkInv
<1> USE DEF session, handles, viewers
<1>0. LinkOf(d)
  BY DEF LinkInv
<1>t. /\ requests[d] \in Seq(Requests) /\ out[d] \in Seq(Frames)
      /\ held[d] \in Seq(Frames) /\ reply[d] \in Seq(Frames)
  BY DEF TypeOK, ChannelsTypeOK
<1>1. CASE Emit
  <2>1. CASE Taken(d)
    BY <1>0, <2>1 DEF Taken, LinkOf
  <2> QED  BY <1>0, <1>1, <2>1, EmitEffect, LinkKept, LinkShut
<1>2. CASE Resize
  BY <1>0, <1>2, LinkKept DEF Resize, Kept
<1>3. ASSUME NEW c \in Clients, NEW state, CloseWriters({c}, state), ClearFlow(c)
      PROVE  LinkOf(d)'
  BY <1>0, <1>3, CloseEffect, LinkKept, LinkShut
<1>4. ASSUME NEW c \in Clients, HandleAttach(c)
      PROVE  LinkOf(d)'
  <2>0. UNCHANGED <<out, link>>
    BY <1>4 DEF HandleAttach
  <2>1. CASE d = c
    <3>1. /\ requests[d] # <<>> /\ Head(requests[d]).kind = "attach"
          /\ requests'[d] = Tail(requests[d]) /\ attached'[d] /\ attaching'[d]
      BY <1>4, <2>1
      DEF HandleAttach, Handles, PopRequest, TypeOK, HandlesTypeOK, ChannelsTypeOK
    <3>2. /\ Len(requests[d]) \in Nat \ {0} /\ DOMAIN requests[d] = 1..Len(requests[d])
          /\ DOMAIN requests'[d] = 1..Len(requests[d]) - 1
          /\ \A i \in 1..Len(requests[d]) - 1 : requests'[d][i] = requests[d][i + 1]
      BY <1>t, <3>1, HeadTailProperties, LenProperties, EmptySeq
    <3>3. 1 \in DOMAIN requests[d] /\ requests[d][1].kind = "attach"
      BY <1>t, <3>1, <3>2
    <3>4. /\ link[d] = "up"
          /\ \A j \in DOMAIN requests[d] : requests[d][j].kind = "attach" => j = 1
      BY <1>0, <3>3 DEF LinkOf
    <3>5. \A i \in DOMAIN requests'[d] : requests'[d][i].kind # "attach"
      <4>1. ASSUME NEW i \in DOMAIN requests'[d], requests'[d][i].kind = "attach"
            PROVE  FALSE
        <5>1. i \in 1..Len(requests[d]) - 1 /\ i + 1 \in DOMAIN requests[d] /\ i + 1 # 1
          BY <3>2, <4>1
        <5> QED  BY <3>2, <3>4, <4>1, <5>1
      <4> QED  BY <4>1
    <3> QED  BY <2>0, <3>1, <3>4, <3>5 DEF LinkOf
  <2>2. CASE d # c
    BY <1>0, <1>4, <2>0, <2>2, LinkKept
    DEF HandleAttach, PopRequest, Kept, TypeOK, HandlesTypeOK, ChannelsTypeOK
  <2> QED  BY <2>1, <2>2
<1>5. ASSUME NEW c \in Clients, AttachReply(c)
      PROVE  LinkOf(d)'
  <2>0. UNCHANGED <<attached, attaching, held, link, requests, unack, lastSent, lastAcked>>
    BY <1>5 DEF AttachReply
  <2>1. CASE d = c
    <3>1. attaching[d] /\ reply'[d] = <<>>
      BY <1>5, <2>1 DEF AttachReply, TypeOK, ChannelsTypeOK
    <3> QED  BY <1>0, <2>0, <3>1 DEF LinkOf
  <2>2. CASE d # c
    BY <1>0, <1>5, <2>0, <2>2, LinkKept DEF AttachReply, Kept, TypeOK, ChannelsTypeOK
  <2> QED  BY <2>1, <2>2
<1>6. ASSUME NEW c \in Clients, CompleteAttach(c)
      PROVE  LinkOf(d)'
  <2>1. CASE CloseWriters({c}, "closing") /\ ClearFlow(c)
    BY <1>3, <2>1
  <2>2. CASE /\ attaching' = [attaching EXCEPT ![c] = FALSE]
             /\ out' = [out EXCEPT ![c] = @ \o held[c]]
             /\ held' = [held EXCEPT ![c] = <<>>]
             /\ UNCHANGED <<attached, reply, unack, paused, lastSent, lastAcked, link, requests>>
    <3>1. CASE d = c
      <4>1. attaching[d] /\ reply[d] = <<>> /\ held'[d] = <<>> /\ ~attaching'[d]
        BY <1>6, <2>2, <3>1 DEF CompleteAttach, TypeOK, HandlesTypeOK, ChannelsTypeOK
      <4> QED  BY <1>0, <2>2, <4>1 DEF LinkOf
    <3>2. CASE d # c
      BY <1>0, <2>2, <3>2, LinkKept DEF Kept, TypeOK, HandlesTypeOK, ChannelsTypeOK
    <3> QED  BY <3>1, <3>2
  <2> QED  BY <1>6, <2>1, <2>2 DEF CompleteAttach
<1>7. ASSUME NEW c \in Clients, requests[c] # <<>>, PopRequest(c),
             UNCHANGED <<attached, attaching, out, reply, held, link>>
      PROVE  LinkOf(d)'
  <2>1. CASE d = c
    <3>1. requests'[d] = Tail(requests[d])
      BY <1>7, <2>1 DEF PopRequest, TypeOK, ChannelsTypeOK
    <3> QED  BY <1>0, <1>7, <2>1, <3>1, LinkPopped
  <2>2. CASE d # c
    BY <1>0, <1>7, <2>2 DEF PopRequest, LinkOf, TypeOK, ChannelsTypeOK
  <2> QED  BY <2>1, <2>2
<1>8. ASSUME NEW c \in Clients, HandleAck(c)
      PROVE  LinkOf(d)'
  <2>1. requests[c] # <<>>
    BY <1>8 DEF HandleAck, Handles
  <2>2. \/ CloseWriters({c}, "closing") /\ ClearFlow(c)
        \/ PopRequest(c) /\ UNCHANGED <<attached, attaching, out, reply, held, link>>
    BY <1>8 DEF HandleAck
  <2> QED  BY <1>3, <1>7, <2>1, <2>2
<1>9. ASSUME NEW c \in Clients, HandleCheckpoint(c)
      PROVE  LinkOf(d)'
  <2>1. requests[c] # <<>>
    BY <1>9 DEF HandleCheckpoint, Handles
  <2>2. \/ CloseWriters({c}, "closing") /\ ClearFlow(c)
        \/ PopRequest(c) /\ UNCHANGED <<attached, attaching, out, reply, held, link>>
    BY <1>9 DEF HandleCheckpoint
  <2> QED  BY <1>3, <1>7, <2>1, <2>2
<1>10. ASSUME NEW c \in Clients, FlushSend(c)
       PROVE  LinkOf(d)'
  <2>1. CASE CloseWriters({c}, "closing") /\ ClearFlow(c)
    BY <1>3, <2>1
  <2>2. CASE /\ \E s \in MissingOutput(c) : out' = [out EXCEPT ![c] = Append(@, OutputFrame(s))]
             /\ UNCHANGED <<flushing, attached, attaching, held, paused, lastAcked, reply, link,
                            requests>>
    <3>1. attached[c]
      BY <1>10 DEF FlushSend, StreamInv, FlushContinues
    <3> QED  BY <1>0, <2>2, <3>1 DEF LinkOf, TypeOK, ChannelsTypeOK
  <2> QED  BY <1>10, <2>1, <2>2 DEF FlushSend
<1>11. ASSUME NEW c \in Clients, FlushEnd(c)
       PROVE  LinkOf(d)'
  BY <1>0, <1>11 DEF FlushEnd, LinkOf
<1>12. ASSUME NEW c \in Clients, Drop(c)
       PROVE  LinkOf(d)'
  BY <1>3, <1>12 DEF Drop
<1>13. ASSUME NEW c \in Clients, Deliver(c)
       PROVE  LinkOf(d)'
  <2>1. /\ out[c] # <<>> /\ out' = [out EXCEPT ![c] = Tail(@)]
        /\ UNCHANGED <<attached, attaching, reply, held, link, requests>>
    BY <1>13 DEF Deliver
  <2> QED  BY <1>0, <2>1 DEF LinkOf, TypeOK, ChannelsTypeOK
<1>14. ASSUME NEW c \in Clients, Commit(c)
       PROVE  LinkOf(d)'
  <2> DEFINE ack == AckRequest(Head(inbox[c]).seq)
  <2>1. ack \in Requests /\ ack.kind # "attach"
    <3>1. Head(inbox[c]).seq \in Nat
      BY <1>14, HeadFrame DEF Commit, TypeOK, ViewersTypeOK
    <3> QED  BY <3>1, RequestTypes DEF AckRequest
  <2>2. /\ \/ requests' = [requests EXCEPT ![c] = Append(requests[c], ack)]
           \/ requests' = [requests EXCEPT ![c] = requests[c]]
        /\ UNCHANGED <<attached, attaching, out, reply, held, link>>
    BY <1>14 DEF Commit
  <2> HIDE DEF ack
  <2>3. requests'[d] = requests[d] \/ requests'[d] = Append(requests[d], ack)
    BY <2>2 DEF TypeOK, ChannelsTypeOK
  <2>4. CASE requests'[d] = requests[d]
    BY <1>0, <2>2, <2>4 DEF LinkOf
  <2>5. CASE requests'[d] = Append(requests[d], ack)
    BY <1>0, <2>1, <2>2, <2>5, LinkAsked
  <2> QED  BY <2>3, <2>4, <2>5
<1>15. ASSUME NEW c \in Clients, Checkpointing(c)
       PROVE  LinkOf(d)'
  <2> DEFINE r == CheckpointRequest(rendered[c], snapshot[c].body, Late(c))
  <2>1. r \in Requests /\ r.kind # "attach"
    BY UploadType DEF CheckpointRequest
  <2>2. /\ \/ requests' = [requests EXCEPT ![c] = Append(requests[c], r)]
           \/ requests' = [requests EXCEPT ![c] = requests[c]]
        /\ UNCHANGED <<attached, attaching, out, reply, held, link>>
    <3>1. CASE Serialize(c)
      BY <3>1 DEF Serialize, TypeOK, ChannelsTypeOK
    <3>2. CASE SendCheckpoint(c)
      BY <3>2, Zenon DEF SendCheckpoint
    <3> QED  BY <1>15, <3>1, <3>2 DEF Checkpointing
  <2> HIDE DEF r
  <2>3. requests'[d] = requests[d] \/ requests'[d] = Append(requests[d], r)
    BY <2>2 DEF TypeOK, ChannelsTypeOK
  <2>4. CASE requests'[d] = requests[d]
    BY <1>0, <2>2, <2>4 DEF LinkOf
  <2>5. CASE requests'[d] = Append(requests[d], r)
    BY <1>0, <2>1, <2>2, <2>5, LinkAsked
  <2> QED  BY <2>3, <2>4, <2>5
<1>16. ASSUME NEW c \in Clients, NoticeClose(c) \/ Connect(c)
       PROVE  LinkOf(d)'
  <2>1. /\ \/ link[c] = "closing" /\ link' = [link EXCEPT ![c] = "down"]
           \/ link[c] = "down" /\ link' = [link EXCEPT ![c] = "connected"]
        /\ UNCHANGED <<attached, attaching, out, reply, held, requests>>
    BY <1>16 DEF NoticeClose, Connect
  <2> QED  BY <1>0, <2>1 DEF LinkOf, TypeOK, ChannelsTypeOK
<1>17. ASSUME NEW c \in Clients, SendAttach(c)
       PROVE  LinkOf(d)'
  <2>0. /\ link[c] = "connected" /\ link' = [link EXCEPT ![c] = "up"]
        /\ requests' = [requests EXCEPT ![c] = Append(@, AttachRequest(committed[c]))]
        /\ UNCHANGED <<attached, attaching, out, reply, held>>
    BY <1>17 DEF SendAttach
  <2>1. CASE d = c
    <3> DEFINE r == AttachRequest(committed[c])
    <3>1. r \in Requests
      BY RequestTypes DEF TypeOK, ViewersTypeOK
    <3>2. requests'[d] = Append(requests[d], r) /\ link'[d] = "up" /\ link[d] = "connected"
      BY <2>0, <2>1 DEF TypeOK, ChannelsTypeOK
    <3> HIDE DEF r
    <3>3. /\ Len(requests[d]) \in Nat /\ DOMAIN requests[d] = 1..Len(requests[d])
          /\ DOMAIN requests'[d] = 1..Len(requests[d]) + 1
          /\ \A i \in 1..Len(requests[d]) : requests'[d][i] = requests[d][i]
      BY <1>t, <3>1, <3>2, AppendProperties, LenProperties
    <3>4. ~attached[d] /\ \A i \in DOMAIN requests[d] : requests[d][i].kind # "attach"
      BY <1>0, <3>2 DEF LinkOf
    <3>5. \A i \in DOMAIN requests'[d] :
            requests'[d][i].kind = "attach" => i = Len(requests[d]) + 1
      BY <3>3, <3>4
    <3> QED  BY <1>0, <2>0, <3>2, <3>4, <3>5 DEF LinkOf
  <2>2. CASE d # c
    BY <1>0, <2>0, <2>2 DEF LinkOf, TypeOK, ChannelsTypeOK
  <2> QED  BY <2>1, <2>2
<1>18. CASE UNCHANGED vars
  BY <1>0, <1>18 DEF vars, LinkOf
<1>19. CASE Next
  BY <1>1, <1>2, <1>4, <1>5, <1>6, <1>8, <1>9, <1>10, <1>11, <1>12, <1>13, <1>14, <1>15, <1>16,
     <1>17, <1>19 DEF Next, DaemonStep, ClientStep
<1> QED  BY <1>18, <1>19

LEMMA LinkInit == Init => LinkInv
<1> SUFFICES ASSUME Init, NEW c \in Clients
             PROVE  LinkOf(c)
  BY DEF LinkInv
<1>1. /\ attached[c] => link[c] = "up"
      /\ ~attaching[c] /\ out[c] = <<>> /\ reply[c] = <<>> /\ held[c] = <<>>
      /\ requests[c] = <<>>
  BY DEF Init
<1>2. DOMAIN requests[c] = {}
  BY <1>1
<1> QED  BY <1>1, <1>2 DEF LinkOf

(***************************************************************************)
(* What a step means for one client.                                       *)
(***************************************************************************)

\* The frames on their way to a client, in the order it will receive them.
Coming(c) == (out[c] \o reply[c]) \o held[c]

Handle(d) == <<attached[d], unack[d], lastSent[d], lastAcked[d]>>
Viewer(d) == <<received[d], committed[d], rendered[d], inbox[d], screen[d]>>

\* Nothing: the step is about other clients or other things.
Rested(d) == UNCHANGED <<Handle(d), Coming(d), link[d], requests[d], drops[d], Viewer(d)>>
\* The next chunk of output is sent.
Fed(d) ==
  \E s \in outputs' :
    /\ attached[d] /\ s \in Nat /\ lastSent[d] < s /\ s <= LatestSeq'
    /\ checkpoint.seq <= lastSent[d] => \A o \in outputs' : o <= lastSent[d] \/ s <= o
    /\ Coming(d)' = Append(Coming(d), OutputFrame(s))
    /\ unack'[d] = unack[d] + 1 /\ lastSent'[d] = s
    /\ UNCHANGED <<attached[d], lastAcked[d], link[d], requests[d], drops[d], Viewer(d)>>
\* The subscription begins.
Joined(d) ==
  /\ ~attached[d] /\ attached'[d] /\ link[d] = "up" /\ Coming(d) = <<>>
  /\ requests[d] # <<>> /\ Head(requests[d]).kind = "attach"
  /\ requests'[d] = Tail(requests[d])
  /\ Coming(d)' = AttachedFrames(Head(requests[d]).seq)
  /\ unack'[d] = 0 /\ lastSent'[d] = LatestSeq /\ lastAcked'[d] = LatestSeq
  /\ UNCHANGED <<session, link[d], drops[d], Viewer(d)>>
\* The subscription ends, with the connection.
Cut(d) ==
  /\ ~attached'[d] /\ Coming(d)' = <<>> /\ requests'[d] = <<>>
  /\ \/ link'[d] = "closing" /\ drops'[d] = drops[d]
     \/ link'[d] = "down" /\ drops'[d] = drops[d] + 1
  /\ UNCHANGED Viewer(d)
\* A request other than an attach is taken; an ACK that counts opens the window.
Served(d) ==
  /\ requests[d] # <<>> /\ Head(requests[d]).kind \in {"ack", "checkpoint"}
  /\ requests'[d] = Tail(requests[d])
  /\ \/ /\ Head(requests[d]).kind = "ack" => ~Counts(d, Head(requests[d]).seq)
        /\ UNCHANGED Handle(d)
     \/ /\ Head(requests[d]).kind = "ack" /\ Counts(d, Head(requests[d]).seq)
        /\ unack'[d] = Remaining(d) /\ lastAcked'[d] = Head(requests[d]).seq
        /\ UNCHANGED <<attached[d], lastSent[d]>>
  /\ UNCHANGED <<Coming(d), link[d], drops[d], Viewer(d)>>
\* A frame reaches the client.
Delivered(d) ==
  LET frame == Head(Coming(d))
      fresh == frame.kind # "output" \/ frame.seq > received[d]
      shown == frame.kind # "attached" /\ fresh /\ Takes(d, frame)
  IN /\ attached[d] /\ Coming(d) # <<>> /\ Coming(d)' = Tail(Coming(d))
     /\ received'[d] = IF frame.kind = "attached" \/ (frame.kind = "output" /\ fresh)
                         THEN frame.seq ELSE received[d]
     /\ inbox'[d] = IF shown THEN Append(inbox[d], frame) ELSE inbox[d]
     /\ rendered'[d] = IF frame.kind = "reset" /\ d \in Terminals THEN 0 ELSE rendered[d]
     /\ UNCHANGED <<session, Handle(d), link[d], requests[d], drops[d], committed[d], screen[d]>>
\* The first frame of the inbox is written.
Advance(d, frame, n) == IF Commits(d, frame) /\ frame.seq > n THEN frame.seq ELSE n
Wrote(d) ==
  LET frame == Head(inbox[d])
  IN /\ inbox[d] # <<>> /\ inbox'[d] = Tail(inbox[d])
     /\ screen'[d] = IF frame.kind = "reset" THEN <<>> ELSE screen[d] \o frame.body
     /\ rendered'[d] = IF d \in Terminals THEN Advance(d, frame, rendered[d]) ELSE rendered[d]
     /\ committed'[d] = Advance(d, frame, committed[d])
     /\ requests'[d] = IF Commits(d, frame) /\ frame.seq > 0 /\ frame.body # <<>> /\ Open(d)
                         THEN Append(requests[d], AckRequest(frame.seq)) ELSE requests[d]
     /\ UNCHANGED <<session, Handle(d), Coming(d), link[d], drops[d], received[d]>>
\* A checkpoint is uploaded.
Uploaded(d) ==
  /\ CheckpointReplay /\ d \in Terminals /\ ~Idle(d)
  /\ requests'[d] = Append(requests[d], CheckpointRequest(rendered[d], snapshot[d].body, Late(d)))
  /\ UNCHANGED <<session, Handle(d), Coming(d), link[d], drops[d], Viewer(d)>>
\* The connection is noticed to be closed, opened again, used to attach.
Reached(d) ==
  /\ ~attached[d]
  /\ \/ /\ link[d] = "closing" /\ link'[d] = "down" /\ drops'[d] = drops[d] + 1
        /\ UNCHANGED <<requests[d], received[d]>>
     \/ /\ link[d] = "down" /\ link'[d] = "connected"
        /\ UNCHANGED <<drops[d], requests[d], received[d]>>
     \/ /\ link[d] = "connected" /\ link'[d] = "up" /\ received'[d] = committed[d]
        /\ requests'[d] = Append(requests[d], AttachRequest(committed[d]))
        /\ UNCHANGED drops[d]
  /\ UNCHANGED <<session, Handle(d), Coming(d), committed[d], rendered[d], inbox[d], screen[d]>>

Event(d) ==
  \/ Rested(d) \/ Fed(d) \/ Joined(d) \/ Cut(d) \/ Served(d)
  \/ Delivered(d) \/ Wrote(d) \/ Uploaded(d) \/ Reached(d)

LEMMA ComingType ==
  ASSUME TypeOK, NEW d \in Clients
  PROVE  /\ Coming(d) \in Seq(Frames)
         /\ out[d] \in Seq(Frames) /\ reply[d] \in Seq(Frames) /\ held[d] \in Seq(Frames)
<1>1. out[d] \in Seq(Frames) /\ reply[d] \in Seq(Frames) /\ held[d] \in Seq(Frames)
  BY DEF TypeOK, ChannelsTypeOK
<1>2. out[d] \o reply[d] \in Seq(Frames)
  BY <1>1, ConcatProperties
<1> QED  BY <1>1, <1>2, ConcatProperties DEF Coming

\* A frame queued behind everything, or the head of the queue taken.
LEMMA ConcatAppend ==
  ASSUME NEW T, NEW p \in Seq(T), NEW q \in Seq(T), NEW e \in T
  PROVE  p \o Append(q, e) = Append(p \o q, e)
<1>1. <<e>> \in Seq(T) /\ p \o q \in Seq(T)
  BY ConcatProperties
<1>2. (p \o q) \o <<e>> = p \o (q \o <<e>>)
  BY <1>1, ConcatAssociative
<1>3. Append(q, e) = q \o <<e>> /\ Append(p \o q, e) = (p \o q) \o <<e>>
  BY <1>1, AppendIsConcat
<1> QED  BY <1>2, <1>3

LEMMA ConcatTail ==
  ASSUME NEW T, NEW p \in Seq(T), NEW q \in Seq(T), p # <<>>
  PROVE  p \o q # <<>> /\ Head(p \o q) = Head(p) /\ Tail(p \o q) = Tail(p) \o q
<1>0. /\ Len(p) \in Nat \ {0} /\ Len(q) \in Nat /\ Tail(p) \in Seq(T) /\ Len(Tail(p)) = Len(p) - 1
      /\ \A i \in 1..Len(Tail(p)) : Tail(p)[i] = p[i + 1]
  BY HeadTailProperties, EmptySeq, LenProperties
<1>1. /\ p \o q \in Seq(T) /\ Len(p \o q) = Len(p) + Len(q)
      /\ \A i \in 1..Len(p) + Len(q) : (p \o q)[i] = IF i <= Len(p) THEN p[i] ELSE q[i - Len(p)]
  BY ConcatProperties
<1>2. p \o q # <<>>
  BY <1>0, <1>1, ConcatEqualIffEmpty
<1>3. Head(p \o q) = Head(p)
  <2>1. 1 \in 1..Len(p) + Len(q) /\ 1 <= Len(p)
    BY <1>0
  <2>2. (p \o q)[1] = p[1]
    BY <1>1, <2>1
  <2>3. Head(p \o q) = (p \o q)[1] /\ Head(p) = p[1]
    BY <1>1, <1>2
  <2> QED  BY <2>2, <2>3
<1>4. Tail(p \o q) = Tail(p) \o q
  <2>1. /\ Tail(p \o q) \in Seq(T) /\ Len(Tail(p \o q)) = Len(p) + Len(q) - 1
        /\ \A i \in 1..Len(p) + Len(q) - 1 : Tail(p \o q)[i] = (p \o q)[i + 1]
    BY <1>0, <1>1, <1>2, HeadTailProperties
  <2>2. /\ Tail(p) \o q \in Seq(T) /\ Len(Tail(p) \o q) = Len(p) - 1 + Len(q)
        /\ \A i \in 1..Len(p) - 1 + Len(q) :
             (Tail(p) \o q)[i] = IF i <= Len(p) - 1 THEN Tail(p)[i] ELSE q[i - (Len(p) - 1)]
    BY <1>0, ConcatProperties
  <2>3. ASSUME NEW i \in 1..Len(p) + Len(q) - 1
        PROVE  Tail(p \o q)[i] = (Tail(p) \o q)[i]
    <3>1. /\ Tail(p \o q)[i] = (p \o q)[i + 1] /\ i + 1 \in 1..Len(p) + Len(q)
          /\ i \in 1..Len(p) - 1 + Len(q)
      BY <1>0, <2>1
    <3>2. CASE i <= Len(p) - 1
      <4>1. i \in 1..Len(Tail(p)) /\ i + 1 <= Len(p)
        BY <1>0, <3>2
      <4> QED  BY <1>0, <1>1, <2>2, <3>1, <3>2, <4>1
    <3>3. CASE ~ (i <= Len(p) - 1)
      <4>1. ~ (i + 1 <= Len(p)) /\ i + 1 - Len(p) = i - (Len(p) - 1)
        BY <1>0, <3>3
      <4> QED  BY <1>1, <2>2, <3>1, <3>3, <4>1
    <3> QED  BY <3>2, <3>3
  <2> QED  BY <1>0, <2>1, <2>2, <2>3, SeqEqual
<1> QED  BY <1>2, <1>3, <1>4

LEMMA RestedHandle ==
  ASSUME NEW d \in Clients, Kept(d), UNCHANGED <<viewers, drops>>
  PROVE  Rested(d)
<1>1. UNCHANGED Viewer(d)
  BY DEF Viewer, viewers
<1>2. Coming(d)' = Coming(d)
  BY DEF Kept, Coming
<1> QED  BY <1>1, <1>2 DEF Rested, Kept, Handle

LEMMA CutHandle ==
  ASSUME NEW d \in Clients, NEW state, Shut(d, state), UNCHANGED viewers,
         \/ state = "closing" /\ drops'[d] = drops[d]
         \/ state = "down" /\ drops'[d] = drops[d] + 1
  PROVE  Cut(d)
<1>1. UNCHANGED Viewer(d)
  BY DEF Viewer, viewers
<1>2. Coming(d)' = <<>>
  BY DEF Shut, Coming
<1> QED  BY <1>1, <1>2 DEF Cut, Shut

\* A frame appended to the queues of a client comes after everything else.
LEMMA ComingAppend ==
  ASSUME TypeOK, NEW d \in Clients, NEW f \in Frames, reply'[d] = reply[d],
         \/ out'[d] = out[d] /\ held'[d] = Append(held[d], f)
         \/ /\ out'[d] = Append(out[d], f) /\ held'[d] = held[d]
            /\ reply[d] = <<>> /\ held[d] = <<>>
  PROVE  Coming(d)' = Append(Coming(d), f)
<1>1. out[d] \in Seq(Frames) /\ reply[d] \in Seq(Frames) /\ held[d] \in Seq(Frames)
  BY ComingType
<1>2. CASE out'[d] = out[d] /\ held'[d] = Append(held[d], f)
  <2>1. Coming(d)' = (out[d] \o reply[d]) \o Append(held[d], f)
    BY <1>2 DEF Coming
  <2>2. out[d] \o reply[d] \in Seq(Frames)
    BY <1>1, ConcatProperties
  <2>0. \A p, q \in Seq(Frames), e \in Frames : p \o Append(q, e) = Append(p \o q, e)
    BY ConcatAppend
  <2>3. (out[d] \o reply[d]) \o Append(held[d], f) = Append((out[d] \o reply[d]) \o held[d], f)
    BY <1>1, <2>0, <2>2, Zenon
  <2>4. Coming(d) = (out[d] \o reply[d]) \o held[d]
    BY DEF Coming
  <2> QED  BY <2>1, <2>3, <2>4, Zenon
<1>3. CASE /\ out'[d] = Append(out[d], f) /\ held'[d] = held[d]
           /\ reply[d] = <<>> /\ held[d] = <<>>
  <2>1. Append(out[d], f) \in Seq(Frames)
    BY <1>1
  <2>2. Coming(d)' = Append(out[d], f)
    BY <1>3, <2>1, ConcatEmptySeq DEF Coming
  <2>3. Coming(d) = out[d]
    BY <1>1, <1>3, ConcatEmptySeq DEF Coming
  <2> QED  BY <2>2, <2>3
<1> QED  BY <1>2, <1>3

LEMMA CheckpointType ==
  ASSUME TypeOK
  PROVE  checkpoint.seq \in Int /\ checkpoint.seq <= LatestSeq /\ LatestSeq \in Nat
<1>1. LatestSeq \in Nat
  BY DEF TypeOK, SessionTypeOK, LatestSeq
<1> QED  BY <1>1 DEF TypeOK, SessionTypeOK, NoCheckpoint

LEMMA EventEmit ==
  ASSUME TypeOK, StreamInv, LinkInv, Emit, NEW d \in Clients
  PROVE  Event(d)
<1>0. /\ UNCHANGED <<viewers, drops, checkpoint>> /\ outputs' = outputs \cup {nextSeq}
      /\ nextSeq' = nextSeq + 1
  BY DEF Emit
<1>1. CASE Shut(d, "closing")
  BY <1>0, <1>1, CutHandle DEF Event
<1>2. CASE Kept(d)
  BY <1>0, <1>2, RestedHandle DEF Event
<1>3. CASE Taken(d)
  <2>0. /\ nextSeq \in Nat \ {0} /\ lastSent[d] \in 0..nextSeq - 1 /\ outputs \subseteq 1..nextSeq - 1
        /\ OutputFrame(nextSeq) \in Frames
    BY FrameTypes DEF TypeOK, SessionTypeOK, HandlesTypeOK, LatestSeq
  <2>1. Coming(d)' = Append(Coming(d), OutputFrame(nextSeq))
    <3>1. ~attaching[d] => reply[d] = <<>> /\ held[d] = <<>>
      BY DEF LinkInv, LinkOf
    <3> QED  BY <1>3, <2>0, <3>1, ComingAppend DEF Taken
  <2>2. ASSUME checkpoint.seq <= lastSent[d], NEW o \in outputs'
        PROVE  o <= lastSent[d] \/ nextSeq <= o
    <3>1. CASE o = nextSeq
      BY <2>0, <3>1
    <3>2. CASE o \in outputs
      <4>1. attached[d] /\ (attaching[d] \/ ~paused[d])
        BY <1>3 DEF Taken
      <4>2. o <= lastSent[d] \/ lastSent[d] < checkpoint.seq
        BY <3>2, <4>1 DEF StreamInv, SentOrSkipped
      <4> QED  BY <2>0, <2>2, <4>2, CheckpointType
    <3> QED  BY <1>0, <3>1, <3>2
  <2>3. UNCHANGED Viewer(d)
    BY <1>0 DEF Viewer, viewers
  <2>4. nextSeq \in outputs' /\ lastSent[d] < nextSeq /\ nextSeq <= LatestSeq' /\ nextSeq \in Nat
    BY <1>0, <2>0 DEF LatestSeq
  <2>5. Fed(d)
    BY <1>0, <1>3, <2>1, <2>2, <2>3, <2>4 DEF Fed, Taken
  <2> QED  BY <2>5 DEF Event
<1> QED  BY <1>1, <1>2, <1>3, EmitEffect

LEMMA EventFlushSend ==
  ASSUME TypeOK, StreamInv, LinkInv, NEW c \in Clients, FlushSend(c), NEW d \in Clients
  PROVE  Event(d)
<1>0. UNCHANGED <<viewers, drops, session>> /\ flushing = c
  BY DEF FlushSend
<1>1. CASE CloseWriters({c}, "closing") /\ ClearFlow(c)
  <2>1. IF d = c THEN Shut(d, "closing") ELSE Kept(d)
    BY <1>1, CloseEffect
  <2> QED  BY <1>0, <2>1, CutHandle, RestedHandle DEF Event
<1>2. CASE /\ \E s \in MissingOutput(c) :
                /\ \A r \in MissingOutput(c) : s <= r
                /\ out' = [out EXCEPT ![c] = Append(@, OutputFrame(s))]
                /\ lastSent' = [lastSent EXCEPT ![c] = s]
           /\ unack' = [unack EXCEPT ![c] = @ + 1]
           /\ UNCHANGED <<flushing, attached, attaching, held, paused, lastAcked, reply, link,
                          requests>>
  <2>1. PICK s \in MissingOutput(c) :
                /\ \A r \in MissingOutput(c) : s <= r
                /\ out' = [out EXCEPT ![c] = Append(@, OutputFrame(s))]
                /\ lastSent' = [lastSent EXCEPT ![c] = s]
    BY <1>2
  <2>2. CASE d # c
    <3>1. Kept(d)
      BY <1>2, <2>1, <2>2 DEF Kept, TypeOK, HandlesTypeOK, ChannelsTypeOK
    <3> QED  BY <1>0, <3>1, RestedHandle DEF Event
  <2>3. CASE d = c
    <3>0. /\ outputs \subseteq 1..nextSeq - 1 /\ nextSeq \in Nat \ {0} /\ lastSent[d] \in 0..nextSeq - 1
          /\ retained \subseteq 1..nextSeq - 1
      BY DEF TypeOK, SessionTypeOK, HandlesTypeOK, LatestSeq
    <3>1. s \in retained /\ s \in outputs /\ s > lastSent[d] /\ s \in Nat /\ s <= nextSeq - 1
      BY <2>1, <2>3, <3>0 DEF MissingOutput, Missing
    <3>2. OutputFrame(s) \in Frames
      BY <3>1, FrameTypes
    <3>3. attached[d] /\ ~attaching[d] /\ (retained # {} => \E q \in retained : q <= lastSent[d] + 1)
      BY <1>0, <2>3 DEF StreamInv, FlushContinues
    <3>4. reply[d] = <<>> /\ held[d] = <<>>
      BY <3>3 DEF LinkInv, LinkOf
    <3>5. /\ out'[d] = Append(out[d], OutputFrame(s)) /\ lastSent'[d] = s
          /\ unack'[d] = unack[d] + 1
      BY <1>2, <2>1, <2>3 DEF TypeOK, HandlesTypeOK, ChannelsTypeOK
    <3>6. Coming(d)' = Append(Coming(d), OutputFrame(s))
      BY <1>2, <3>2, <3>4, <3>5, ComingAppend
    <3>7. ASSUME checkpoint.seq <= lastSent[d], NEW o \in outputs'
          PROVE  o <= lastSent[d] \/ s <= o
      <4>1. o \in outputs /\ o \in Nat /\ (o <= checkpoint.seq => o <= lastSent[d])
        BY <1>0, <3>0, <3>7, CheckpointType DEF session
      <4>2. CASE o \in retained
        <5>1. o > lastSent[d] => o \in MissingOutput(c)
          BY <2>3, <4>1, <4>2 DEF MissingOutput, Missing
        <5> QED  BY <2>1, <3>0, <4>1, <5>1
      <4>3. CASE \A r \in retained : o < r
        <5>1. PICK q \in retained : q <= lastSent[d] + 1
          BY <3>1, <3>3
        <5> QED  BY <3>0, <4>1, <4>3, <5>1
      <4> QED  BY <4>1, <4>2, <4>3 DEF StreamInv, OutputKept
    <3>8. UNCHANGED Viewer(d)
      BY <1>0 DEF Viewer, viewers
    <3>9. s \in outputs' /\ s <= LatestSeq'
      BY <1>0, <3>1 DEF session, LatestSeq
    <3>10. Fed(d)
      BY <1>0, <1>2, <3>1, <3>3, <3>5, <3>6, <3>7, <3>8, <3>9 DEF Fed
    <3> QED  BY <3>10 DEF Event
  <2> QED  BY <2>2, <2>3
<1> QED  BY <1>1, <1>2 DEF FlushSend

LEMMA EventHandleAttach ==
  ASSUME TypeOK, LinkInv, NEW c \in Clients, HandleAttach(c), NEW d \in Clients
  PROVE  Event(d)
<1>0. UNCHANGED <<viewers, drops, session, out, link>>
  BY DEF HandleAttach
<1>1. CASE d # c
  <2>1. Kept(d)
    BY <1>0, <1>1 DEF HandleAttach, PopRequest, Kept, TypeOK, HandlesTypeOK, ChannelsTypeOK
  <2> QED  BY <1>0, <2>1, RestedHandle DEF Event
<1>2. CASE d = c
  <2> DEFINE answer == AttachedFrames(Head(requests[d]).seq)
  <2>1. /\ requests[d] # <<>> /\ Head(requests[d]).kind = "attach" /\ ~attaching[d]
    BY <1>2 DEF HandleAttach, Handles
  <2>2. attached'[d] /\ unack'[d] = 0 /\ lastSent'[d] = LatestSeq /\ lastAcked'[d] = LatestSeq
    BY <1>2 DEF HandleAttach, TypeOK, HandlesTypeOK
  <2>3. reply'[d] = answer /\ held'[d] = <<>> /\ requests'[d] = Tail(requests[d])
    BY <1>2 DEF HandleAttach, PopRequest, TypeOK, ChannelsTypeOK
  <2>4. requests[d] \in Seq(Requests)
    BY DEF TypeOK, ChannelsTypeOK
  <2>5. link[d] = "up" /\ ~attached[d]
    <3>1. 1 \in DOMAIN requests[d] /\ requests[d][1].kind = "attach"
      BY <2>1, <2>4
    <3> QED  BY <3>1 DEF LinkInv, LinkOf
  <2>6. out[d] = <<>> /\ reply[d] = <<>> /\ held[d] = <<>>
    BY <2>1, <2>5 DEF LinkInv, LinkOf
  <2>7. answer \in Seq(Frames)
    BY <2>1, <2>4, HeadRequest, AttachedFramesType
  <2> HIDE DEF answer
  <2>8. Coming(d)' = answer
    BY <1>0, <2>3, <2>6, <2>7, ConcatEmptySeq DEF Coming
  <2>9. Coming(d) = <<>>
    BY <2>6 DEF Coming
  <2>10. UNCHANGED Viewer(d)
    BY <1>0 DEF Viewer, viewers
  <2>11. Joined(d)
    BY <1>0, <2>1, <2>2, <2>3, <2>5, <2>8, <2>9, <2>10 DEF Joined, answer
  <2> QED  BY <2>11 DEF Event
<1> QED  BY <1>1, <1>2

LEMMA EventAttach ==
  ASSUME TypeOK, LinkInv, NEW c \in Clients, AttachReply(c) \/ CompleteAttach(c), NEW d \in Clients
  PROVE  Event(d)
<1> USE DEF handles
<1>0. UNCHANGED <<viewers, drops, session>>
  BY DEF AttachReply, CompleteAttach
<1>1. CASE CloseWriters({c}, "closing") /\ ClearFlow(c)
  <2>1. IF d = c THEN Shut(d, "closing") ELSE Kept(d)
    BY <1>1, CloseEffect
  <2> QED  BY <1>0, <2>1, CutHandle, RestedHandle DEF Event
<1>2. CASE \/ /\ out' = [out EXCEPT ![c] = @ \o reply[c]]
              /\ reply' = [reply EXCEPT ![c] = <<>>]
              /\ UNCHANGED <<attached, held, unack, lastSent, lastAcked, link, requests>>
           \/ /\ reply[c] = <<>>
              /\ out' = [out EXCEPT ![c] = @ \o held[c]]
              /\ held' = [held EXCEPT ![c] = <<>>]
              /\ UNCHANGED <<attached, reply, unack, lastSent, lastAcked, link, requests>>
  <2>0. out[d] \in Seq(Frames) /\ reply[d] \in Seq(Frames) /\ held[d] \in Seq(Frames)
    BY ComingType
  <2>1. Coming(d)' = Coming(d)
    <3>1. CASE d # c
      BY <1>2, <3>1 DEF Coming, TypeOK, ChannelsTypeOK
    <3>2. CASE d = c
      <4>1. CASE /\ out' = [out EXCEPT ![c] = @ \o reply[c]]
                 /\ reply' = [reply EXCEPT ![c] = <<>>] /\ held' = held
        <5>1. out'[d] = out[d] \o reply[d] /\ reply'[d] = <<>> /\ held'[d] = held[d]
          BY <3>2, <4>1 DEF TypeOK, ChannelsTypeOK
        <5>2. (out[d] \o reply[d]) \o <<>> = out[d] \o reply[d]
          BY <2>0, ConcatProperties, ConcatEmptySeq
        <5> QED  BY <5>1, <5>2 DEF Coming
      <4>2. CASE /\ reply[c] = <<>> /\ out' = [out EXCEPT ![c] = @ \o held[c]]
                 /\ held' = [held EXCEPT ![c] = <<>>] /\ reply' = reply
        <5>1. out'[d] = out[d] \o held[d] /\ reply'[d] = <<>> /\ held'[d] = <<>> /\ reply[d] = <<>>
          BY <3>2, <4>2 DEF TypeOK, ChannelsTypeOK
        <5>2. out[d] \o held[d] \in Seq(Frames)
          BY <2>0, ConcatProperties
        <5>3. Coming(d)' = out[d] \o held[d]
          BY <5>1, <5>2, ConcatEmptySeq DEF Coming
        <5>4. Coming(d) = out[d] \o held[d]
          BY <2>0, <5>1, ConcatEmptySeq DEF Coming
        <5> QED  BY <5>3, <5>4
      <4> QED  BY <1>2, <4>1, <4>2
    <3> QED  BY <3>1, <3>2
  <2>2. UNCHANGED Viewer(d)
    BY <1>0 DEF Viewer, viewers
  <2>3. UNCHANGED <<Handle(d), link[d], requests[d]>>
    BY <1>2 DEF Handle
  <2>4. Rested(d)
    BY <1>0, <2>1, <2>2, <2>3 DEF Rested
  <2> QED  BY <2>4 DEF Event
<1> QED  BY <1>1, <1>2 DEF AttachReply, CompleteAttach

LEMMA EventServed ==
  ASSUME TypeOK, LinkInv, NEW c \in Clients, HandleAck(c) \/ HandleCheckpoint(c), NEW d \in Clients
  PROVE  Event(d)
<1> USE DEF handles
<1>0. /\ UNCHANGED <<viewers, drops>> /\ requests[c] # <<>>
      /\ HandleAck(c) => Head(requests[c]).kind = "ack"
      /\ HandleCheckpoint(c) => Head(requests[c]).kind = "checkpoint"
  BY DEF HandleAck, HandleCheckpoint, Handles
<1>1. CASE CloseWriters({c}, "closing") /\ ClearFlow(c)
  <2>1. IF d = c THEN Shut(d, "closing") ELSE Kept(d)
    BY <1>1, CloseEffect
  <2> QED  BY <1>0, <2>1, CutHandle, RestedHandle DEF Event
<1>2. ASSUME PopRequest(c), UNCHANGED <<attached, attaching, held, paused, lastSent, reply, out, link>>,
             \/ /\ UNCHANGED handles
                /\ Head(requests[c]).kind = "ack" => ~Counts(c, Head(requests[c]).seq)
             \/ /\ Head(requests[c]).kind = "ack" /\ Counts(c, Head(requests[c]).seq)
                /\ unack' = [unack EXCEPT ![c] = Remaining(c)]
                /\ lastAcked' = [lastAcked EXCEPT ![c] = Head(requests[c]).seq]
      PROVE  Event(d)
  <2>1. CASE d # c
    <3>1. Kept(d)
      BY <1>2, <2>1 DEF PopRequest, Kept, TypeOK, HandlesTypeOK, ChannelsTypeOK
    <3> QED  BY <1>0, <3>1, RestedHandle DEF Event
  <2>2. CASE d = c
    <3>1. /\ requests[d] # <<>> /\ Head(requests[d]).kind \in {"ack", "checkpoint"}
          /\ requests'[d] = Tail(requests[d])
      BY <1>0, <1>2, <2>2 DEF PopRequest, TypeOK, ChannelsTypeOK
    <3>2. UNCHANGED <<attached[d], lastSent[d], link[d], drops[d], Coming(d)>>
      BY <1>0, <1>2 DEF Coming
    <3>3. UNCHANGED Viewer(d)
      BY <1>0 DEF Viewer, viewers
    <3>4. \/ /\ Head(requests[d]).kind = "ack" => ~Counts(d, Head(requests[d]).seq)
             /\ UNCHANGED Handle(d)
          \/ /\ Head(requests[d]).kind = "ack" /\ Counts(d, Head(requests[d]).seq)
             /\ unack'[d] = Remaining(d) /\ lastAcked'[d] = Head(requests[d]).seq
      BY <1>2, <2>2 DEF Handle, TypeOK, HandlesTypeOK
    <3>5. Served(d)
      BY <3>1, <3>2, <3>3, <3>4 DEF Served
    <3> QED  BY <3>5 DEF Event
  <2> QED  BY <2>1, <2>2
<1>3. CASE HandleAck(c)
  BY <1>0, <1>1, <1>2, <1>3 DEF HandleAck
<1>4. CASE HandleCheckpoint(c)
  <2>1. \/ CloseWriters({c}, "closing") /\ ClearFlow(c)
        \/ PopRequest(c) /\ UNCHANGED <<handles, out, link>>
    BY <1>4 DEF HandleCheckpoint
  <2> QED  BY <1>0, <1>1, <1>2, <1>4, <2>1
<1> QED  BY <1>3, <1>4

\* The steps of a client, seen from another one.
LEMMA EventOther ==
  ASSUME TypeOK, NEW c \in Clients, ClientStep(c) \/ Checkpointing(c), NEW d \in Clients, d # c
  PROVE  Event(d)
<1> USE DEF session, handles, viewers
<1>1. UNCHANGED <<attached[d], unack[d], lastSent[d], lastAcked[d], reply[d], held[d]>>
  BY DEF ClientStep, Deliver, Commit, NoticeClose, Connect, SendAttach,
         Checkpointing, Serialize, SendCheckpoint
<1>2. UNCHANGED <<out[d], link[d], requests[d], drops[d]>>
  BY DEF ClientStep, Deliver, Commit, NoticeClose, Connect, SendAttach,
         Checkpointing, Serialize, SendCheckpoint,
         TypeOK, ChannelsTypeOK
<1>3. UNCHANGED Viewer(d)
  BY DEF ClientStep, Deliver, Commit, NoticeClose, Connect, SendAttach,
         Checkpointing, Serialize, SendCheckpoint,
         TypeOK, ViewersTypeOK, Viewer
<1>4. Coming(d)' = Coming(d)
  BY <1>1, <1>2 DEF Coming
<1>5. Rested(d)
  BY <1>1, <1>2, <1>3, <1>4 DEF Rested, Handle
<1> QED  BY <1>5 DEF Event

LEMMA EventDeliver ==
  ASSUME TypeOK, LinkInv, NEW d \in Clients, Deliver(d)
  PROVE  Event(d)
<1>1. out[d] # <<>> /\ attached[d]
  BY DEF Deliver, LinkInv, LinkOf
<1>2. /\ out[d] \in Seq(Frames) /\ reply[d] \in Seq(Frames) /\ held[d] \in Seq(Frames)
      /\ reply[d] \o held[d] \in Seq(Frames) /\ Tail(out[d]) \in Seq(Frames)
  BY <1>1, ComingType, ConcatProperties, HeadTailProperties
<1>3. out'[d] = Tail(out[d]) /\ reply'[d] = reply[d] /\ held'[d] = held[d]
  BY DEF Deliver, handles, TypeOK, ChannelsTypeOK
<1>4. /\ Coming(d) = out[d] \o (reply[d] \o held[d])
      /\ Coming(d)' = Tail(out[d]) \o (reply[d] \o held[d])
  <2>0. \A p, q, r \in Seq(Frames) : (p \o q) \o r = p \o (q \o r)
    BY ConcatAssociative
  <2>1. (out[d] \o reply[d]) \o held[d] = out[d] \o (reply[d] \o held[d])
    BY <1>2, <2>0, Zenon
  <2>2. (Tail(out[d]) \o reply[d]) \o held[d] = Tail(out[d]) \o (reply[d] \o held[d])
    BY <1>2, <2>0, Zenon
  <2> QED  BY <1>3, <2>1, <2>2 DEF Coming
<1>5. Coming(d) # <<>> /\ Head(Coming(d)) = Head(out[d]) /\ Coming(d)' = Tail(Coming(d))
  <2> DEFINE rest == reply[d] \o held[d]
  <2>1. rest \in Seq(Frames)
    BY <1>2
  <2> HIDE DEF rest
  <2>2. /\ out[d] \o rest # <<>> /\ Head(out[d] \o rest) = Head(out[d])
        /\ Tail(out[d] \o rest) = Tail(out[d]) \o rest
    BY <1>1, <1>2, <2>1, ConcatTail, Zenon
  <2> QED  BY <1>4, <2>2, Zenon DEF rest
<1> DEFINE frame == Head(out[d])
           fresh == frame.kind # "output" \/ frame.seq > received[d]
           shown == frame.kind # "attached" /\ fresh /\ Takes(d, frame)
<1>6. received'[d] = IF frame.kind = "attached" \/ (frame.kind = "output" /\ fresh)
                       THEN frame.seq ELSE received[d]
  BY DEF Deliver, TypeOK, ViewersTypeOK
<1>7. inbox'[d] = IF shown THEN Append(inbox[d], frame) ELSE inbox[d]
  BY Zenon DEF Deliver, TypeOK, ViewersTypeOK
<1>8. rendered'[d] = IF frame.kind = "reset" /\ d \in Terminals THEN 0 ELSE rendered[d]
  BY DEF Deliver, TypeOK, ViewersTypeOK
<1>9. UNCHANGED <<session, Handle(d), link[d], requests[d], drops[d], committed[d], screen[d]>>
  BY DEF Deliver, handles, Handle
<1>10. Delivered(d)
  BY <1>1, <1>5, <1>6, <1>7, <1>8, <1>9 DEF Delivered
<1> QED  BY <1>10 DEF Event

LEMMA EventCommit ==
  ASSUME TypeOK, NEW d \in Clients, Commit(d)
  PROVE  Wrote(d) /\ Event(d)
<1> DEFINE frame == Head(inbox[d])
           r == AckRequest(frame.seq)
<1>1. inbox[d] # <<>> /\ inbox'[d] = Tail(inbox[d])
  BY DEF Commit, TypeOK, ViewersTypeOK
<1>2. screen'[d] = IF frame.kind = "reset" THEN <<>> ELSE screen[d] \o frame.body
  BY DEF Commit, TypeOK, ViewersTypeOK
<1>3. /\ rendered'[d] = IF d \in Terminals THEN Advance(d, frame, rendered[d]) ELSE rendered[d]
      /\ committed'[d] = Advance(d, frame, committed[d])
  BY DEF Commit, Advance, TypeOK, ViewersTypeOK
<1>4. requests'[d] = IF Commits(d, frame) /\ frame.seq > 0 /\ frame.body # <<>> /\ Open(d)
                       THEN Append(requests[d], r) ELSE requests[d]
  BY Zenon DEF Commit, TypeOK, ChannelsTypeOK
<1>5. UNCHANGED <<session, Handle(d), Coming(d), link[d], drops[d], received[d]>>
  BY DEF Commit, handles, Handle, Coming
<1>6. Wrote(d)
  BY <1>1, <1>2, <1>3, <1>4, <1>5 DEF Wrote
<1> QED  BY <1>6 DEF Event

LEMMA EventAsk ==
  ASSUME TypeOK, NEW d \in Clients, Checkpointing(d)
  PROVE  Event(d)
<1> DEFINE r == CheckpointRequest(rendered[d], snapshot[d].body, Late(d))
<1>1. /\ UNCHANGED <<session, handles, out, link, drops, received, committed, rendered, inbox, screen>>
      /\ \/ requests' = requests
         \/ ~Idle(d) /\ requests' = [requests EXCEPT ![d] = Append(requests[d], r)]
  <2>1. CASE Serialize(d)
    BY <2>1 DEF Serialize
  <2>2. CASE SendCheckpoint(d)
    <3>1. requests' = [requests EXCEPT ![d] = IF Open(d) THEN Append(requests[d], r) ELSE requests[d]]
      BY <2>2 DEF SendCheckpoint
    <3>2. requests = [requests EXCEPT ![d] = requests[d]]
      BY DEF TypeOK, ChannelsTypeOK
    <3> HIDE DEF r
    <3>3. requests' = requests \/ requests' = [requests EXCEPT ![d] = Append(requests[d], r)]
      BY <3>1, <3>2
    <3> QED  BY <2>2, <3>3 DEF SendCheckpoint, r
  <2> QED  BY <2>1, <2>2 DEF Checkpointing
<1> HIDE DEF r
<1>2. requests'[d] = requests[d] \/ (~Idle(d) /\ requests'[d] = Append(requests[d], r))
  BY <1>1 DEF TypeOK, ChannelsTypeOK
<1>3. UNCHANGED <<Handle(d), Coming(d), link[d], drops[d], Viewer(d)>>
  BY <1>1 DEF handles, Handle, Coming, Viewer
<1>4. CheckpointReplay /\ d \in Terminals
  BY DEF Checkpointing, Serialize, SendCheckpoint, Idle, TypeOK, ViewersTypeOK
<1>5. CASE requests'[d] = requests[d]
  BY <1>3, <1>5 DEF Rested, Event
<1>6. CASE ~Idle(d) /\ requests'[d] = Append(requests[d], r)
  <2>1. Uploaded(d)
    BY <1>1, <1>3, <1>4, <1>6 DEF Uploaded, r
  <2> QED  BY <2>1 DEF Event
<1> QED  BY <1>2, <1>5, <1>6

LEMMA EventReach ==
  ASSUME TypeOK, LinkInv, NEW d \in Clients, NoticeClose(d) \/ Connect(d) \/ SendAttach(d)
  PROVE  Event(d)
<1>1. /\ UNCHANGED <<session, handles, out, committed, rendered, inbox, screen>>
      /\ link[d] \in {"closing", "down", "connected"}
  BY DEF NoticeClose, Connect, SendAttach, viewers
<1>2. ~attached[d]
  BY <1>1 DEF LinkInv, LinkOf
<1>3. UNCHANGED <<Handle(d), Coming(d), committed[d], rendered[d], inbox[d], screen[d]>>
  BY <1>1 DEF handles, Handle, Coming
<1>4. \/ /\ link[d] = "closing" /\ link'[d] = "down" /\ drops'[d] = drops[d] + 1
         /\ UNCHANGED <<requests[d], received[d]>>
      \/ /\ link[d] = "down" /\ link'[d] = "connected"
         /\ UNCHANGED <<drops[d], requests[d], received[d]>>
      \/ /\ link[d] = "connected" /\ link'[d] = "up" /\ received'[d] = committed[d]
         /\ requests'[d] = Append(requests[d], AttachRequest(committed[d]))
         /\ UNCHANGED drops[d]
  <2>1. CASE NoticeClose(d)
    BY <2>1 DEF NoticeClose, viewers, TypeOK, ChannelsTypeOK
  <2>2. CASE Connect(d)
    BY <2>2 DEF Connect, viewers, TypeOK, ChannelsTypeOK
  <2>3. CASE SendAttach(d)
    <3>1. requests'[d] = Append(requests[d], AttachRequest(committed[d]))
      BY <2>3, Zenon DEF SendAttach, TypeOK, ChannelsTypeOK
    <3>2. /\ link[d] = "connected" /\ link'[d] = "up" /\ received'[d] = committed[d]
          /\ drops' = drops
      BY <2>3 DEF SendAttach, TypeOK, ChannelsTypeOK, ViewersTypeOK
    <3> QED  BY <3>1, <3>2
  <2> QED  BY <2>1, <2>2, <2>3
<1>5. Reached(d)
  BY <1>1, <1>2, <1>3, <1>4 DEF Reached
<1> QED  BY <1>5 DEF Event

\* Every step is one of the events, for every client.
LEMMA ClientEvent ==
  ASSUME TypeOK, StreamInv, LinkInv, [Next]_vars, NEW d \in Clients
  PROVE  Event(d)
<1>1. CASE Emit
  BY <1>1, EventEmit
<1>2. ASSUME UNCHANGED <<attached, unack, lastSent, lastAcked, reply, held, out, link, requests,
                         drops, viewers>>
      PROVE  Event(d)
  <2>1. UNCHANGED <<Handle(d), Coming(d), link[d], requests[d], drops[d], Viewer(d)>>
    BY <1>2 DEF Handle, Coming, Viewer, viewers
  <2> QED  BY <2>1 DEF Rested, Event
<1>3. CASE Resize
  BY <1>2, <1>3 DEF Resize, handles
<1>4. CASE UNCHANGED vars
  BY <1>2, <1>4 DEF vars, handles
<1>5. ASSUME NEW c \in Clients, FlushEnd(c)
      PROVE  Event(d)
  BY <1>2, <1>5 DEF FlushEnd
<1>6. ASSUME NEW c \in Clients, DaemonStep(c)
      PROVE  Event(d)
  BY <1>5, <1>6, EventFlushSend, EventHandleAttach, EventAttach, EventServed DEF DaemonStep
<1>7. ASSUME NEW c \in Clients, Drop(c)
      PROVE  Event(d)
  <2>1. /\ CloseWriters({c}, "down") /\ ClearFlow(c) /\ UNCHANGED viewers
        /\ drops' = [drops EXCEPT ![c] = @ + 1]
    BY <1>7 DEF Drop
  <2>2. IF d = c THEN Shut(d, "down") ELSE Kept(d)
    BY <2>1, CloseEffect
  <2>3. drops'[d] = IF d = c THEN drops[d] + 1 ELSE drops[d]
    BY <2>1 DEF TypeOK
  <2>4. CASE d = c
    BY <2>1, <2>2, <2>3, <2>4, CutHandle DEF Event
  <2>5. CASE d # c
    <3>1. UNCHANGED Viewer(d)
      BY <2>1 DEF Viewer, viewers
    <3>2. Coming(d)' = Coming(d)
      BY <2>2, <2>5 DEF Kept, Coming
    <3>3. Rested(d)
      BY <2>2, <2>3, <2>5, <3>1, <3>2 DEF Kept, Handle, Rested
    <3> QED  BY <3>3 DEF Event
  <2> QED  BY <2>4, <2>5
<1>8. ASSUME NEW c \in Clients, ClientStep(c) \/ Checkpointing(c)
      PROVE  Event(d)
  <2>1. CASE d # c
    BY <1>8, <2>1, EventOther
  <2>2. CASE d = c
    BY <1>8, <2>2, EventDeliver, EventCommit, EventAsk, EventReach DEF ClientStep
  <2> QED  BY <2>1, <2>2
<1> QED  BY <1>1, <1>3, <1>4, <1>6, <1>7, <1>8 DEF Next

(***************************************************************************)
(* What a queue contains, and in which order.                              *)
(***************************************************************************)

\* f stands before g in the queue q.
Precedes(q, f, g) == \E i, j \in DOMAIN q : i < j /\ f = q[i] /\ g = q[j]

LEMMA RangeOf ==
  ASSUME NEW T, NEW q \in Seq(T)
  PROVE  /\ Range(q) \subseteq T
         /\ \A i \in DOMAIN q : q[i] \in Range(q)
         /\ \A x \in Range(q) : \E i \in DOMAIN q : x = q[i]
<1>1. \A i \in DOMAIN q : q[i] \in T
  BY LenProperties
<1> QED  BY <1>1 DEF Range

LEMMA NoneIn ==
  /\ Range(<<>>) = {}
  /\ \A f, g : ~Precedes(<<>>, f, g)
<1>1. DOMAIN <<>> = {}
  OBVIOUS
<1> QED  BY <1>1 DEF Range, Precedes

LEMMA OneIn ==
  ASSUME NEW e
  PROVE  /\ Range(<<e>>) = {e}
         /\ \A f, g : ~Precedes(<<e>>, f, g)
<1>1. DOMAIN <<e>> = {1} /\ <<e>>[1] = e
  OBVIOUS
<1>2. \A i, j \in {1} : ~ (i < j)
  OBVIOUS
<1> HIDE DEF Range
<1>3. Range(<<e>>) = {e}
  BY <1>1 DEF Range
<1> QED  BY <1>1, <1>2, <1>3 DEF Precedes

LEMMA ConcatIn ==
  ASSUME NEW T, NEW p \in Seq(T), NEW q \in Seq(T)
  PROVE  /\ Range(p \o q) = Range(p) \cup Range(q)
         /\ \A f, g : Precedes(p \o q, f, g) <=>
              \/ Precedes(p, f, g) \/ Precedes(q, f, g)
              \/ f \in Range(p) /\ g \in Range(q)
<1> DEFINE m == Len(p)
           n == Len(q)
           r == p \o q
<1>0. /\ m \in Nat /\ n \in Nat /\ DOMAIN p = 1..m /\ DOMAIN q = 1..n /\ DOMAIN r = 1..m + n
      /\ \A i \in 1..m + n : r[i] = IF i <= m THEN p[i] ELSE q[i - m]
  BY ConcatProperties, LenProperties
<1>1. \A i \in 1..m : i \in 1..m + n /\ r[i] = p[i]
  BY <1>0
<1>2. \A i \in 1..n : i + m \in 1..m + n /\ r[i + m] = q[i]
  BY <1>0
<1>3. \A i \in 1..m + n : ~ (i <= m) => i - m \in 1..n /\ r[i] = q[i - m]
  BY <1>0
<1>4. \A i \in 1..m + n : i <= m => i \in 1..m /\ r[i] = p[i]
  BY <1>0
<1> HIDE DEF m, n, r
<1>5. Range(r) = Range(p) \cup Range(q)
  <2>1. ASSUME NEW x \in Range(r)
        PROVE  x \in Range(p) \cup Range(q)
    <3>1. PICK k \in 1..m + n : x = r[k]
      BY <1>0, <2>1 DEF Range
    <3>2. CASE k <= m
      BY <1>0, <1>4, <3>1, <3>2 DEF Range
    <3>3. CASE ~ (k <= m)
      BY <1>0, <1>3, <3>1, <3>3 DEF Range
    <3> QED  BY <3>2, <3>3
  <2>2. ASSUME NEW x \in Range(p)
        PROVE  x \in Range(r)
    <3>1. PICK k \in 1..m : x = p[k]
      BY <1>0, <2>2 DEF Range
    <3> QED  BY <1>0, <1>1, <3>1 DEF Range
  <2>3. ASSUME NEW x \in Range(q)
        PROVE  x \in Range(r)
    <3>1. PICK k \in 1..n : x = q[k]
      BY <1>0, <2>3 DEF Range
    <3> QED  BY <1>0, <1>2, <3>1 DEF Range
  <2> QED  BY <2>1, <2>2, <2>3
<1>6. ASSUME NEW f, NEW g, Precedes(r, f, g)
      PROVE  \/ Precedes(p, f, g) \/ Precedes(q, f, g)
             \/ f \in Range(p) /\ g \in Range(q)
  <2>1. PICK i \in 1..m + n : \E j \in 1..m + n : i < j /\ f = r[i] /\ g = r[j]
    BY <1>0, <1>6 DEF Precedes
  <2>2. PICK j \in 1..m + n : i < j /\ f = r[i] /\ g = r[j]
    BY <2>1
  <2>3. CASE j <= m
    <3>1. i \in 1..m /\ j \in 1..m /\ f = p[i] /\ g = p[j]
      BY <1>0, <1>4, <2>2, <2>3
    <3> QED  BY <1>0, <2>2, <3>1 DEF Precedes
  <2>4. CASE ~ (i <= m)
    <3>1. i - m \in 1..n /\ j - m \in 1..n /\ f = q[i - m] /\ g = q[j - m] /\ i - m < j - m
      BY <1>0, <1>3, <2>2, <2>4
    <3> QED  BY <1>0, <3>1 DEF Precedes
  <2>5. CASE i <= m /\ ~ (j <= m)
    <3>1. i \in 1..m /\ j - m \in 1..n /\ f = p[i] /\ g = q[j - m]
      BY <1>3, <1>4, <2>2, <2>5
    <3> QED  BY <1>0, <3>1 DEF Range
  <2> QED  BY <2>3, <2>4, <2>5
<1>7. ASSUME NEW f, NEW g, Precedes(p, f, g)
      PROVE  Precedes(r, f, g)
  <2>1. PICK i \in 1..m : \E j \in 1..m : i < j /\ f = p[i] /\ g = p[j]
    BY <1>0, <1>7 DEF Precedes
  <2> QED  BY <1>0, <1>1, <2>1 DEF Precedes
<1>8. ASSUME NEW f, NEW g, Precedes(q, f, g)
      PROVE  Precedes(r, f, g)
  <2>1. PICK i \in 1..n : \E j \in 1..n : i < j /\ f = q[i] /\ g = q[j]
    BY <1>0, <1>8 DEF Precedes
  <2>2. PICK j \in 1..n : i < j /\ f = q[i] /\ g = q[j]
    BY <2>1
  <2>3. /\ i + m \in 1..m + n /\ j + m \in 1..m + n /\ i + m < j + m
        /\ f = r[i + m] /\ g = r[j + m]
    BY <1>0, <1>2, <2>2
  <2> QED  BY <1>0, <2>3 DEF Precedes
<1>9. ASSUME NEW f \in Range(p), NEW g \in Range(q)
      PROVE  Precedes(r, f, g)
  <2>1. PICK i \in 1..m : f = p[i]
    BY <1>0 DEF Range
  <2>2. PICK j \in 1..n : g = q[j]
    BY <1>0 DEF Range
  <2>3. /\ i \in 1..m + n /\ j + m \in 1..m + n /\ i < j + m
        /\ f = r[i] /\ g = r[j + m]
    BY <1>0, <1>1, <1>2, <2>1, <2>2
  <2> QED  BY <1>0, <2>3 DEF Precedes
<1>10. \A f, g : Precedes(r, f, g) <=>
              \/ Precedes(p, f, g) \/ Precedes(q, f, g)
              \/ f \in Range(p) /\ g \in Range(q)
  BY <1>6, <1>7, <1>8, <1>9
<1> QED  BY <1>5, <1>10 DEF r

LEMMA AppendIn ==
  ASSUME NEW T, NEW q \in Seq(T), NEW e \in T
  PROVE  /\ Append(q, e) \in Seq(T)
         /\ Range(Append(q, e)) = Range(q) \cup {e}
         /\ \A f, g : Precedes(Append(q, e), f, g) <=>
              \/ Precedes(q, f, g)
              \/ f \in Range(q) /\ g = e
<1>1. Append(q, e) = q \o <<e>> /\ <<e>> \in Seq(T) /\ Append(q, e) \in Seq(T)
  BY AppendIsConcat
<1> DEFINE l == <<e>>
<1>2. Range(l) = {e} /\ \A f, g : ~Precedes(l, f, g)
  BY OneIn
<1>3. l \in Seq(T) /\ Append(q, e) = q \o l
  BY <1>1
<1> HIDE DEF l
<1>4. /\ Range(q \o l) = Range(q) \cup Range(l)
      /\ \A f, g : Precedes(q \o l, f, g) <=>
              \/ Precedes(q, f, g) \/ Precedes(l, f, g)
              \/ f \in Range(q) /\ g \in Range(l)
  BY <1>3, ConcatIn, Zenon
<1> QED  BY <1>1, <1>2, <1>3, <1>4

LEMMA TailIn ==
  ASSUME NEW T, NEW q \in Seq(T), q # <<>>
  PROVE  /\ Head(q) \in T /\ Tail(q) \in Seq(T)
         /\ Range(q) = {Head(q)} \cup Range(Tail(q))
         /\ \A f, g : Precedes(q, f, g) <=>
              \/ Precedes(Tail(q), f, g)
              \/ f = Head(q) /\ g \in Range(Tail(q))
<1> DEFINE e == Head(q)
           t == Tail(q)
           l == <<e>>
<1>1. e \in T /\ t \in Seq(T) /\ l \in Seq(T) /\ q = l \o t
  BY HeadTailProperties
<1>2. Range(l) = {e} /\ \A f, g : ~Precedes(l, f, g)
  BY OneIn
<1> HIDE DEF e, t, l
<1>3. /\ Range(l \o t) = Range(l) \cup Range(t)
      /\ \A f, g : Precedes(l \o t, f, g) <=>
              \/ Precedes(l, f, g) \/ Precedes(t, f, g)
              \/ f \in Range(l) /\ g \in Range(t)
  BY <1>1, ConcatIn, Zenon
<1>4. /\ Range(q) = {e} \cup Range(t)
      /\ \A f, g : Precedes(q, f, g) <=> (Precedes(t, f, g) \/ (f = e /\ g \in Range(t)))
  BY <1>1, <1>2, <1>3
<1> QED  BY <1>1, <1>4 DEF e, t

(***************************************************************************)
(* The window.                                                             *)
(***************************************************************************)

\* The answer to an attach has no live output and nothing that is still to come,
\* and one frame says where it ends.
LEMMA AnswerKnown ==
  ASSUME TypeOK, NEW after \in Nat
  PROVE  /\ AttachedFrames(after) \in Seq(Frames)
         /\ \A f \in Range(AttachedFrames(after)) : f.kind # "output" /\ f.seq \in 0..LatestSeq
         /\ \E p \in Seq(Frames) :
              /\ AttachedFrames(after) = Append(p, AttachedFrame(LatestSeq))
              /\ \A f \in Range(p) : f.kind \in {"reset", "replay"}
<1> DEFINE wanted(s) == ReplayReset(after) \/ s > after
           S == {s \in retained : wanted(s)}
           cp == IF checkpoint # NoCheckpoint /\ wanted(checkpoint.seq)
                   THEN <<[kind |-> "replay", seq |-> checkpoint.seq, body |-> checkpoint.body]>>
                   ELSE <<>>
           entries == [i \in DOMAIN Sorted(S) |-> ReplayFrame(Sorted(S)[i])]
           known == {f \in Frames : f.kind \in {"reset", "replay"} /\ f.seq \in 0..LatestSeq}
           first == IF ReplayReset(after) THEN <<ResetFrame>> ELSE <<>>
           last == <<AttachedFrame(LatestSeq)>>
<1>1. LatestSeq \in Nat /\ retained \subseteq 1..LatestSeq
  BY DEF TypeOK, SessionTypeOK, LatestSeq
<1>2. \A s \in 0..LatestSeq : ReplayFrame(s) \in known
  BY <1>1, FrameTypes DEF ReplayFrame
<1>3. /\ ResetFrame \in known /\ AttachedFrame(LatestSeq) \in Frames
      /\ AttachedFrame(LatestSeq).kind = "attached" /\ AttachedFrame(LatestSeq).seq = LatestSeq
      /\ known \subseteq Frames
  BY <1>1, FrameTypes DEF ResetFrame, AttachedFrame
<1>k. \A f \in known : f.kind \in {"reset", "replay"} /\ f.seq \in 0..LatestSeq
  OBVIOUS
<1>4. cp \in Seq(known)
  <2>1. CASE checkpoint # NoCheckpoint /\ wanted(checkpoint.seq)
    <3>1. checkpoint.seq \in 0..LatestSeq /\ checkpoint.body \in Seq(Nat)
      BY <2>1 DEF TypeOK, SessionTypeOK
    <3>2. [kind |-> "replay", seq |-> checkpoint.seq, body |-> checkpoint.body] \in known
      BY <1>1, <3>1 DEF Frames
    <3> HIDE DEF known
    <3> QED  BY <2>1, <3>2
  <2>2. CASE ~ (checkpoint # NoCheckpoint /\ wanted(checkpoint.seq))
    BY <2>2
  <2> QED  BY <2>1, <2>2
<1> HIDE DEF known
<1>5. entries \in Seq(known)
  <2>0. S \subseteq retained
    BY Zenon
  <2> HIDE DEF S
  <2>1. Sorted(S) \in Seq(S)
    BY <1>1, <2>0, SortedType
  <2>2. /\ DOMAIN Sorted(S) = 1..Len(Sorted(S)) /\ Len(Sorted(S)) \in Nat
        /\ \A i \in 1..Len(Sorted(S)) : Sorted(S)[i] \in 0..LatestSeq
    <3>1. S \subseteq 0..LatestSeq
      BY <1>1, <2>0
    <3> DEFINE q == Sorted(S)
    <3>2. q \in Seq(S)
      BY <2>1
    <3> HIDE DEF q
    <3>3. /\ DOMAIN q = 1..Len(q) /\ Len(q) \in Nat
          /\ \A i \in 1..Len(q) : q[i] \in S
      BY <3>2, LenProperties
    <3> QED  BY <3>1, <3>3 DEF q
  <2>3. entries \in [1..Len(Sorted(S)) -> known]
    BY <1>2, <2>2
  <2> QED  BY <2>2, <2>3, SeqDef
<1>6. first \in Seq(known)
  BY <1>3
<1>7. AttachedFrames(after) = (first \o (cp \o entries)) \o last
  BY DEF AttachedFrames, ReplayEntries
<1> HIDE DEF cp, entries, first
<1> DEFINE p == first \o (cp \o entries)
           e == AttachedFrame(LatestSeq)
<1>8. p \in Seq(known)
  BY <1>4, <1>5, <1>6, ConcatProperties
<1>9. p \in Seq(Frames) /\ AttachedFrames(after) = p \o <<e>>
  <2>1. Seq(known) \subseteq Seq(Frames)
    BY <1>3
  <2> QED  BY <1>7, <1>8, <2>1
<1> HIDE DEF p, e, last
<1>10. Range(p) \subseteq known
  BY <1>8, RangeOf
<1>11. p \o <<e>> = Append(p, e) /\ e \in Frames /\ Range(Append(p, e)) = Range(p) \cup {e}
  <2>1. e \in Frames
    BY <1>3 DEF e
  <2> QED  BY <1>9, <2>1, AppendIn, AppendIsConcat
<1>12. e.kind # "output" /\ e.seq \in 0..LatestSeq
  BY <1>1, <1>3 DEF e
<1>13. \A f \in Range(p) \cup {e} : f.kind # "output" /\ f.seq \in 0..LatestSeq
  BY <1>k, <1>10, <1>12
<1> HIDE DEF known
<1>14. AttachedFrames(after) = Append(p, e) /\ \A f \in Range(p) : f.kind \in {"reset", "replay"}
  BY <1>k, <1>9, <1>10, <1>11
<1> QED  BY <1>9, <1>11, <1>13, <1>14, AttachedFramesType DEF e

\* No live output is in the answer to an attach.
ReplyInv == \A c \in Clients : \A f \in Range(reply[c]) : f.kind # "output"

LEMMA ReplyStep ==
  ASSUME TypeOK, ReplyInv, [Next]_vars
  PROVE  ReplyInv'
<1> SUFFICES ASSUME NEW d \in Clients
             PROVE  \A f \in Range(reply'[d]) : f.kind # "output"
  BY DEF ReplyInv
<1> USE DEF handles
<1>1. CASE reply'[d] = reply[d]
  BY <1>1 DEF ReplyInv
<1>2. CASE reply'[d] = <<>>
  BY <1>2, NoneIn
<1>3. ASSUME NEW c \in Clients, HandleAttach(c)
      PROVE  \A f \in Range(reply'[d]) : f.kind # "output"
  <2> DEFINE answer == AttachedFrames(Head(requests[c]).seq)
  <2>1. requests[c] \in Seq(Requests) /\ requests[c] # <<>>
    BY <1>3 DEF HandleAttach, Handles, TypeOK, ChannelsTypeOK
  <2>2. \A f \in Range(answer) : f.kind # "output"
    BY <2>1, HeadRequest, AnswerKnown
  <2>3. reply'[d] = answer \/ reply'[d] = reply[d]
    BY <1>3 DEF HandleAttach, TypeOK, ChannelsTypeOK
  <2> HIDE DEF answer
  <2> QED  BY <1>1, <2>2, <2>3
<1>4. ASSUME NEW S, NEW state, CloseWriters(S, state)
      PROVE  reply'[d] = reply[d] \/ reply'[d] = <<>>
  BY <1>4 DEF CloseWriters, Override
<1>5. CASE Emit
  <2>1. \E S : CloseWriters(S, "closing")
    BY <1>5 DEF Emit
  <2> QED  BY <1>1, <1>2, <1>4, <2>1
<1>6. ASSUME NEW c \in Clients, DaemonStep(c), ~HandleAttach(c)
      PROVE  reply'[d] = reply[d] \/ reply'[d] = <<>>
  <2>1. CASE AttachReply(c)
    BY <2>1 DEF AttachReply, TypeOK, ChannelsTypeOK
  <2>2. CASE CompleteAttach(c)
    BY <1>4, <2>2 DEF CompleteAttach
  <2>3. CASE HandleAck(c)
    BY <1>4, <2>3 DEF HandleAck
  <2>4. CASE FlushSend(c)
    BY <1>4, <2>4 DEF FlushSend
  <2>5. CASE FlushEnd(c)
    BY <2>5 DEF FlushEnd
  <2>6. CASE HandleCheckpoint(c)
    BY <1>4, <2>6 DEF HandleCheckpoint
  <2> QED  BY <1>6, <2>1, <2>2, <2>3, <2>4, <2>5, <2>6 DEF DaemonStep
<1>7. ASSUME NEW c \in Clients, ClientStep(c) \/ Checkpointing(c)
      PROVE  reply'[d] = reply[d]
  BY <1>7 DEF ClientStep, Deliver, Commit, NoticeClose, Connect, SendAttach,
         Checkpointing, Serialize, SendCheckpoint
<1>8. ASSUME NEW c \in Clients, Drop(c)
      PROVE  reply'[d] = reply[d] \/ reply'[d] = <<>>
  BY <1>4, <1>8 DEF Drop
<1>9. CASE Resize \/ UNCHANGED vars
  BY <1>1, <1>9 DEF Resize, vars
<1> QED  BY <1>1, <1>2, <1>3, <1>5, <1>6, <1>7, <1>8, <1>9 DEF Next

\* Live output the client has not acknowledged; an acknowledgement that counts.
Due(f, a) == f.kind = "output" /\ f.seq > a
Counted(r, a) == r.kind = "ack" /\ r.seq > a

\* What has been sent to a client and is not written yet, and in which order.
Pending(d) == Range(inbox[d]) \cup Range(Coming(d))
Follows(d, f, g) ==
  \/ Precedes(inbox[d], f, g) \/ Precedes(Coming(d), f, g)
  \/ f \in Range(inbox[d]) /\ g \in Range(Coming(d))

\* Nothing a client has, or will have, is newer than the output.
KnownOf(d) ==
  /\ \A f \in Pending(d) : f.seq <= LatestSeq /\ (f.kind = "output" => f.body = <<f.seq>>)
  /\ \A r \in Range(requests[d]) : r.seq <= LatestSeq
  /\ received[d] <= LatestSeq /\ rendered[d] <= LatestSeq /\ committed[d] <= LatestSeq
\* Nor newer than what was sent to it since it attached; what is not live
\* output is settled.
SentOf(d) ==
  /\ lastAcked[d] <= lastSent[d] /\ received[d] <= lastSent[d] /\ rendered[d] <= lastSent[d]
  /\ \A f \in Pending(d) : f.seq <= lastSent[d] /\ (f.kind # "output" => f.seq <= lastAcked[d])
  /\ \A r \in Range(requests[d]) : r.kind = "ack" => r.seq <= lastSent[d]
\* Output that is not settled comes after everything that is, in its order.
SettledOf(d) ==
  \A f, g \in Pending(d) : Follows(d, f, g) =>
    /\ Due(g, lastAcked[d]) => f.seq < g.seq
    /\ Due(f, lastAcked[d]) => Due(g, lastAcked[d])
\* A filter lets it through.
AheadOf(d) ==
  \A f \in Range(Coming(d)) : Due(f, lastAcked[d]) =>
    received[d] < f.seq /\ (d \in Terminals => rendered[d] < f.seq)
\* It is acknowledged in its order.
AcksOf(d) ==
  /\ \A r, s \in Range(requests[d]) :
       Precedes(requests[d], r, s) /\ Counted(r, lastAcked[d]) /\ Counted(s, lastAcked[d])
         => r.seq < s.seq
  /\ \A r \in Range(requests[d]), f \in Pending(d) :
       Counted(r, lastAcked[d]) /\ Due(f, lastAcked[d]) => r.seq < f.seq
\* What is charged for is there.
ChargeOf(d) ==
  unack[d] = Owed(Coming(d), lastAcked[d]) + Owed(inbox[d], lastAcked[d])
               + Owed(requests[d], lastAcked[d])

WindowOf(d) == SentOf(d) /\ SettledOf(d) /\ AheadOf(d) /\ AcksOf(d) /\ ChargeOf(d)
CreditOf(d) == KnownOf(d) /\ (attached[d] => WindowOf(d))
CreditInv == \A d \in Clients : CreditOf(d)

LEMMA ClientTypes ==
  ASSUME TypeOK, NEW d \in Clients
  PROVE  /\ Coming(d) \in Seq(Frames) /\ inbox[d] \in Seq(Frames)
         /\ requests[d] \in Seq(Requests) /\ screen[d] \in Seq(Nat)
         /\ received[d] \in Nat /\ committed[d] \in Nat /\ rendered[d] \in Nat
         /\ unack[d] \in Nat /\ lastSent[d] \in Nat /\ lastAcked[d] \in Nat
         /\ attached[d] \in BOOLEAN /\ LatestSeq \in Nat /\ drops[d] \in Nat
         /\ Range(inbox[d]) \subseteq Frames /\ Range(Coming(d)) \subseteq Frames
         /\ Range(requests[d]) \subseteq Requests
<1>1. /\ inbox[d] \in Seq(Frames) /\ requests[d] \in Seq(Requests) /\ screen[d] \in Seq(Nat)
      /\ received[d] \in Nat /\ committed[d] \in Nat /\ rendered[d] \in Nat
      /\ unack[d] \in Nat /\ lastSent[d] \in Nat /\ lastAcked[d] \in Nat
      /\ attached[d] \in BOOLEAN /\ LatestSeq \in Nat /\ drops[d] \in Nat
  BY DEF TypeOK, SessionTypeOK, HandlesTypeOK, ChannelsTypeOK, ViewersTypeOK, LatestSeq
<1> QED  BY <1>1, ComingType, RangeOf

\* The output only grows.
LEMMA OutputGrows ==
  ASSUME TypeOK, [Next]_vars
  PROVE  LatestSeq \in Nat /\ LatestSeq' \in Nat /\ LatestSeq <= LatestSeq' /\ outputs \subseteq outputs'
<1> USE DEF session
<1>0. nextSeq \in Nat \ {0}
  BY DEF TypeOK, SessionTypeOK
<1>1. CASE Emit
  BY <1>0, <1>1 DEF Emit, LatestSeq
<1>2. CASE Resize
  BY <1>0, <1>2 DEF Resize, LatestSeq
<1>3. ASSUME UNCHANGED <<nextSeq, outputs>>
      PROVE  LatestSeq \in Nat /\ LatestSeq' \in Nat /\ LatestSeq <= LatestSeq' /\ outputs \subseteq outputs'
  BY <1>0, <1>3 DEF LatestSeq
<1>4. ASSUME NEW c \in Clients, DaemonStep(c)
      PROVE  UNCHANGED <<nextSeq, outputs>>
  BY <1>4 DEF DaemonStep, HandleAttach, AttachReply, CompleteAttach, HandleAck, FlushSend, FlushEnd,
              HandleCheckpoint
<1>5. ASSUME NEW c \in Clients, ClientStep(c) \/ Checkpointing(c) \/ Drop(c)
      PROVE  UNCHANGED <<nextSeq, outputs>>
  BY <1>5 DEF ClientStep, Deliver, Commit, NoticeClose, Connect, SendAttach,
         Checkpointing, Serialize, SendCheckpoint, Drop
<1>6. CASE UNCHANGED vars
  BY <1>3, <1>6 DEF vars
<1> QED  BY <1>1, <1>2, <1>3, <1>4, <1>5, <1>6 DEF Next

\* A step that changes neither the handle nor what is on its way.
LEMMA SameWindow ==
  ASSUME NEW d \in Clients, WindowOf(d),
         UNCHANGED <<Handle(d), Coming(d), requests[d], inbox[d], received[d], rendered[d]>>
  PROVE  WindowOf(d)'
<1> USE DEF Handle
<1>0. Pending(d)' = Pending(d) /\ \A f, g : Follows(d, f, g)' <=> Follows(d, f, g)
  BY DEF Pending, Follows
<1>1. SentOf(d)'
  BY <1>0 DEF WindowOf, SentOf
<1>2. SettledOf(d)'
  BY <1>0 DEF WindowOf, SettledOf
<1>3. AheadOf(d)'
  BY DEF WindowOf, AheadOf
<1>4. AcksOf(d)'
  BY <1>0 DEF WindowOf, AcksOf
<1>5. ChargeOf(d)'
  BY DEF WindowOf, ChargeOf
<1> QED  BY <1>1, <1>2, <1>3, <1>4, <1>5 DEF WindowOf

LEMMA CreditRested ==
  ASSUME TypeOK, NEW d \in Clients, CreditOf(d), LatestSeq <= LatestSeq', LatestSeq' \in Nat, Rested(d)
  PROVE  CreditOf(d)'
<1>0. UNCHANGED <<Handle(d), Coming(d), requests[d], inbox[d], received[d], rendered[d], committed[d],
                  attached[d]>>
  BY DEF Rested, Viewer, Handle
<1>1. KnownOf(d)'
  <2>1. Pending(d)' = Pending(d)
    BY <1>0 DEF Pending
  <2>2. /\ \A f \in Pending(d) : f.seq \in Nat
        /\ \A r \in Range(requests[d]) : r.seq \in Nat
    BY ClientTypes DEF Pending, Frames, Requests
  <2> QED  BY <1>0, <2>1, <2>2, ClientTypes DEF CreditOf, KnownOf
<1> QED  BY <1>0, <1>1, SameWindow DEF CreditOf

\* The frames and requests of a client are what their types say.
LEMMA SeqTypes ==
  ASSUME TypeOK, NEW d \in Clients
  PROVE  /\ \A f \in Pending(d) : f \in Frames /\ f.seq \in Nat /\ f.kind # "ack"
         /\ \A r \in Range(requests[d]) : r \in Requests /\ r.seq \in Nat /\ r.kind # "output"
  BY ClientTypes DEF Pending, Frames, Requests

LEMMA CreditFed ==
  ASSUME TypeOK, NEW d \in Clients, CreditOf(d), LatestSeq <= LatestSeq', LatestSeq' \in Nat, Fed(d)
  PROVE  CreditOf(d)'
<1>1. PICK s \in outputs' :
        /\ attached[d] /\ s \in Nat /\ lastSent[d] < s /\ s <= LatestSeq'
        /\ Coming(d)' = Append(Coming(d), OutputFrame(s))
        /\ unack'[d] = unack[d] + 1 /\ lastSent'[d] = s
        /\ UNCHANGED <<attached[d], lastAcked[d], requests[d], Viewer(d)>>
  BY DEF Fed
<1> DEFINE e == OutputFrame(s)
<1>2. e \in Frames /\ e.seq = s /\ e.kind = "output" /\ e.body = <<s>>
  BY <1>1, FrameTypes DEF OutputFrame
<1>3. Coming(d)' = Append(Coming(d), e)
  BY <1>1
<1> HIDE DEF e
<1>4. /\ Range(Coming(d)') = Range(Coming(d)) \cup {e}
      /\ \A f, g : Precedes(Coming(d)', f, g) <=>
           (Precedes(Coming(d), f, g) \/ (f \in Range(Coming(d)) /\ g = e))
  <2>1. \A q \in Seq(Frames) :
          /\ Range(Append(q, e)) = Range(q) \cup {e}
          /\ \A f, g : Precedes(Append(q, e), f, g) <=>
               (Precedes(q, f, g) \/ (f \in Range(q) /\ g = e))
    BY <1>2, AppendIn
  <2> QED  BY <1>3, <2>1, ClientTypes
<1>5. UNCHANGED <<attached[d], lastAcked[d], requests[d], inbox[d], received[d], rendered[d], committed[d]>>
  BY <1>1 DEF Viewer
<1>6. /\ Pending(d)' = Pending(d) \cup {e}
      /\ \A f, g : Follows(d, f, g)' => Follows(d, f, g) \/ (f \in Pending(d) /\ g = e)
  BY <1>4, <1>5 DEF Pending, Follows
<1>7. /\ KnownOf(d) /\ SentOf(d) /\ SettledOf(d) /\ AheadOf(d) /\ AcksOf(d) /\ ChargeOf(d)
      /\ lastAcked[d] \in Nat /\ lastSent[d] \in Nat /\ received[d] \in Nat /\ rendered[d] \in Nat
      /\ committed[d] \in Nat /\ LatestSeq \in Nat
      /\ \A f \in Pending(d) : f.seq \in Nat
      /\ \A r \in Range(requests[d]) : r.seq \in Nat
  BY <1>1, ClientTypes, SeqTypes DEF CreditOf, WindowOf
<1>8. KnownOf(d)'
  BY <1>1, <1>2, <1>5, <1>6, <1>7 DEF KnownOf
<1>9. SentOf(d)'
  BY <1>1, <1>2, <1>5, <1>6, <1>7 DEF SentOf
<1>10. SettledOf(d)'
  <2> SUFFICES ASSUME NEW f \in Pending(d)', NEW g \in Pending(d)', Follows(d, f, g)'
               PROVE  /\ Due(g, lastAcked[d]) => f.seq < g.seq
                      /\ Due(f, lastAcked[d]) => Due(g, lastAcked[d])
    BY <1>5 DEF SettledOf
  <2>1. CASE f \in Pending(d) /\ g = e
    <3>1. f.seq < g.seq
      BY <1>1, <1>2, <1>7, <2>1 DEF SentOf
    <3>2. Due(g, lastAcked[d])
      BY <1>1, <1>2, <1>7, <2>1 DEF SentOf, Due
    <3> QED  BY <3>1, <3>2
  <2>2. CASE Follows(d, f, g)
    <3>1. f \in Pending(d) /\ g \in Pending(d)
      <4>1. \A x, y : Precedes(inbox[d], x, y) => x \in Range(inbox[d]) /\ y \in Range(inbox[d])
        BY DEF Precedes, Range
      <4>2. \A x, y : Precedes(Coming(d), x, y) => x \in Range(Coming(d)) /\ y \in Range(Coming(d))
        BY DEF Precedes, Range
      <4> QED  BY <2>2, <4>1, <4>2 DEF Follows, Pending
    <3> QED  BY <1>7, <2>2, <3>1 DEF SettledOf
  <2> QED  BY <1>6, <2>1, <2>2
<1>11. AheadOf(d)'
  BY <1>1, <1>2, <1>4, <1>5, <1>7 DEF AheadOf, SentOf
<1>12. AcksOf(d)'
  <2>1. ASSUME NEW r \in Range(requests[d]), Counted(r, lastAcked[d])
        PROVE  r.seq < e.seq
    BY <1>1, <1>2, <1>7, <2>1 DEF SentOf, Counted
  <2> QED  BY <1>5, <1>6, <1>7, <2>1 DEF AcksOf
<1>13. ChargeOf(d)'
  <2>1. Charged(e, lastAcked[d])
    BY <1>1, <1>2, <1>7 DEF SentOf, Charged
  <2>2. Owed(Append(Coming(d), e), lastAcked[d]) = Owed(Coming(d), lastAcked[d]) + 1
    BY <1>2, <2>1, OwedAppend, ClientTypes
  <2>3. Owed(Coming(d), lastAcked[d]) \in Nat /\ Owed(inbox[d], lastAcked[d]) \in Nat
        /\ Owed(requests[d], lastAcked[d]) \in Nat
    BY OwedType, ClientTypes
  <2>4. Owed(Coming(d), lastAcked[d])' = Owed(Coming(d), lastAcked[d]) + 1
    BY <1>3, <1>5, <2>2
  <2> QED  BY <1>1, <1>5, <1>7, <2>3, <2>4 DEF ChargeOf
<1> QED  BY <1>1, <1>8, <1>9, <1>10, <1>11, <1>12, <1>13 DEF CreditOf, WindowOf

LEMMA CreditJoined ==
  ASSUME TypeOK, NEW d \in Clients, CreditOf(d), LatestSeq' = LatestSeq, Joined(d)
  PROVE  CreditOf(d)'
<1> DEFINE answer == AttachedFrames(Head(requests[d]).seq)
<1>1. /\ Coming(d) = <<>> /\ requests[d] # <<>> /\ requests'[d] = Tail(requests[d])
      /\ Coming(d)' = answer /\ unack'[d] = 0 /\ lastSent'[d] = LatestSeq /\ lastAcked'[d] = LatestSeq
      /\ UNCHANGED <<inbox[d], received[d], rendered[d], committed[d]>>
  BY DEF Joined, Viewer
<1>2. answer \in Seq(Frames) /\ \A f \in Range(answer) : f.kind # "output" /\ f.seq \in 0..LatestSeq
  BY <1>1, ClientTypes, HeadRequest, AnswerKnown
<1> HIDE DEF answer
<1>3. Pending(d)' = Range(inbox[d]) \cup Range(answer) /\ Range(inbox[d]) \subseteq Pending(d)
  BY <1>1 DEF Pending
<1>4. requests'[d] \in Seq(Requests) /\ Range(requests'[d]) \subseteq Range(requests[d])
  BY <1>1, TailIn, ClientTypes
<1>5. /\ LatestSeq \in Nat /\ KnownOf(d)
      /\ received[d] \in Nat /\ rendered[d] \in Nat /\ committed[d] \in Nat
      /\ \A f \in Pending(d) : f.seq \in Nat
      /\ \A r \in Range(requests[d]) : r.seq \in Nat
  BY ClientTypes, SeqTypes DEF CreditOf
<1>6. KnownOf(d)'
  BY <1>1, <1>2, <1>3, <1>4, <1>5 DEF KnownOf
<1>7. /\ \A f \in Pending(d)' : f.seq \in Nat /\ f.seq <= LatestSeq
      /\ \A r \in Range(requests'[d]) : r.seq \in Nat /\ r.seq <= LatestSeq
  BY <1>2, <1>3, <1>4, <1>5 DEF KnownOf
<1>8. SentOf(d)'
  BY <1>1, <1>5, <1>7 DEF SentOf, KnownOf
<1>9. /\ \A f \in Pending(d)' : ~Due(f, LatestSeq)
      /\ \A r \in Range(requests'[d]) : ~Counted(r, LatestSeq)
  BY <1>5, <1>7 DEF Due, Counted
<1>10. SettledOf(d)' /\ AcksOf(d)'
  BY <1>1, <1>9 DEF SettledOf, AcksOf
<1>11. AheadOf(d)'
  BY <1>1, <1>9 DEF AheadOf, Pending
<1>12. ChargeOf(d)'
  <2>1. \A i \in DOMAIN answer : ~Charged(answer[i], LatestSeq)
    BY <1>2, <1>5, RangeOf DEF Charged
  <2>2. \A i \in DOMAIN inbox[d] : ~Charged(inbox[d][i], LatestSeq)
    <3>1. \A i \in DOMAIN inbox[d] : inbox[d][i] \in Range(inbox[d])
      BY ClientTypes, RangeOf
    <3> QED  BY <1>3, <1>5, <1>7, <3>1 DEF Charged
  <2>3. \A i \in DOMAIN requests'[d] : ~Charged(requests'[d][i], LatestSeq)
    <3>1. \A i \in DOMAIN requests'[d] : requests'[d][i] \in Range(requests'[d])
      BY <1>4, RangeOf
    <3> QED  BY <1>5, <1>7, <3>1 DEF Charged
  <2>4. /\ Owed(answer, LatestSeq) = 0 /\ Owed(inbox[d], LatestSeq) = 0
        /\ Owed(requests'[d], LatestSeq) = 0
    BY <2>1, <2>2, <2>3, OwedNothing
  <2> QED  BY <1>1, <2>4 DEF ChargeOf
<1> QED  BY <1>6, <1>8, <1>10, <1>11, <1>12 DEF CreditOf, WindowOf

LEMMA CreditCut ==
  ASSUME TypeOK, NEW d \in Clients, CreditOf(d), LatestSeq <= LatestSeq', LatestSeq' \in Nat, Cut(d)
  PROVE  CreditOf(d)'
<1>1. /\ Coming(d)' = <<>> /\ requests'[d] = <<>> /\ ~attached'[d]
      /\ UNCHANGED <<inbox[d], received[d], rendered[d], committed[d]>>
  BY DEF Cut, Viewer
<1>2. Pending(d)' \subseteq Pending(d) /\ Range(requests'[d]) = {}
  BY <1>1, NoneIn DEF Pending
<1>3. /\ LatestSeq \in Nat /\ KnownOf(d)
      /\ received[d] \in Nat /\ rendered[d] \in Nat /\ committed[d] \in Nat
      /\ \A f \in Pending(d) : f.seq \in Nat
  BY ClientTypes, SeqTypes DEF CreditOf
<1>4. KnownOf(d)'
  BY <1>1, <1>2, <1>3 DEF KnownOf
<1> QED  BY <1>1, <1>4 DEF CreditOf

LEMMA CreditServed ==
  ASSUME TypeOK, NEW d \in Clients, CreditOf(d), LatestSeq <= LatestSeq', LatestSeq' \in Nat,
         attached[d] => link[d] = "up", Served(d)
  PROVE  CreditOf(d)'
<1> DEFINE h == Head(requests[d])
           t == Tail(requests[d])
           a == lastAcked[d]
           b == lastAcked'[d]
<1>1. /\ requests[d] # <<>> /\ h.kind \in {"ack", "checkpoint"} /\ requests'[d] = t
      /\ UNCHANGED <<Coming(d), inbox[d], received[d], rendered[d], committed[d], attached[d], lastSent[d]>>
  BY DEF Served, Handle, Viewer
<1>2. /\ \/ (h.kind = "ack" => ~Counts(d, h.seq)) /\ UNCHANGED <<unack[d], lastAcked[d]>>
         \/ h.kind = "ack" /\ Counts(d, h.seq) /\ unack'[d] = Remaining(d) /\ b = h.seq
  BY DEF Served, Handle
<1>3. /\ h \in Requests /\ t \in Seq(Requests) /\ h.seq \in Nat
      /\ Range(requests[d]) = {h} \cup Range(t)
      /\ \A f, g : Precedes(requests[d], f, g) <=> (Precedes(t, f, g) \/ (f = h /\ g \in Range(t)))
  BY <1>1, TailIn, HeadRequest, ClientTypes
<1>4. /\ Pending(d)' = Pending(d) /\ \A f, g : Follows(d, f, g)' <=> Follows(d, f, g)
  BY <1>1 DEF Pending, Follows
<1>5. /\ KnownOf(d) /\ LatestSeq \in Nat /\ a \in Nat /\ lastSent[d] \in Nat /\ unack[d] \in Nat
      /\ received[d] \in Nat /\ rendered[d] \in Nat /\ committed[d] \in Nat
      /\ \A f \in Pending(d) : f.seq \in Nat /\ f.kind # "ack"
      /\ \A r \in Range(requests[d]) : r.seq \in Nat /\ r.kind # "output"
  BY ClientTypes, SeqTypes DEF CreditOf
<1> HIDE DEF h, t, a, b
<1>6. KnownOf(d)'
  BY <1>1, <1>3, <1>4, <1>5 DEF KnownOf
<1>7. CASE ~attached[d]
  BY <1>1, <1>6, <1>7 DEF CreditOf
<1>8. CASE attached[d]
  <2>1. WindowOf(d)
    BY <1>8 DEF CreditOf
  <2>2. b \in Nat /\ a <= b /\ b <= lastSent[d] /\ b = lastAcked'[d]
    <3>1. CASE UNCHANGED lastAcked[d]
      BY <1>5, <2>1, <3>1 DEF WindowOf, SentOf, a, b
    <3>2. CASE Counts(d, h.seq) /\ b = h.seq
      BY <1>3, <1>5, <3>2 DEF Counts, a, b
    <3> QED  BY <1>2, <3>1, <3>2
  <2>3. \A f \in Pending(d) : Due(f, b) <=> Due(f, a)
    <3>1. CASE b = a
      BY <3>1
    <3>2. CASE h.kind = "ack" /\ Counts(d, h.seq) /\ b = h.seq
      <4>1. Counted(h, a)
        BY <3>2 DEF Counted, Counts, a
      <4>2. \A f \in Pending(d) : Due(f, a) => h.seq < f.seq
        BY <1>3, <2>1, <4>1 DEF WindowOf, AcksOf, a
      <4> QED  BY <1>3, <1>5, <2>2, <3>2, <4>2 DEF Due
    <3> QED  BY <1>2, <3>1, <3>2 DEF a, b
  <2>4. \A r \in Range(t) : Counted(r, b) <=> Counted(r, a)
    <3>1. CASE b = a
      BY <3>1
    <3>2. CASE h.kind = "ack" /\ Counts(d, h.seq) /\ b = h.seq
      <4>1. Counted(h, a)
        BY <3>2 DEF Counted, Counts, a
      <4>2. \A r \in Range(t) : Counted(r, a) => h.seq < r.seq
        BY <1>3, <2>1, <4>1 DEF WindowOf, AcksOf, a
      <4> QED  BY <1>3, <1>5, <2>2, <3>2, <4>2 DEF Counted
    <3> QED  BY <1>2, <3>1, <3>2 DEF a, b
  <2>5. SentOf(d)'
    <3>1. SentOf(d)
      BY <2>1 DEF WindowOf
    <3>2. \A f \in Pending(d) : f.kind # "output" => f.seq <= b
      BY <1>5, <2>2, <3>1 DEF SentOf, a
    <3> QED  BY <1>1, <1>3, <1>4, <2>2, <3>1, <3>2 DEF SentOf
  <2>6. SettledOf(d)'
    <3>1. SettledOf(d)
      BY <2>1 DEF WindowOf
    <3> QED  BY <1>4, <2>2, <2>3, <3>1 DEF SettledOf, a
  <2>7. AheadOf(d)'
    <3>1. AheadOf(d) /\ Range(Coming(d)) \subseteq Pending(d)
      BY <2>1 DEF WindowOf, Pending
    <3> QED  BY <1>1, <2>2, <2>3, <3>1 DEF AheadOf, a
  <2>8. AcksOf(d)'
    <3>1. AcksOf(d)
      BY <2>1 DEF WindowOf
    <3>2. ASSUME NEW r \in Range(t), NEW s \in Range(t), Precedes(t, r, s), Counted(r, b), Counted(s, b)
          PROVE  r.seq < s.seq
      BY <1>3, <2>4, <3>1, <3>2 DEF AcksOf, a
    <3>3. ASSUME NEW r \in Range(t), NEW f \in Pending(d), Counted(r, b), Due(f, b)
          PROVE  r.seq < f.seq
      BY <1>3, <2>3, <2>4, <3>1, <3>3 DEF AcksOf, a
    <3> QED  BY <1>1, <1>4, <2>2, <3>2, <3>3 DEF AcksOf
  <2>9. ChargeOf(d)'
    <3>1. Owed(Coming(d), b) = Owed(Coming(d), a) /\ Owed(inbox[d], b) = Owed(inbox[d], a)
      <4>1. /\ \A i \in DOMAIN Coming(d) : Coming(d)[i] \in Pending(d)
            /\ \A i \in DOMAIN inbox[d] : inbox[d][i] \in Pending(d)
        BY ClientTypes, RangeOf DEF Pending
      <4>2. \A f \in Pending(d) : Charged(f, b) <=> Charged(f, a)
        BY <1>5, <2>3 DEF Charged, Due
      <4> QED  BY <4>1, <4>2, OwedSame
    <3>2. Owed(t, b) = Owed(t, a)
      <4>1. \A i \in DOMAIN t : t[i] \in Range(t)
        BY <1>3, RangeOf
      <4>2. \A r \in Range(t) : Charged(r, b) <=> Charged(r, a)
        BY <1>3, <1>5, <2>4 DEF Charged, Counted
      <4> QED  BY <4>1, <4>2, OwedSame
    <3>3. Owed(requests[d], a) = Owed(t, a) + (IF Charged(h, a) THEN 1 ELSE 0)
      BY <1>1, OwedTail, ClientTypes DEF h, t
    <3>4. /\ Owed(Coming(d), a) \in Nat /\ Owed(inbox[d], a) \in Nat /\ Owed(t, a) \in Nat
      BY <1>3, OwedType, ClientTypes
    <3>5. unack[d] = Owed(Coming(d), a) + Owed(inbox[d], a) + Owed(requests[d], a)
      BY <2>1 DEF WindowOf, ChargeOf, a
    <3>6. unack'[d] = Owed(Coming(d), b) + Owed(inbox[d], b) + Owed(t, b)
      <4>1. CASE (h.kind = "ack" => ~Counts(d, h.seq)) /\ UNCHANGED <<unack[d], lastAcked[d]>>
        <5>1. h.kind = "ack" => h.seq <= lastSent[d]
          BY <1>3, <2>1 DEF WindowOf, SentOf
        <5>2. ~Charged(h, a)
          BY <1>1, <1>3, <1>5, <1>8, <4>1, <5>1 DEF Charged, Counts, a
        <5> QED  BY <3>1, <3>2, <3>3, <3>4, <3>5, <4>1, <5>2
      <4>2. CASE h.kind = "ack" /\ Counts(d, h.seq) /\ unack'[d] = Remaining(d) /\ b = h.seq
        <5>1. Charged(h, a)
          BY <4>2 DEF Charged, Counts, a
        <5>2. unack[d] # 0 => unack'[d] = unack[d] - 1
          BY <4>2 DEF Remaining
        <5> QED  BY <1>5, <3>1, <3>2, <3>3, <3>4, <3>5, <5>1, <5>2
      <4> QED  BY <1>2, <4>1, <4>2
    <3> QED  BY <1>1, <2>2, <3>6 DEF ChargeOf
  <2> QED  BY <1>6, <2>5, <2>6, <2>7, <2>8, <2>9 DEF CreditOf, WindowOf
<1> QED  BY <1>7, <1>8

\* A terminal has not queued a frame that everything before it precedes.
LEMMA NotQueued ==
  ASSUME TypeOK, NEW d \in Clients, NEW n \in Nat, \A f \in Range(inbox[d]) : f.seq < n
  PROVE  n \notin Queued(d)
<1>1. \A i \in DOMAIN inbox[d] : inbox[d][i] \in Range(inbox[d]) /\ inbox[d][i].seq \in Nat
  <2>1. \A i \in DOMAIN inbox[d] : inbox[d][i] \in Range(inbox[d])
    BY ClientTypes, RangeOf
  <2>2. \A f \in Range(inbox[d]) : f.seq \in Nat
    BY ClientTypes DEF Frames
  <2> QED  BY <2>1, <2>2
<1>2. ASSUME n \in Queued(d)
      PROVE  FALSE
  <2>1. PICK i \in DOMAIN inbox[d] : n = inbox[d][i].seq
    BY <1>2, Zenon DEF Queued
  <2> QED  BY <1>1, <2>1
<1> QED  BY <1>2

\* What a delivery does to the two queues.
LEMMA DeliveredQueues ==
  ASSUME TypeOK, NEW d \in Clients, Coming(d) # <<>>, Coming(d)' = Tail(Coming(d)),
         inbox'[d] = Append(inbox[d], Head(Coming(d))) \/ inbox'[d] = inbox[d]
  PROVE  /\ Head(Coming(d)) \in Frames /\ Tail(Coming(d)) \in Seq(Frames)
         /\ Range(Coming(d)) = {Head(Coming(d))} \cup Range(Coming(d)')
         /\ \A f, g : Precedes(Coming(d), f, g) <=>
              (Precedes(Coming(d)', f, g) \/ (f = Head(Coming(d)) /\ g \in Range(Coming(d)')))
         /\ Pending(d)' \subseteq Pending(d)
         /\ \A f, g : Follows(d, f, g)' => Follows(d, f, g)
<1> DEFINE C == Coming(d)
           h == Head(C)
           t == Tail(C)
           I == inbox[d]
           J == inbox'[d]
<1>0. C \in Seq(Frames) /\ C # <<>> /\ I \in Seq(Frames)
  BY ClientTypes
<1>1. /\ h \in Frames /\ t \in Seq(Frames) /\ Range(C) = {h} \cup Range(t)
      /\ \A f, g : Precedes(C, f, g) <=> (Precedes(t, f, g) \/ (f = h /\ g \in Range(t)))
  <2> HIDE DEF C
  <2> QED  BY <1>0, TailIn
<1>2. Coming(d)' = t /\ (J = Append(I, h) \/ J = I)
  OBVIOUS
<1>3. /\ Range(Append(I, h)) = Range(I) \cup {h}
      /\ \A f, g : Precedes(Append(I, h), f, g) <=> (Precedes(I, f, g) \/ (f \in Range(I) /\ g = h))
  <2> HIDE DEF C, I, h
  <2> QED  BY <1>0, <1>1, AppendIn
<1>4. /\ Pending(d) = Range(I) \cup Range(C) /\ Pending(d)' = Range(J) \cup Range(t)
      /\ \A f, g : Follows(d, f, g) <=>
           (Precedes(I, f, g) \/ Precedes(C, f, g) \/ (f \in Range(I) /\ g \in Range(C)))
      /\ \A f, g : Follows(d, f, g)' <=>
           (Precedes(J, f, g) \/ Precedes(t, f, g) \/ (f \in Range(J) /\ g \in Range(t)))
  <2>1. Coming(d)' = t
    OBVIOUS
  <2> QED  BY <2>1 DEF Pending, Follows
<1> HIDE DEF C, h, t, I, J
<1>5. Pending(d)' \subseteq Pending(d)
  BY <1>1, <1>2, <1>3, <1>4
<1>6. \A f, g : Follows(d, f, g)' => Follows(d, f, g)
  BY <1>1, <1>2, <1>3, <1>4
<1> QED  BY <1>1, <1>2, <1>5, <1>6 DEF C, h, t

LEMMA CreditDelivered ==
  ASSUME TypeOK, NEW d \in Clients, CreditOf(d), Delivered(d)
  PROVE  CreditOf(d)'
<1> DEFINE h == Head(Coming(d))
           a == lastAcked[d]
           fresh == h.kind # "output" \/ h.seq > received[d]
           shown == h.kind # "attached" /\ fresh /\ Takes(d, h)
<1>1. /\ attached[d] /\ Coming(d) # <<>> /\ Coming(d)' = Tail(Coming(d))
      /\ received'[d] = IF h.kind = "attached" \/ (h.kind = "output" /\ fresh) THEN h.seq ELSE received[d]
      /\ inbox'[d] = IF shown THEN Append(inbox[d], h) ELSE inbox[d]
      /\ rendered'[d] = IF h.kind = "reset" /\ d \in Terminals THEN 0 ELSE rendered[d]
      /\ UNCHANGED <<session, Handle(d), requests[d], committed[d]>>
  BY DEF Delivered
<1>2. UNCHANGED <<attached[d], unack[d], lastSent[d], lastAcked[d], requests[d], committed[d], LatestSeq>>
  BY <1>1 DEF Handle, session, LatestSeq
<1>3. /\ h \in Frames /\ Tail(Coming(d)) \in Seq(Frames) /\ Range(Coming(d)) = {h} \cup Range(Coming(d)')
      /\ \A f, g : Precedes(Coming(d), f, g) <=>
           (Precedes(Coming(d)', f, g) \/ (f = h /\ g \in Range(Coming(d)')))
      /\ Pending(d)' \subseteq Pending(d)
      /\ \A f, g : Follows(d, f, g)' => Follows(d, f, g)
  BY <1>1, DeliveredQueues
<1>4. /\ KnownOf(d) /\ SentOf(d) /\ SettledOf(d) /\ AheadOf(d) /\ AcksOf(d) /\ ChargeOf(d)
      /\ a \in Nat /\ lastSent[d] \in Nat /\ received[d] \in Nat /\ rendered[d] \in Nat
      /\ committed[d] \in Nat /\ LatestSeq \in Nat /\ h.seq \in Nat
      /\ \A f \in Pending(d) : f.seq \in Nat /\ f.kind # "ack"
  BY <1>1, <1>3, ClientTypes, SeqTypes DEF CreditOf, WindowOf, Frames
<1>5. h \in Pending(d) /\ Range(Coming(d)') \subseteq Range(Coming(d)) /\ Range(Coming(d)) \subseteq Pending(d)
  BY <1>3 DEF Pending
<1>6. ASSUME Due(h, a)
      PROVE  shown
  <2>1. received[d] < h.seq /\ (d \in Terminals => rendered[d] < h.seq) /\ h.kind = "output"
    BY <1>3, <1>4, <1>6 DEF AheadOf, Due
  <2>2. \A f \in Range(inbox[d]) : f.seq < h.seq
    <3>1. \A f \in Range(inbox[d]) : f \in Pending(d) /\ Follows(d, f, h)
      BY <1>3 DEF Follows, Pending
    <3> QED  BY <1>4, <1>5, <1>6, <3>1 DEF SettledOf
  <2>3. Takes(d, h)
    BY <1>4, <2>1, <2>2, NotQueued DEF Takes
  <2> QED  BY <1>4, <2>1, <2>3
<1>7. received'[d] \in {received[d], h.seq} /\ rendered'[d] \in {0, rendered[d]}
  BY <1>1
<1>8. inbox'[d] = Append(inbox[d], h) \/ (inbox'[d] = inbox[d] /\ ~Due(h, a))
  BY <1>1, <1>6
<1> HIDE DEF h, a, fresh, shown
<1>9. KnownOf(d)'
  BY <1>2, <1>3, <1>4, <1>5, <1>7 DEF KnownOf
<1>10. SentOf(d)'
  BY <1>2, <1>3, <1>4, <1>5, <1>7 DEF SentOf
<1>11. SettledOf(d)'
  BY <1>2, <1>3, <1>4 DEF SettledOf
<1>12. AheadOf(d)'
  <2> SUFFICES ASSUME NEW f \in Range(Coming(d)'), Due(f, a)
               PROVE  received'[d] < f.seq /\ (d \in Terminals => rendered'[d] < f.seq)
    BY <1>2 DEF AheadOf, a
  <2>1. f \in Range(Coming(d)) /\ f \in Pending(d) /\ Follows(d, h, f)
    BY <1>3, <1>5 DEF Follows
  <2>2. received[d] < f.seq /\ (d \in Terminals => rendered[d] < f.seq)
    BY <1>4, <2>1 DEF AheadOf, a
  <2>3. h.seq < f.seq
    BY <1>4, <1>5, <2>1 DEF SettledOf, a
  <2>4. 0 < f.seq
    BY <1>4, <2>1 DEF Due
  <2> QED  BY <1>7, <2>2, <2>3, <2>4
<1>13. AcksOf(d)'
  BY <1>2, <1>3, <1>4 DEF AcksOf
<1>14. ChargeOf(d)'
  <2>1. Charged(h, a) <=> Due(h, a)
    BY <1>4, <1>5 DEF Charged, Due
  <2>2. Owed(Coming(d), a) = Owed(Coming(d)', a) + (IF Charged(h, a) THEN 1 ELSE 0)
    BY <1>1, OwedTail, ClientTypes DEF h
  <2>3. Owed(inbox'[d], a) = Owed(inbox[d], a) + (IF Charged(h, a) THEN 1 ELSE 0)
    <3>1. Owed(Append(inbox[d], h), a) = Owed(inbox[d], a) + (IF Charged(h, a) THEN 1 ELSE 0)
      BY <1>3, OwedAppend, ClientTypes
    <3>2. Owed(inbox[d], a) \in Nat
      BY OwedType, ClientTypes
    <3>3. CASE inbox'[d] = Append(inbox[d], h)
      BY <3>1, <3>3
    <3>4. CASE inbox'[d] = inbox[d] /\ ~Due(h, a)
      <4>1. Owed(inbox'[d], a) = Owed(inbox[d], a)
        BY <3>4
      <4> QED  BY <2>1, <3>2, <3>4, <4>1
    <3> QED  BY <1>8, <3>3, <3>4
  <2>4. /\ Owed(Coming(d)', a) \in Nat /\ Owed(inbox[d], a) \in Nat /\ Owed(requests[d], a) \in Nat
    BY <1>1, <1>3, OwedType, ClientTypes
  <2>5. unack[d] = Owed(Coming(d), a) + Owed(inbox[d], a) + Owed(requests[d], a)
    BY <1>4 DEF ChargeOf, a
  <2>6. unack[d] = Owed(Coming(d)', a) + Owed(inbox'[d], a) + Owed(requests[d], a)
    BY <2>2, <2>3, <2>4, <2>5
  <2> QED  BY <1>2, <2>6 DEF ChargeOf, a
<1> QED  BY <1>9, <1>10, <1>11, <1>12, <1>13, <1>14 DEF CreditOf, WindowOf

LEMMA CreditWrote ==
  ASSUME TypeOK, NEW d \in Clients, CreditOf(d), attached[d] => link[d] = "up", Wrote(d)
  PROVE  CreditOf(d)'
<1> DEFINE h == Head(inbox[d])
           t == Tail(inbox[d])
           a == lastAcked[d]
           k == AckRequest(h.seq)
           told == Commits(d, h) /\ h.seq > 0 /\ h.body # <<>> /\ Open(d)
<1>1. /\ inbox[d] # <<>> /\ inbox'[d] = t
      /\ rendered'[d] = IF d \in Terminals THEN Advance(d, h, rendered[d]) ELSE rendered[d]
      /\ committed'[d] = Advance(d, h, committed[d])
      /\ requests'[d] = IF told THEN Append(requests[d], k) ELSE requests[d]
      /\ UNCHANGED <<session, Handle(d), Coming(d), received[d]>>
  BY DEF Wrote
<1>2. UNCHANGED <<attached[d], unack[d], lastSent[d], lastAcked[d], received[d], LatestSeq>>
  BY <1>1 DEF Handle, session, LatestSeq
<1>3. /\ h \in Frames /\ t \in Seq(Frames) /\ Range(inbox[d]) = {h} \cup Range(t)
      /\ \A f, g : Precedes(inbox[d], f, g) <=> (Precedes(t, f, g) \/ (f = h /\ g \in Range(t)))
  BY <1>1, TailIn, ClientTypes
<1>4. /\ KnownOf(d) /\ a \in Nat /\ lastSent[d] \in Nat /\ received[d] \in Nat /\ rendered[d] \in Nat
      /\ committed[d] \in Nat /\ LatestSeq \in Nat /\ h.seq \in Nat
      /\ \A f \in Pending(d) : f.seq \in Nat /\ f.kind # "ack"
      /\ \A r \in Range(requests[d]) : r.seq \in Nat /\ r.kind # "output"
  BY <1>3, ClientTypes, SeqTypes DEF CreditOf, Frames
<1>5. k \in Requests /\ k.kind = "ack" /\ k.seq = h.seq
  BY <1>4, RequestTypes DEF AckRequest
<1>6. requests'[d] = (IF told THEN Append(requests[d], k) ELSE requests[d]) /\ inbox'[d] = t
  BY <1>1
<1>7. /\ h \in Pending(d) /\ Pending(d)' \subseteq Pending(d) /\ Range(Coming(d)) \subseteq Pending(d)
      /\ \A f \in Pending(d)' : Follows(d, h, f)
      /\ \A f, g : Follows(d, f, g)' => Follows(d, f, g)
  BY <1>1, <1>3 DEF Pending, Follows
<1>8. /\ rendered'[d] \in {rendered[d], h.seq} /\ committed'[d] \in {committed[d], h.seq}
  BY <1>1 DEF Advance
<1> HIDE DEF h, t, a, k, told
<1>9. /\ Range(Append(requests[d], k)) = Range(requests[d]) \cup {k}
      /\ \A r, s : Precedes(Append(requests[d], k), r, s) <=>
           (Precedes(requests[d], r, s) \/ (r \in Range(requests[d]) /\ s = k))
  BY <1>5, AppendIn, ClientTypes
<1>10. KnownOf(d)'
  BY <1>2, <1>4, <1>5, <1>6, <1>7, <1>8, <1>9 DEF KnownOf
<1>11. CASE ~attached[d]
  BY <1>2, <1>10, <1>11 DEF CreditOf
<1>12. CASE attached[d]
  <2>1. SentOf(d) /\ SettledOf(d) /\ AheadOf(d) /\ AcksOf(d) /\ ChargeOf(d)
    BY <1>12 DEF CreditOf, WindowOf
  <2>2. Counted(k, a) <=> Due(h, a)
    <3>1. h.kind # "output" => h.seq <= a
      BY <1>7, <2>1 DEF SentOf, a
    <3> QED  BY <1>4, <1>5, <3>1 DEF Counted, Due
  <2>3. SentOf(d)'
    <3>1. h.seq <= lastSent[d]
      BY <1>7, <2>1 DEF SentOf
    <3> QED  BY <1>1, <1>2, <1>4, <1>5, <1>6, <1>7, <1>8, <1>9, <2>1, <3>1 DEF SentOf
  <2>4. SettledOf(d)'
    BY <1>2, <1>7, <2>1 DEF SettledOf
  <2>5. AheadOf(d)'
    <3>1. \A f \in Range(Coming(d)) : Due(f, a) => h.seq < f.seq
      <4>1. \A f \in Range(Coming(d)) : f \in Pending(d) /\ Follows(d, h, f)
        BY <1>3 DEF Follows, Pending
      <4> QED  BY <1>7, <2>1, <4>1 DEF SettledOf, a
    <3> QED  BY <1>1, <1>2, <1>8, <2>1, <3>1 DEF AheadOf, a
  <2>6. AcksOf(d)'
    <3>1. Due(h, a) => \A f \in Pending(d)' : Due(f, a) => h.seq < f.seq
      BY <1>7, <2>1 DEF SettledOf, a
    <3>2. ASSUME NEW r \in Range(requests'[d]), NEW s \in Range(requests'[d]),
                 Precedes(requests'[d], r, s), Counted(r, a), Counted(s, a)
          PROVE  r.seq < s.seq
      <4>1. CASE ~told
        BY <1>6, <2>1, <3>2, <4>1 DEF AcksOf, a
      <4>2. CASE told
        <5>1. Precedes(requests[d], r, s) \/ (r \in Range(requests[d]) /\ s = k)
          BY <1>6, <1>9, <3>2, <4>2
        <5>2. CASE r \in Range(requests[d]) /\ s = k
          BY <1>5, <1>7, <2>1, <2>2, <3>2, <5>2 DEF AcksOf, a
        <5>3. CASE Precedes(requests[d], r, s)
          <6>1. r \in Range(requests[d]) /\ s \in Range(requests[d])
            BY <5>3 DEF Precedes, Range
          <6> QED  BY <2>1, <3>2, <5>3, <6>1 DEF AcksOf, a
        <5> QED  BY <5>1, <5>2, <5>3
      <4> QED  BY <4>1, <4>2
    <3>3. ASSUME NEW r \in Range(requests'[d]), NEW f \in Pending(d)', Counted(r, a), Due(f, a)
          PROVE  r.seq < f.seq
      <4>1. CASE r \in Range(requests[d])
        BY <1>7, <2>1, <3>3, <4>1 DEF AcksOf, a
      <4>2. CASE r = k
        BY <1>5, <2>2, <3>1, <3>3, <4>2
      <4> QED  BY <1>6, <1>9, <4>1, <4>2
    <3>4. AcksOf(d)' <=>
            /\ \A r, s \in Range(requests'[d]) :
                 Precedes(requests'[d], r, s) /\ Counted(r, a) /\ Counted(s, a) => r.seq < s.seq
            /\ \A r \in Range(requests'[d]), f \in Pending(d)' :
                 Counted(r, a) /\ Due(f, a) => r.seq < f.seq
      BY <1>2 DEF AcksOf, a
    <3> QED  BY <3>2, <3>3, <3>4
  <2>7. Due(h, a) => told
    <3>1. ASSUME Due(h, a)
          PROVE  h.kind = "output" /\ h.seq > 0 /\ h.body = <<h.seq>> /\ Open(d)
      BY <1>4, <1>7, <1>12, <3>1 DEF Due, KnownOf, Open
    <3>2. ASSUME Due(h, a), Stale(d)
          PROVE  FALSE
      <4>1. PICK i \in 2..Len(inbox[d]) : inbox[d][i].kind = "reset"
        BY <3>2 DEF Stale
      <4>2. /\ inbox[d] \in Seq(Frames) /\ Len(inbox[d]) \in Nat /\ DOMAIN inbox[d] = 1..Len(inbox[d])
            /\ h = inbox[d][1]
        BY <1>1, ClientTypes, LenProperties DEF h
      <4>3. 1 \in DOMAIN inbox[d] /\ i \in DOMAIN inbox[d] /\ 1 < i
        BY <4>1, <4>2
      <4>4. Precedes(inbox[d], h, inbox[d][i]) /\ inbox[d][i] \in Range(inbox[d])
        BY <4>2, <4>3 DEF Precedes, Range
      <4>5. Due(inbox[d][i], a)
        BY <1>7, <2>1, <3>2, <4>4 DEF SettledOf, Follows, Pending, a
      <4> QED  BY <4>1, <4>5 DEF Due
    <3>3. ASSUME Due(h, a)
          PROVE  Commits(d, h) /\ h.body # <<>>
      <4>1. h.kind = "output" /\ h.body = <<h.seq>> /\ ~Stale(d)
        BY <3>1, <3>2, <3>3
      <4>2. h.kind # "reset" /\ h.body # <<>>
        BY <4>1
      <4> QED  BY <4>1, <4>2 DEF Commits
    <3> QED  BY <3>1, <3>3 DEF told
  <2>8. ChargeOf(d)'
    <3>1. Charged(k, a) <=> Charged(h, a)
      BY <1>4, <1>5, <1>7, <2>2 DEF Charged, Due, Counted
    <3>2. Charged(h, a) <=> Due(h, a)
      BY <1>4, <1>7 DEF Charged, Due
    <3>3. Owed(inbox[d], a) = Owed(t, a) + (IF Charged(h, a) THEN 1 ELSE 0)
      BY <1>1, OwedTail, ClientTypes DEF h, t
    <3>4. Owed(Append(requests[d], k), a) = Owed(requests[d], a) + (IF Charged(h, a) THEN 1 ELSE 0)
      BY <1>5, <3>1, OwedAppend, ClientTypes
    <3>5. /\ Owed(Coming(d), a) \in Nat /\ Owed(t, a) \in Nat /\ Owed(requests[d], a) \in Nat
      BY <1>3, OwedType, ClientTypes
    <3>6. unack[d] = Owed(Coming(d), a) + Owed(inbox[d], a) + Owed(requests[d], a)
      BY <2>1 DEF ChargeOf, a
    <3>7. Owed(requests'[d], a) = Owed(requests[d], a) + (IF Charged(h, a) THEN 1 ELSE 0)
      BY <1>6, <2>7, <3>2, <3>4, <3>5
    <3>8. unack[d] = Owed(Coming(d), a) + Owed(t, a) + Owed(requests'[d], a)
      BY <3>3, <3>5, <3>6, <3>7
    <3> QED  BY <1>1, <1>2, <1>6, <3>8 DEF ChargeOf, a
  <2> QED  BY <1>10, <2>3, <2>4, <2>5, <2>6, <2>8 DEF CreditOf, WindowOf
<1> QED  BY <1>11, <1>12

LEMMA CreditUploaded ==
  ASSUME TypeOK, NEW d \in Clients, CreditOf(d), Uploaded(d)
  PROVE  CreditOf(d)'
<1> DEFINE a == lastAcked[d]
           k == CheckpointRequest(rendered[d], snapshot[d].body, Late(d))
<1>1. requests'[d] = Append(requests[d], k)
  BY DEF Uploaded
<1>2. UNCHANGED <<attached[d], unack[d], lastSent[d], lastAcked[d], Coming(d), inbox[d], received[d],
                  committed[d], rendered[d], LatestSeq>>
  BY DEF Uploaded, Handle, Viewer, session, LatestSeq
<1>3. k \in Requests /\ k.kind = "checkpoint" /\ k.seq = rendered[d]
  BY UploadType DEF CheckpointRequest
<1> HIDE DEF a, k
<1>4. /\ Range(requests'[d]) = Range(requests[d]) \cup {k}
      /\ \A r, s : Precedes(requests'[d], r, s) =>
           (Precedes(requests[d], r, s) \/ (r \in Range(requests[d]) /\ s = k))
  BY <1>1, <1>3, AppendIn, ClientTypes
<1>5. Pending(d)' = Pending(d) /\ \A f, g : Follows(d, f, g)' <=> Follows(d, f, g)
  BY <1>2 DEF Pending, Follows
<1>6. KnownOf(d)'
  BY <1>2, <1>3, <1>4, <1>5 DEF CreditOf, KnownOf
<1>7. CASE ~attached[d]
  BY <1>2, <1>6, <1>7 DEF CreditOf
<1>8. CASE attached[d]
  <2>1. SentOf(d) /\ SettledOf(d) /\ AheadOf(d) /\ AcksOf(d) /\ ChargeOf(d)
    BY <1>8 DEF CreditOf, WindowOf
  <2>2. SentOf(d)'
    BY <1>2, <1>3, <1>4, <1>5, <2>1 DEF SentOf
  <2>3. SettledOf(d)'
    BY <1>2, <1>5, <2>1 DEF SettledOf
  <2>4. AheadOf(d)'
    BY <1>2, <2>1 DEF AheadOf
  <2>5. AcksOf(d)'
    <3>1. ASSUME NEW r \in Range(requests'[d]), NEW s \in Range(requests'[d]),
                 Precedes(requests'[d], r, s), Counted(r, a), Counted(s, a)
          PROVE  r.seq < s.seq
      <4>1. s # k /\ r # k
        BY <1>3, <3>1 DEF Counted
      <4> QED  BY <1>4, <2>1, <3>1, <4>1 DEF AcksOf, a
    <3>2. ASSUME NEW r \in Range(requests'[d]), NEW f \in Pending(d), Counted(r, a), Due(f, a)
          PROVE  r.seq < f.seq
      <4>1. r # k
        BY <1>3, <3>2 DEF Counted
      <4> QED  BY <1>4, <2>1, <3>2, <4>1 DEF AcksOf, a
    <3>3. AcksOf(d)' <=>
            /\ \A r, s \in Range(requests'[d]) :
                 Precedes(requests'[d], r, s) /\ Counted(r, a) /\ Counted(s, a) => r.seq < s.seq
            /\ \A r \in Range(requests'[d]), f \in Pending(d) :
                 Counted(r, a) /\ Due(f, a) => r.seq < f.seq
      BY <1>2, <1>5 DEF AcksOf, a
    <3> QED  BY <3>1, <3>2, <3>3
  <2>6. ChargeOf(d)'
    <3>1. Owed(Append(requests[d], k), a) = Owed(requests[d], a) + 0
      <4>1. ~Charged(k, a)
        BY <1>3 DEF Charged
      <4> QED  BY <1>3, <4>1, OwedAppend, ClientTypes
    <3>2. Owed(requests[d], a) \in Nat
      BY OwedType, ClientTypes
    <3>3. Owed(requests'[d], a) = Owed(requests[d], a)
      BY <1>1, <3>1, <3>2
    <3> QED  BY <1>2, <2>1, <3>3 DEF ChargeOf, a
  <2> QED  BY <1>6, <2>2, <2>3, <2>4, <2>5, <2>6 DEF CreditOf, WindowOf
<1> QED  BY <1>7, <1>8

LEMMA CreditReached ==
  ASSUME TypeOK, NEW d \in Clients, CreditOf(d), Reached(d)
  PROVE  CreditOf(d)'
<1>1. /\ UNCHANGED <<attached[d], Coming(d), inbox[d], committed[d], rendered[d], LatestSeq>> /\ ~attached[d]
      /\ received'[d] \in {received[d], committed[d]}
      /\ requests'[d] \in {requests[d], Append(requests[d], AttachRequest(committed[d]))}
  BY DEF Reached, Handle, session, LatestSeq
<1> DEFINE k == AttachRequest(committed[d])
<1>2. k \in Requests /\ k.seq = committed[d]
  BY ClientTypes, RequestTypes DEF AttachRequest
<1>3. requests'[d] = requests[d] \/ requests'[d] = Append(requests[d], k)
  BY <1>1
<1> HIDE DEF k
<1>4. Range(requests'[d]) \subseteq Range(requests[d]) \cup {k}
  <2>1. Range(Append(requests[d], k)) = Range(requests[d]) \cup {k}
    BY <1>2, AppendIn, ClientTypes
  <2> QED  BY <1>3, <2>1
<1>5. Pending(d)' = Pending(d)
  BY <1>1 DEF Pending
<1>6. KnownOf(d)'
  BY <1>1, <1>2, <1>4, <1>5 DEF CreditOf, KnownOf
<1> QED  BY <1>1, <1>6 DEF CreditOf

LEMMA CreditStep ==
  ASSUME TypeOK, StreamInv, LinkInv, CreditInv, [Next]_vars
  PROVE  CreditInv'
<1> SUFFICES ASSUME NEW d \in Clients
             PROVE  CreditOf(d)'
  BY DEF CreditInv
<1>0. CreditOf(d) /\ (attached[d] => link[d] = "up")
  BY DEF CreditInv, LinkInv, LinkOf
<1>1. LatestSeq <= LatestSeq' /\ LatestSeq' \in Nat
  BY OutputGrows
<1>2. Event(d)
  BY ClientEvent
<1>3. CASE Rested(d)
  BY <1>0, <1>1, <1>3, CreditRested
<1>4. CASE Fed(d)
  BY <1>0, <1>1, <1>4, CreditFed
<1>5. CASE Joined(d)
  <2>1. LatestSeq' = LatestSeq
    BY <1>5 DEF Joined, session, LatestSeq
  <2> QED  BY <1>0, <1>5, <2>1, CreditJoined
<1>6. CASE Cut(d)
  BY <1>0, <1>1, <1>6, CreditCut
<1>7. CASE Served(d)
  BY <1>0, <1>1, <1>7, CreditServed
<1>8. CASE Delivered(d)
  BY <1>0, <1>8, CreditDelivered
<1>9. CASE Wrote(d)
  BY <1>0, <1>9, CreditWrote
<1>10. CASE Uploaded(d)
  BY <1>0, <1>10, CreditUploaded
<1>11. CASE Reached(d)
  BY <1>0, <1>11, CreditReached
<1> QED  BY <1>2, <1>3, <1>4, <1>5, <1>6, <1>7, <1>8, <1>9, <1>10, <1>11 DEF Event

LEMMA CreditInit == Init => CreditInv /\ ReplyInv
<1> SUFFICES ASSUME Init, NEW d \in Clients
             PROVE  CreditOf(d) /\ \A f \in Range(reply[d]) : f.kind # "output"
  BY DEF CreditInv, ReplyInv
<1>1. /\ inbox[d] = <<>> /\ Coming(d) = <<>> /\ requests[d] = <<>> /\ reply[d] = <<>>
      /\ received[d] = 0 /\ committed[d] = 0 /\ rendered[d] = 0 /\ LatestSeq = 0
      /\ unack[d] = 0 /\ lastSent[d] = 0 /\ lastAcked[d] = 0
  BY DEF Init, Coming, LatestSeq
<1>2. Pending(d) = {} /\ Range(requests[d]) = {} /\ Range(Coming(d)) = {} /\ Range(reply[d]) = {}
  BY <1>1, NoneIn DEF Pending
<1>3. KnownOf(d) /\ SentOf(d) /\ SettledOf(d) /\ AheadOf(d) /\ AcksOf(d)
  BY <1>1, <1>2 DEF KnownOf, SentOf, SettledOf, AheadOf, AcksOf
<1>4. Owed(<<>>, 0) = 0
  BY OwedNothing
<1>5. ChargeOf(d)
  BY <1>1, <1>4 DEF ChargeOf
<1> QED  BY <1>2, <1>3, <1>5 DEF CreditOf, WindowOf

\* What is counted on the way to a client is what its queues hold.
LEMMA CreditCounts ==
  ASSUME TypeOK, CreditInv, ReplyInv
  PROVE  CreditConservation
<1> SUFFICES ASSUME NEW c \in Clients, attached[c]
             PROVE  unack[c] = Unacked(c, held[c]) + Unacked(c, out[c]) + Unacked(c, inbox[c])
                                 + Unacked(c, requests[c])
  BY DEF CreditConservation
<1> DEFINE a == lastAcked[c]
           p == out[c]
           q == reply[c]
           r == held[c]
<1>1. p \in Seq(Frames) /\ q \in Seq(Frames) /\ r \in Seq(Frames) /\ Coming(c) = (p \o q) \o r
  BY ComingType DEF Coming
<1>2. \A x : Unacked(c, x) = Owed(x, a)
  BY DEF Unacked, Owed, Marked, Charged
<1>3. Owed(q, a) = 0
  <2>1. \A i \in DOMAIN q : q[i] \in Range(q) /\ q[i] \in Frames
    BY <1>1, RangeOf
  <2>2. \A i \in DOMAIN q : ~Charged(q[i], a)
    BY <2>1 DEF ReplyInv, Charged, Frames
  <2> QED  BY <2>2, OwedNothing
<1>4. unack[c] = Owed(Coming(c), a) + Owed(inbox[c], a) + Owed(requests[c], a)
  BY DEF CreditInv, CreditOf, WindowOf, ChargeOf
<1>5. Owed(inbox[c], a) \in Nat /\ Owed(requests[c], a) \in Nat
  BY OwedType, ClientTypes
<1> HIDE DEF a, p, q, r
<1>6. Owed(Coming(c), a) = Owed(p, a) + Owed(r, a)
  <2>1. \A x, y \in Seq(Frames) : Owed(x \o y, a) = Owed(x, a) + Owed(y, a) /\ x \o y \in Seq(Frames)
    BY OwedConcat, ConcatProperties
  <2>2. Owed(p, a) \in Nat /\ Owed(r, a) \in Nat
    BY <1>1, OwedType
  <2>3. Owed(p \o q, a) = Owed(p, a) + Owed(q, a) /\ p \o q \in Seq(Frames)
    BY <1>1, <2>1
  <2>4. Owed((p \o q) \o r, a) = Owed(p \o q, a) + Owed(r, a)
    BY <1>1, <2>1, <2>3
  <2> QED  BY <1>1, <1>3, <2>2, <2>3, <2>4
<1>7. Owed(p, a) \in Nat /\ Owed(r, a) \in Nat
  BY <1>1, OwedType
<1>8. unack[c] = Owed(r, a) + Owed(p, a) + Owed(inbox[c], a) + Owed(requests[c], a)
  BY <1>4, <1>5, <1>6, <1>7
<1> QED  BY <1>2, <1>8 DEF p, r

\* The window of a client is never lost, whatever connections break and
\* whatever checkpoints are uploaded.
THEOREM CreditAlways == Spec => []CreditConservation
<1> DEFINE Inv == TypeOK /\ StreamInv /\ LinkInv /\ CreditInv /\ ReplyInv
<1>1. Init => Inv
  BY TypeInit, StreamInvInit, LinkInit, CreditInit
<1>2. Inv /\ [Next]_vars => Inv'
  BY TypeStep, StreamInvStep, LinkStep, CreditStep, ReplyStep
<1>3. Inv => CreditConservation
  BY CreditCounts
<1> QED  BY <1>1, <1>2, <1>3, PTL DEF Spec

(***************************************************************************)
(* What Sorted lists.                                                      *)
(***************************************************************************)

LEMMA RankGrows ==
  ASSUME NEW n \in Nat, NEW S \in SUBSET (1..n), NEW s \in S, NEW r \in S, s < r
  PROVE  /\ Cardinality(UpTo(S, s)) \in Nat /\ Cardinality(UpTo(S, r)) \in Nat
         /\ Cardinality(UpTo(S, s)) < Cardinality(UpTo(S, r))
<1>0. s \in Nat /\ r \in Nat /\ \A x \in S : x \in Nat
  OBVIOUS
<1>1. UpTo(S, s) \in SUBSET (1..n) /\ UpTo(S, r) \in SUBSET (1..n)
  BY DEF UpTo
<1>2. /\ IsFiniteSet(UpTo(S, s)) /\ IsFiniteSet(UpTo(S, r))
      /\ Cardinality(UpTo(S, s)) \in Nat /\ Cardinality(UpTo(S, r)) \in Nat
  BY <1>1, BoundedFinite
<1>3. UpTo(S, s) \in SUBSET UpTo(S, r)
  <2>1. \A x \in S : x <= s => x <= r
    BY <1>0
  <2> QED  BY <2>1, Zenon DEF UpTo
<1>4. r \in UpTo(S, r) /\ r \notin UpTo(S, s)
  BY <1>0 DEF UpTo
<1>5. Cardinality(UpTo(S, s)) <= Cardinality(UpTo(S, r)) /\ Cardinality(UpTo(S, s)) # Cardinality(UpTo(S, r))
  BY <1>2, <1>3, <1>4, FS_Subset
<1> QED  BY <1>2, <1>5

LEMMA RankInjective ==
  ASSUME NEW n \in Nat, NEW S \in SUBSET (1..n), NEW s \in S, NEW r \in S,
         Cardinality(UpTo(S, s)) = Cardinality(UpTo(S, r))
  PROVE  s = r
<1>1. s \in Nat /\ r \in Nat
  OBVIOUS
<1>2. CASE s < r
  BY <1>2, RankGrows
<1>3. CASE r < s
  BY <1>3, RankGrows
<1> QED  BY <1>1, <1>2, <1>3

\* Every element is listed, once, in increasing order.
LEMMA SortedLists ==
  ASSUME NEW n \in Nat, NEW S \in SUBSET (1..n)
  PROVE  /\ Sorted(S) \in Seq(S) /\ Range(Sorted(S)) = S
         /\ \A x, y : Precedes(Sorted(S), x, y) => x \in S /\ y \in S /\ x < y
<1> DEFINE k == Cardinality(S)
           q == Sorted(S)
<1>0. k \in Nat /\ IsFiniteSet(S)
  BY BoundedFinite
<1>1. q \in Seq(S)
  BY SortedType
<1>2. /\ DOMAIN q = 1..k
      /\ \A i \in 1..k : q[i] = CHOOSE s \in S : Cardinality(UpTo(S, s)) = i
  BY DEF Sorted
<1>3. \A i \in 1..k : q[i] \in S /\ Cardinality(UpTo(S, q[i])) = i
  BY <1>2, RankExists
<1> HIDE DEF q, k
<1>4. ASSUME NEW s \in S
      PROVE  s \in Range(q)
  <2> DEFINE i == Cardinality(UpTo(S, s))
  <2>1. UpTo(S, s) \in SUBSET S /\ s \in UpTo(S, s)
    BY DEF UpTo
  <2>2. i \in Nat /\ i <= k /\ IsFiniteSet(UpTo(S, s))
    <3>1. IsFiniteSet(UpTo(S, s)) /\ Cardinality(UpTo(S, s)) <= Cardinality(S)
      BY <1>0, <2>1, FS_Subset
    <3> QED  BY <3>1, FS_CardinalityType DEF k
  <2>3. i # 0
    BY <2>1, <2>2, FS_EmptySet
  <2>4. i \in 1..k
    BY <1>0, <2>2, <2>3
  <2>5. q[i] = s
    BY <1>3, <2>4, RankInjective
  <2> QED  BY <1>2, <2>4, <2>5 DEF Range
<1>5. ASSUME NEW x, NEW y, Precedes(q, x, y)
      PROVE  x \in S /\ y \in S /\ x < y
  <2>1. PICK i \in 1..k : \E j \in 1..k : i < j /\ x = q[i] /\ y = q[j]
    BY <1>2, <1>5 DEF Precedes
  <2>2. PICK j \in 1..k : i < j /\ x = q[i] /\ y = q[j]
    BY <2>1
  <2>3. x \in S /\ y \in S /\ Cardinality(UpTo(S, x)) = i /\ Cardinality(UpTo(S, y)) = j
    BY <1>3, <2>2
  <2>4. CASE x = y
    BY <2>2, <2>3, <2>4
  <2>5. CASE y < x
    <3>1. Cardinality(UpTo(S, y)) < Cardinality(UpTo(S, x))
      BY <2>3, <2>5, RankGrows
    <3> QED  BY <2>2, <2>3, <3>1
  <2>6. x \in Nat /\ y \in Nat
    BY <2>3
  <2> QED  BY <2>3, <2>4, <2>5, <2>6
<1>6. Range(q) \subseteq S
  BY <1>1, RangeOf
<1> QED  BY <1>1, <1>4, <1>5, <1>6 DEF q

\* And it is the only list of which that is true.
LEMMA SortedUnique ==
  ASSUME NEW n \in Nat, NEW S \in SUBSET (1..n), NEW q \in Seq(S), Range(q) = S,
         \A i, j \in DOMAIN q : i < j => q[i] < q[j]
  PROVE  q = Sorted(S)
<1> DEFINE k == Len(q)
<1>0. k \in Nat /\ DOMAIN q = 1..k /\ \A i \in 1..k : q[i] \in S /\ q[i] \in Nat
  <2>1. k \in Nat /\ DOMAIN q = 1..k /\ \A i \in 1..k : q[i] \in S
    BY LenProperties
  <2>2. S \subseteq Nat
    OBVIOUS
  <2> QED  BY <2>1, <2>2
<1> HIDE DEF k
<1>1. \A i \in 1..k : Cardinality(UpTo(S, q[i])) = i
  <2> SUFFICES ASSUME NEW i \in 1..k
               PROVE  Cardinality(UpTo(S, q[i])) = i
    OBVIOUS
  <2> DEFINE f == [j \in 1..i |-> q[j]]
             T == UpTo(S, q[i])
  <2>1. \A j \in 1..i : j \in 1..k /\ q[j] \in T
    BY <1>0 DEF UpTo
  <2>2. f \in [1..i -> T]
    BY <2>1
  <2>3. \A x, y \in 1..i : f[x] = f[y] => x = y
    <3>1. \A x, y \in 1..i : x \in 1..k /\ y \in 1..k /\ x \in Nat /\ y \in Nat
      BY <2>1
    <3>2. \A x, y \in 1..i : x < y => q[x] < q[y]
      BY <1>0, <3>1
    <3>3. \A x, y \in 1..i : q[x] = q[y] => ~ (x < y) /\ ~ (y < x)
      BY <1>0, <3>1, <3>2
    <3> QED  BY <3>1, <3>3
  <2>4. \A t \in T : \E j \in 1..i : f[j] = t
    <3> SUFFICES ASSUME NEW t \in T
                 PROVE  \E j \in 1..i : q[j] = t
      OBVIOUS
    <3>1. t \in Range(q) /\ t <= q[i]
      BY DEF UpTo
    <3>2. PICK j \in 1..k : q[j] = t
      BY <1>0, <3>1 DEF Range
    <3>3. ~ (i < j)
      <4>1. q[i] \in Nat /\ q[j] \in Nat /\ i \in DOMAIN q /\ j \in DOMAIN q
        BY <1>0
      <4>2. q[j] <= q[i]
        BY <3>1, <3>2
      <4>3. i < j => q[i] < q[j]
        BY <4>1
      <4> HIDE DEF f, T
      <4> QED  BY <4>1, <4>2, <4>3
    <3>4. j \in 1..i
      BY <1>0, <3>3
    <3> QED  BY <3>2, <3>4
  <2> HIDE DEF f, T
  <2>5. f \in Bijection(1..i, T)
    BY <2>2, <2>3, <2>4 DEF Bijection, Injection, Surjection, IsInjective
  <2>6. ExistsBijection(1..i, T)
    BY <2>5 DEF ExistsBijection
  <2>7. IsFiniteSet(1..i) /\ Cardinality(1..i) = i
    BY FS_Interval, 1 \in Int, i \in Int
  <2> QED  BY <2>6, <2>7, FS_Bijection DEF T
<1>2. Cardinality(S) = k
  <2>1. CASE k = 0
    <3>1. S = {}
      BY <1>0, <2>1 DEF Range
    <3> QED  BY <2>1, <3>1, FS_EmptySet
  <2>2. CASE k # 0
    <3>1. k \in 1..k
      BY <1>0, <2>2
    <3>2. \A s \in S : s <= q[k]
      <4> SUFFICES ASSUME NEW s \in S
                   PROVE  s <= q[k]
        OBVIOUS
      <4>1. PICK j \in 1..k : q[j] = s
        BY <1>0 DEF Range
      <4>2. j = k \/ j < k
        BY <1>0
      <4> QED  BY <1>0, <3>1, <4>1, <4>2
    <3>3. UpTo(S, q[k]) = S
      BY <3>2 DEF UpTo
    <3> QED  BY <1>1, <3>1, <3>3
  <2> QED  BY <2>1, <2>2
<1>3. \A i \in 1..k : q[i] = CHOOSE s \in S : Cardinality(UpTo(S, s)) = i
  <2> SUFFICES ASSUME NEW i \in 1..k
               PROVE  q[i] = CHOOSE s \in S : Cardinality(UpTo(S, s)) = i
    OBVIOUS
  <2> DEFINE r == CHOOSE s \in S : Cardinality(UpTo(S, s)) = i
  <2>1. q[i] \in S /\ Cardinality(UpTo(S, q[i])) = i
    BY <1>0, <1>1
  <2>2. r \in S /\ Cardinality(UpTo(S, r)) = i
    BY <2>1
  <2> HIDE DEF r
  <2>3. q[i] = r
    BY <2>1, <2>2, RankInjective
  <2> QED  BY <2>3 DEF r
<1>4. q = [i \in 1..k |-> q[i]]
  BY <1>0, LenProperties DEF k
<1> QED  BY <1>2, <1>3, <1>4, Zenon DEF Sorted

(***************************************************************************)
(* What the daemon answers when a client attaches.                         *)
(***************************************************************************)

Full(f) == f.body # <<>>
Stream(f) == f.kind \in {"replay", "output"}
Wanted(s, after) == ReplayReset(after) \/ s > after

\* Without a checkpoint: perhaps a reset, then what is retained, in its order.
LEMMA AnswerShape ==
  ASSUME TypeOK, checkpoint = NoCheckpoint, NEW after \in Nat
  PROVE  LET answer == AttachedFrames(after)
         IN /\ answer \in Seq(Frames)
            /\ \A f \in Range(answer) :
                 \/ f = ResetFrame /\ ReplayReset(after)
                 \/ f = AttachedFrame(LatestSeq)
                 \/ \E s \in retained : Wanted(s, after) /\ f = ReplayFrame(s)
            /\ ReplayReset(after) => ResetFrame \in Range(answer)
            /\ \A s \in retained : Wanted(s, after) => ReplayFrame(s) \in Range(answer)
            /\ \A f, g : Precedes(answer, f, g) =>
                 g.kind # "reset" /\ (Stream(g) => f.seq < g.seq)
<1> DEFINE S == {s \in retained : Wanted(s, after)}
           entries == [i \in DOMAIN Sorted(S) |-> ReplayFrame(Sorted(S)[i])]
           first == IF ReplayReset(after) THEN <<ResetFrame>> ELSE <<>>
           last == <<AttachedFrame(LatestSeq)>>
<1>0. LatestSeq \in Nat /\ S \in SUBSET (1..LatestSeq) /\ S \subseteq Nat
  <2>1. LatestSeq \in Nat /\ retained \subseteq 1..LatestSeq
    BY DEF TypeOK, SessionTypeOK, LatestSeq
  <2>2. S \subseteq retained
    BY Zenon
  <2> HIDE DEF S
  <2> QED  BY <2>1, <2>2
<1>1. /\ Sorted(S) \in Seq(S) /\ Range(Sorted(S)) = S
      /\ \A x, y : Precedes(Sorted(S), x, y) => x \in S /\ y \in S /\ x < y
  <2> HIDE DEF S
  <2> QED  BY <1>0, SortedLists
<1>2. AttachedFrames(after) = (first \o entries) \o last
  <2>1. ReplayEntries(after) = <<>> \o entries
    BY DEF ReplayEntries, Wanted
  <2>2. entries \in Seq(Frames)
    <3> HIDE DEF S
    <3>1. /\ DOMAIN Sorted(S) = 1..Len(Sorted(S)) /\ Len(Sorted(S)) \in Nat
          /\ \A i \in 1..Len(Sorted(S)) : Sorted(S)[i] \in Nat
      <4> DEFINE q == Sorted(S)
      <4>1. q \in Seq(S)
        BY <1>1
      <4> HIDE DEF q
      <4>2. DOMAIN q = 1..Len(q) /\ Len(q) \in Nat /\ \A i \in 1..Len(q) : q[i] \in S
        BY <4>1, LenProperties
      <4> QED  BY <1>0, <4>2 DEF q
    <3>2. entries \in [1..Len(Sorted(S)) -> Frames]
      BY <3>1, FrameTypes
    <3> QED  BY <3>1, <3>2, SeqDef
  <2> HIDE DEF entries
  <2>3. <<>> \o entries = entries
    BY <2>2, ConcatEmptySeq
  <2> QED  BY <2>1, <2>3 DEF AttachedFrames
<1> HIDE DEF S
<1>3. /\ entries \in Seq(Frames) /\ Range(entries) = {ReplayFrame(s) : s \in S}
      /\ \A f, g : Precedes(entries, f, g) =>
           \E x, y \in S : x < y /\ f = ReplayFrame(x) /\ g = ReplayFrame(y)
  <2> DEFINE q == Sorted(S)
  <2>1. q \in Seq(S) /\ Range(q) = S
    BY <1>1
  <2>2. DOMAIN q = 1..Len(q) /\ Len(q) \in Nat /\ \A i \in 1..Len(q) : q[i] \in S /\ q[i] \in Nat
    <3> HIDE DEF q
    <3>1. DOMAIN q = 1..Len(q) /\ Len(q) \in Nat /\ \A i \in 1..Len(q) : q[i] \in S
      BY <2>1, LenProperties
    <3> QED  BY <1>0, <3>1
  <2>3. entries = [i \in 1..Len(q) |-> ReplayFrame(q[i])]
    BY <2>2
  <2>4. \A x, y : Precedes(q, x, y) => x \in S /\ y \in S /\ x < y
    BY <1>1
  <2> HIDE DEF q, entries
  <2>5. entries \in [1..Len(q) -> Frames]
    BY <2>2, <2>3, FrameTypes
  <2>6. entries \in Seq(Frames)
    BY <2>2, <2>5, SeqDef
  <2>7. Range(entries) = {ReplayFrame(s) : s \in S}
    <3>1. ASSUME NEW f \in Range(entries)
          PROVE  f \in {ReplayFrame(s) : s \in S}
      <4>1. PICK i \in 1..Len(q) : f = ReplayFrame(q[i])
        BY <2>3, <3>1 DEF Range
      <4> QED  BY <2>2, <4>1
    <3>2. ASSUME NEW s \in S
          PROVE  ReplayFrame(s) \in Range(entries)
      <4>1. PICK i \in 1..Len(q) : s = q[i]
        BY <2>1, <2>2 DEF Range
      <4>2. i \in DOMAIN entries /\ entries[i] = ReplayFrame(s)
        BY <2>3, <4>1
      <4> QED  BY <4>2 DEF Range
    <3> QED  BY <3>1, <3>2
  <2>8. ASSUME NEW f, NEW g, Precedes(entries, f, g)
        PROVE  \E x, y \in S : x < y /\ f = ReplayFrame(x) /\ g = ReplayFrame(y)
    <3>1. PICK i \in 1..Len(q) : \E j \in 1..Len(q) : i < j /\ f = entries[i] /\ g = entries[j]
      BY <2>5, <2>8 DEF Precedes
    <3>2. PICK j \in 1..Len(q) : i < j /\ f = entries[i] /\ g = entries[j]
      BY <3>1
    <3>3. Precedes(q, q[i], q[j])
      BY <2>2, <3>2 DEF Precedes
    <3>4. q[i] \in S /\ q[j] \in S /\ q[i] < q[j] /\ f = ReplayFrame(q[i]) /\ g = ReplayFrame(q[j])
      BY <2>3, <2>4, <3>2, <3>3
    <3> QED  BY <3>4
  <2> QED  BY <2>6, <2>7, <2>8
<1>4. /\ first \in Seq(Frames) /\ Range(first) = (IF ReplayReset(after) THEN {ResetFrame} ELSE {})
      /\ \A f, g : ~Precedes(first, f, g)
  <2>1. CASE ReplayReset(after)
    BY <2>1, OneIn, FrameTypes
  <2>2. CASE ~ReplayReset(after)
    BY <2>2, NoneIn
  <2> QED  BY <2>1, <2>2
<1>5. last \in Seq(Frames) /\ Range(last) = {AttachedFrame(LatestSeq)} /\ \A f, g : ~Precedes(last, f, g)
  BY <1>0, OneIn, FrameTypes
<1> HIDE DEF entries, first, last
<1>6. /\ first \o entries \in Seq(Frames) /\ Range(first \o entries) = Range(first) \cup Range(entries)
      /\ \A f, g : Precedes(first \o entries, f, g) <=>
           (Precedes(first, f, g) \/ Precedes(entries, f, g) \/ (f \in Range(first) /\ g \in Range(entries)))
  BY <1>3, <1>4, ConcatIn, ConcatProperties
<1> DEFINE body == first \o entries
           answer == body \o last
<1>7. body \in Seq(Frames)
  BY <1>6
<1> HIDE DEF body
<1>8. /\ answer \in Seq(Frames) /\ Range(answer) = Range(body) \cup Range(last)
      /\ \A f, g : Precedes(answer, f, g) <=>
           (Precedes(body, f, g) \/ Precedes(last, f, g) \/ (f \in Range(body) /\ g \in Range(last)))
  BY <1>5, <1>7, ConcatIn, ConcatProperties
<1> HIDE DEF answer
<1>9. Range(answer) = Range(first) \cup Range(entries) \cup {AttachedFrame(LatestSeq)}
  BY <1>5, <1>6, <1>8 DEF body
<1>10. ASSUME NEW f, NEW g, Precedes(answer, f, g)
       PROVE  g.kind # "reset" /\ (Stream(g) => f.seq < g.seq)
  <2>1. \A x \in S : ReplayFrame(x).kind = "replay" /\ ReplayFrame(x).seq = x /\ x > 0
    BY <1>0 DEF ReplayFrame
  <2>2. AttachedFrame(LatestSeq).kind = "attached" /\ ResetFrame.seq = 0
    BY DEF AttachedFrame, ResetFrame
  <2>3. CASE Precedes(entries, f, g)
    <3>1. PICK x \in S : \E y \in S : x < y /\ f = ReplayFrame(x) /\ g = ReplayFrame(y)
      BY <1>3, <2>3
    <3>2. PICK y \in S : x < y /\ f = ReplayFrame(x) /\ g = ReplayFrame(y)
      BY <3>1
    <3> QED  BY <2>1, <3>2
  <2>4. CASE f \in Range(first) /\ g \in Range(entries)
    <3>1. f = ResetFrame /\ \E y \in S : g = ReplayFrame(y)
      BY <1>3, <1>4, <2>4
    <3> QED  BY <2>1, <2>2, <3>1
  <2>5. CASE g \in Range(last)
    BY <1>5, <2>2, <2>5 DEF Stream
  <2> QED  BY <1>4, <1>5, <1>6, <1>8, <1>10, <2>3, <2>4, <2>5 DEF body
<1>11. AttachedFrames(after) = answer
  BY <1>2 DEF answer, body
<1>12. \A f \in Range(answer) :
                 \/ f = ResetFrame /\ ReplayReset(after)
                 \/ f = AttachedFrame(LatestSeq)
                 \/ \E s \in retained : Wanted(s, after) /\ f = ReplayFrame(s)
  BY <1>3, <1>4, <1>9 DEF S
<1>13. ReplayReset(after) => ResetFrame \in Range(answer)
  BY <1>4, <1>9
<1>14. \A s \in retained : Wanted(s, after) => ReplayFrame(s) \in Range(answer)
  BY <1>3, <1>9 DEF S
<1> QED  BY <1>8, <1>10, <1>11, <1>12, <1>13, <1>14

(***************************************************************************)
(* The frames on their way, in a session without checkpoints.              *)
(***************************************************************************)

\* Output is added at the end.
Grown == outputs \subseteq outputs' /\ \A o \in outputs' : o \in Nat /\ (o \in outputs \/ o > LatestSeq)

LEMMA GrownStep ==
  ASSUME TypeOK, [Next]_vars
  PROVE  Grown
<1> USE DEF session
<1>0. nextSeq \in Nat \ {0} /\ LatestSeq = nextSeq - 1
  BY DEF TypeOK, SessionTypeOK, LatestSeq
<1>1. CASE Emit
  BY <1>0, <1>1 DEF Emit, Grown, TypeOK, SessionTypeOK
<1>2. CASE UNCHANGED outputs
  BY <1>0, <1>2 DEF Grown, TypeOK, SessionTypeOK
<1>3. CASE Resize \/ UNCHANGED vars
  BY <1>2, <1>3 DEF Resize, vars
<1>4. ASSUME NEW c \in Clients, DaemonStep(c)
      PROVE  UNCHANGED outputs
  BY <1>4 DEF DaemonStep, HandleAttach, AttachReply, CompleteAttach, HandleAck, FlushSend, FlushEnd,
              HandleCheckpoint
<1>5. ASSUME NEW c \in Clients, ClientStep(c) \/ Checkpointing(c) \/ Drop(c)
      PROVE  UNCHANGED outputs
  BY <1>5 DEF ClientStep, Deliver, Commit, NoticeClose, Connect, SendAttach,
         Checkpointing, Serialize, SendCheckpoint, Drop
<1> QED  BY <1>1, <1>2, <1>3, <1>4, <1>5 DEF Next

\* Nothing is on its way that is not a reset, the end of an answer, or one
\* sequence number with its output, if it has any.
Shape(f) ==
  /\ f.kind = "reset" => f = ResetFrame
  /\ f.kind = "attached" => f.body = <<>>
  /\ Stream(f) => f.body = IF f.seq \in outputs THEN <<f.seq>> ELSE <<>>
BodiesOf(d) ==
  /\ \A f \in Pending(d) : Shape(f)
  /\ \A f \in Range(inbox[d]) : f.kind # "attached"

\* It comes in its order, a reset before everything else.
RisingOf(d) ==
  \A f, g \in Range(Coming(d)) : Precedes(Coming(d), f, g) =>
    g.kind # "reset" /\ (Stream(g) => f.seq < g.seq)

\* Live output is news; what comes after a frame of the stream is complete, up
\* to the last frame that was sent.
Brought(d) == {f.seq : f \in {g \in Range(Coming(d)) : Full(g)}}
ThroughOf(d) ==
  attached[d] => \A f \in Range(Coming(d)) : Stream(f) =>
    /\ f.kind = "output" => received[d] < f.seq
    /\ \A o \in outputs : f.seq < o /\ o <= lastSent[d] => o \in Brought(d)

QueueOf(d) == BodiesOf(d) /\ RisingOf(d) /\ ThroughOf(d)
QueueInv == \A d \in Clients : QueueOf(d)

LEMMA PrecedesIn ==
  \A q, f, g : Precedes(q, f, g) => f \in Range(q) /\ g \in Range(q)
BY DEF Precedes, Range

\* A frame with output is of the stream, and carries what its number says.
LEMMA FullFrames ==
  ASSUME TypeOK, NEW d \in Clients, BodiesOf(d), NEW f \in Pending(d)
  PROVE  /\ f \in Frames /\ f.seq \in Nat
         /\ Full(f) => Stream(f) /\ f.body = <<f.seq>> /\ f.seq \in outputs
         /\ f.kind # "reset" /\ f.kind # "attached" => Stream(f)
         /\ Stream(f) /\ f.seq \in outputs => Full(f)
         /\ Stream(f) => f.kind # "reset" /\ f.kind # "attached"
         /\ f.kind = "reset" => f.seq = 0
<1>1. f \in Frames /\ f.seq \in Nat /\ f.kind \in {"reset", "replay", "output", "attached"}
  BY SeqTypes DEF Frames
<1>2. Shape(f)
  BY DEF BodiesOf
<1>3. f.kind = "reset" => f.body = <<>> /\ f.seq = 0
  BY <1>2 DEF Shape, ResetFrame
<1>4. <<f.seq>> # <<>>
  OBVIOUS
<1>5. \/ f.kind = "reset" /\ f.body = <<>> /\ f.seq = 0
      \/ f.kind = "attached" /\ f.body = <<>>
      \/ f.kind \in {"replay", "output"} /\ f.seq \in outputs /\ f.body = <<f.seq>>
      \/ f.kind \in {"replay", "output"} /\ f.seq \notin outputs /\ f.body = <<>>
  BY <1>1, <1>2, <1>3 DEF Shape, Stream
<1> QED  BY <1>1, <1>4, <1>5 DEF Stream, Full

LEMMA QueueSame ==
  ASSUME TypeOK, NEW d \in Clients, KnownOf(d), QueueOf(d), Grown,
         UNCHANGED Coming(d), Range(inbox'[d]) \subseteq Range(inbox[d]),
         attached'[d] => attached[d] /\ UNCHANGED <<received[d], lastSent[d]>>
  PROVE  QueueOf(d)'
<1>0. /\ LatestSeq \in Nat /\ lastSent[d] \in Nat /\ lastSent[d] <= LatestSeq
      /\ \A f \in Pending(d) : f.seq \in Nat /\ f.seq <= LatestSeq
      /\ Pending(d)' \subseteq Pending(d) /\ Range(Coming(d)) \subseteq Pending(d)
  BY ClientTypes, SeqTypes DEF KnownOf, Pending, TypeOK, HandlesTypeOK
<1>1. \A o \in outputs' : o \in outputs \/ ~ (o <= LatestSeq)
  BY <1>0 DEF Grown, TypeOK, SessionTypeOK
<1>2. BodiesOf(d)'
  <2>1. ASSUME NEW f \in Pending(d)'
        PROVE  Shape(f)'
    <3>1. Shape(f) /\ (f.seq \in outputs' <=> f.seq \in outputs)
      BY <1>0, <1>1 DEF QueueOf, BodiesOf, Grown
    <3> QED  BY <3>1 DEF Shape
  <2> QED  BY <2>1 DEF QueueOf, BodiesOf
<1>3. RisingOf(d)'
  BY DEF QueueOf, RisingOf
<1>4. ThroughOf(d)'
  <2> SUFFICES ASSUME attached'[d], NEW f \in Range(Coming(d)), Stream(f)
               PROVE  /\ f.kind = "output" => received'[d] < f.seq
                      /\ \A o \in outputs' : f.seq < o /\ o <= lastSent'[d] => o \in Brought(d)
    BY DEF ThroughOf, Brought
  <2>1. /\ attached[d] /\ received'[d] = received[d] /\ lastSent'[d] = lastSent[d]
    OBVIOUS
  <2>2. ASSUME NEW o \in outputs', f.seq < o, o <= lastSent[d]
        PROVE  o \in outputs
    <3>1. o \in Nat
      BY <1>0, <2>2 DEF Grown, TypeOK, SessionTypeOK
    <3> QED  BY <1>0, <1>1, <2>2, <3>1
  <2> QED  BY <2>1, <2>2 DEF QueueOf, ThroughOf
<1> QED  BY <1>2, <1>3, <1>4 DEF QueueOf

LEMMA QueueFed ==
  ASSUME TypeOK, NEW d \in Clients, KnownOf(d), attached[d] => SentOf(d), QueueOf(d), Grown,
         checkpoint = NoCheckpoint, Fed(d)
  PROVE  QueueOf(d)'
<1>1. PICK s \in outputs' :
        /\ attached[d] /\ s \in Nat /\ lastSent[d] < s /\ s <= LatestSeq'
        /\ \A o \in outputs' : o <= lastSent[d] \/ s <= o
        /\ Coming(d)' = Append(Coming(d), OutputFrame(s)) /\ lastSent'[d] = s
        /\ UNCHANGED <<attached[d], Viewer(d)>>
  <2>1. checkpoint.seq <= lastSent[d]
    BY ClientTypes DEF NoCheckpoint
  <2> QED  BY <2>1 DEF Fed
<1> DEFINE e == OutputFrame(s)
<1>2. e \in Frames /\ e.seq = s /\ e.kind = "output" /\ e.body = <<s>> /\ Full(e)
  BY <1>1, FrameTypes DEF OutputFrame, Full
<1>3. Coming(d)' = Append(Coming(d), e)
  BY <1>1
<1> HIDE DEF e
<1>4. /\ Range(Coming(d)') = Range(Coming(d)) \cup {e}
      /\ \A f, g : Precedes(Coming(d)', f, g) <=>
           (Precedes(Coming(d), f, g) \/ (f \in Range(Coming(d)) /\ g = e))
  <2>1. \A q \in Seq(Frames) :
          /\ Range(Append(q, e)) = Range(q) \cup {e}
          /\ \A f, g : Precedes(Append(q, e), f, g) <=>
               (Precedes(q, f, g) \/ (f \in Range(q) /\ g = e))
    BY <1>2, AppendIn
  <2> QED  BY <1>3, <2>1, ClientTypes
<1>5. UNCHANGED <<attached[d], inbox[d], received[d]>> /\ attached[d]
  BY <1>1 DEF Viewer
<1>6. Pending(d)' = Pending(d) \cup {e} /\ Range(Coming(d)) \subseteq Pending(d)
  BY <1>4, <1>5 DEF Pending
<1>7. /\ LatestSeq \in Nat /\ lastSent[d] \in Nat /\ received[d] \in Nat /\ SentOf(d)
      /\ \A f \in Pending(d) : f.seq \in Nat /\ f.seq <= LatestSeq /\ f.seq <= lastSent[d]
      /\ \A o \in outputs' : o \in outputs \/ ~ (o <= LatestSeq)
  BY <1>1, ClientTypes, SeqTypes DEF KnownOf, SentOf, Grown, TypeOK, SessionTypeOK
<1>8. BodiesOf(d)'
  <2>1. ASSUME NEW f \in Pending(d)
        PROVE  Shape(f)'
    <3>1. Shape(f) /\ (f.seq \in outputs' <=> f.seq \in outputs)
      BY <1>7 DEF QueueOf, BodiesOf, Grown
    <3> QED  BY <3>1 DEF Shape
  <2>2. Shape(e)'
    BY <1>1, <1>2 DEF Shape
  <2> QED  BY <1>5, <1>6, <2>1, <2>2 DEF QueueOf, BodiesOf
<1>9. RisingOf(d)'
  <2>1. \A f \in Range(Coming(d)) : f.seq < e.seq
    BY <1>1, <1>2, <1>6, <1>7
  <2>2. e.kind # "reset"
    BY <1>2
  <2> QED  BY <1>4, <2>1, <2>2, PrecedesIn DEF QueueOf, RisingOf
<1>10. Brought(d)' = Brought(d) \cup {s}
  BY <1>2, <1>4 DEF Brought
<1>11. ThroughOf(d)'
  <2> SUFFICES ASSUME NEW f \in Range(Coming(d)) \cup {e}, Stream(f)
               PROVE  /\ f.kind = "output" => received[d] < f.seq
                      /\ \A o \in outputs' : f.seq < o /\ o <= s => o \in Brought(d) \cup {s}
    BY <1>1, <1>4, <1>5, <1>10 DEF ThroughOf
  <2>1. f.kind = "output" => received[d] < f.seq
    BY <1>1, <1>2, <1>5, <1>7 DEF QueueOf, ThroughOf, SentOf
  <2>2. ASSUME NEW o \in outputs', f.seq < o, o <= s
        PROVE  o \in Brought(d) \cup {s}
    <3>0. o \in Nat
      BY <1>1, <1>7, <2>2 DEF Grown, TypeOK, SessionTypeOK, LatestSeq
    <3>1. CASE o = s
      BY <3>1
    <3>2. CASE o # s
      <4>1. o <= lastSent[d] /\ f # e
        BY <1>1, <1>2, <2>2, <3>0, <3>2
      <4>2. o \in outputs /\ f \in Range(Coming(d))
        BY <1>7, <3>0, <4>1 DEF TypeOK, HandlesTypeOK
      <4> QED  BY <1>5, <2>2, <4>1, <4>2 DEF QueueOf, ThroughOf
    <3> QED  BY <3>1, <3>2
  <2> QED  BY <2>1, <2>2
<1> QED  BY <1>8, <1>9, <1>11 DEF QueueOf

LEMMA QueueJoined ==
  ASSUME TypeOK, NEW d \in Clients, KnownOf(d), QueueOf(d), OutputKept,
         checkpoint = NoCheckpoint, Joined(d)
  PROVE  QueueOf(d)'
<1> DEFINE after == Head(requests[d]).seq
           answer == AttachedFrames(after)
<1>1. /\ Coming(d) = <<>> /\ requests[d] # <<>> /\ Coming(d)' = answer /\ lastSent'[d] = LatestSeq
      /\ UNCHANGED <<inbox[d], received[d], outputs, retained>>
  BY DEF Joined, Viewer, session
<1>2. after \in Nat
  BY <1>1, ClientTypes, HeadRequest
<1> HIDE DEF after
<1>3. /\ answer \in Seq(Frames)
      /\ \A f \in Range(answer) :
           \/ f = ResetFrame
           \/ f = AttachedFrame(LatestSeq)
           \/ \E s \in retained : Wanted(s, after) /\ f = ReplayFrame(s)
      /\ \A s \in retained : Wanted(s, after) => ReplayFrame(s) \in Range(answer)
      /\ \A f, g : Precedes(answer, f, g) => g.kind # "reset" /\ (Stream(g) => f.seq < g.seq)
  BY <1>2, AnswerShape
<1> HIDE DEF answer
<1>4. \A s \in retained : /\ ReplayFrame(s).kind = "replay" /\ ReplayFrame(s).seq = s
                          /\ ReplayFrame(s).body = IF s \in outputs THEN <<s>> ELSE <<>>
  BY DEF ReplayFrame
<1>5. BodiesOf(d)'
  <2>1. ASSUME NEW f \in Range(answer)
        PROVE  Shape(f)
    <3>1. CASE f = ResetFrame \/ f = AttachedFrame(LatestSeq)
      BY <3>1 DEF Shape, ResetFrame, AttachedFrame, Stream
    <3>2. CASE \E s \in retained : f = ReplayFrame(s)
      BY <1>4, <3>2 DEF Shape, Stream
    <3> QED  BY <1>3, <3>1, <3>2
  <2>2. Pending(d)' = Range(inbox[d]) \cup Range(answer) /\ Range(inbox[d]) \subseteq Pending(d)
    BY <1>1 DEF Pending
  <2>3. \A f : Shape(f)' <=> Shape(f)
    BY <1>1 DEF Shape
  <2> QED  BY <1>1, <2>1, <2>2, <2>3 DEF QueueOf, BodiesOf
<1>6. RisingOf(d)'
  BY <1>1, <1>3 DEF RisingOf
<1>7. ThroughOf(d)'
  <2> SUFFICES ASSUME NEW f \in Range(answer), Stream(f)
               PROVE  /\ f.kind = "output" => received[d] < f.seq
                      /\ \A o \in outputs : f.seq < o => o \in Brought(d)'
    BY <1>1 DEF ThroughOf
  <2>1. f # ResetFrame /\ f # AttachedFrame(LatestSeq)
    BY DEF ResetFrame, AttachedFrame, Stream
  <2>2. PICK s \in retained : Wanted(s, after) /\ f = ReplayFrame(s)
    BY <1>3, <2>1
  <2>3. f.kind = "replay" /\ f.seq = s
    BY <1>4, <2>2
  <2>4. ASSUME NEW o \in outputs, s < o
        PROVE  o \in Brought(d)'
    <3>0. o \in Nat /\ s \in Nat
      BY DEF TypeOK, SessionTypeOK
    <3>1. ~ (o <= checkpoint.seq) /\ ~ (o < s)
      BY <2>4, <3>0 DEF NoCheckpoint
    <3>2. o \in retained
      BY <3>1 DEF OutputKept
    <3>3. Wanted(o, after)
      <4>1. ReplayReset(after) \/ o > after
        BY <1>2, <2>2, <2>4, <3>0 DEF Wanted
      <4> QED  BY <4>1, Zenon DEF Wanted
    <3>4. ReplayFrame(o) \in Range(answer) /\ ReplayFrame(o).seq = o /\ Full(ReplayFrame(o))
      <4>1. ReplayFrame(o) \in Range(answer)
        BY <1>3, <3>2, <3>3
      <4>2. ReplayFrame(o).seq = o /\ ReplayFrame(o).body = <<o>> /\ <<o>> # <<>>
        BY <1>4, <2>4, <3>2
      <4> QED  BY <4>1, <4>2 DEF Full
    <3> QED  BY <1>1, <3>4 DEF Brought
  <2> QED  BY <2>3, <2>4
<1> QED  BY <1>5, <1>6, <1>7 DEF QueueOf

LEMMA QueueCut ==
  ASSUME TypeOK, NEW d \in Clients, KnownOf(d), QueueOf(d), Grown, Cut(d)
  PROVE  QueueOf(d)'
<1>1. Coming(d)' = <<>> /\ ~attached'[d] /\ inbox'[d] = inbox[d]
  BY DEF Cut, Viewer
<1>2. Pending(d)' \subseteq Pending(d) /\ Range(Coming(d)') = {}
  BY <1>1, NoneIn DEF Pending
<1>3. \A f \in Pending(d) : f.seq \in Nat /\ f.seq <= LatestSeq
  BY SeqTypes DEF KnownOf
<1>4. ASSUME NEW f \in Pending(d)'
      PROVE  Shape(f)'
  <2>1. Shape(f) /\ (f.seq \in outputs' <=> f.seq \in outputs)
    <3>1. f \in Pending(d) /\ f.seq \in Nat /\ f.seq <= LatestSeq /\ LatestSeq \in Nat
      BY <1>2, <1>3, ClientTypes
    <3> QED  BY <3>1 DEF QueueOf, BodiesOf, Grown
  <2> QED  BY <2>1 DEF Shape
<1>5. BodiesOf(d)'
  BY <1>1, <1>4 DEF QueueOf, BodiesOf
<1> QED  BY <1>1, <1>2, <1>5 DEF QueueOf, RisingOf, ThroughOf

LEMMA QueueDelivered ==
  ASSUME TypeOK, NEW d \in Clients, KnownOf(d), attached[d] => SentOf(d), QueueOf(d), Delivered(d)
  PROVE  QueueOf(d)'
<1> DEFINE h == Head(Coming(d))
           fresh == h.kind # "output" \/ h.seq > received[d]
           shown == h.kind # "attached" /\ fresh /\ Takes(d, h)
<1>1. /\ attached[d] /\ Coming(d) # <<>> /\ Coming(d)' = Tail(Coming(d))
      /\ received'[d] = IF h.kind = "attached" \/ (h.kind = "output" /\ fresh) THEN h.seq ELSE received[d]
      /\ inbox'[d] = IF shown THEN Append(inbox[d], h) ELSE inbox[d]
      /\ UNCHANGED <<session, Handle(d)>>
  BY DEF Delivered
<1>2. UNCHANGED <<attached[d], lastSent[d], outputs>>
  BY <1>1 DEF Handle, session
<1>3. /\ h \in Frames /\ Range(Coming(d)) = {h} \cup Range(Coming(d)')
      /\ \A f, g : Precedes(Coming(d), f, g) <=>
           (Precedes(Coming(d)', f, g) \/ (f = h /\ g \in Range(Coming(d)')))
      /\ Pending(d)' \subseteq Pending(d)
  BY <1>1, DeliveredQueues
<1>4. inbox'[d] = inbox[d] \/ (inbox'[d] = Append(inbox[d], h) /\ h.kind # "attached")
  BY <1>1
<1>5. received'[d] = received[d] \/ received'[d] = h.seq
  BY <1>1
<1> HIDE DEF h, fresh, shown
<1>6. BodiesOf(d)'
  <2>1. Range(inbox'[d]) \subseteq Range(inbox[d]) \/ (Range(inbox'[d]) = Range(inbox[d]) \cup {h} /\ h.kind # "attached")
    <3>1. Range(Append(inbox[d], h)) = Range(inbox[d]) \cup {h}
      BY <1>3, AppendIn, ClientTypes
    <3> QED  BY <1>4, <3>1
  <2>2. \A f : Shape(f)' <=> Shape(f)
    BY <1>2 DEF Shape
  <2>3. \A f \in Range(inbox'[d]) : f.kind # "attached"
    BY <2>1 DEF QueueOf, BodiesOf
  <2>4. \A f \in Pending(d)' : Shape(f)'
    BY <1>3, <2>2 DEF QueueOf, BodiesOf
  <2> QED  BY <2>3, <2>4 DEF BodiesOf
<1>7. RisingOf(d)'
  BY <1>3 DEF QueueOf, RisingOf
<1>8. ThroughOf(d)'
  <2> SUFFICES ASSUME NEW f \in Range(Coming(d)'), Stream(f)
               PROVE  /\ f.kind = "output" => received'[d] < f.seq
                      /\ \A o \in outputs : f.seq < o /\ o <= lastSent[d] => o \in Brought(d)'
    BY <1>2 DEF ThroughOf
  <2>0. f \in Range(Coming(d)) /\ h \in Range(Coming(d)) /\ Precedes(Coming(d), h, f) /\ f.seq \in Nat
        /\ h.seq \in Nat
    BY <1>3, SeqTypes DEF Pending
  <2>1. h.seq < f.seq
    BY <2>0 DEF QueueOf, RisingOf
  <2>2. f.kind = "output" => received'[d] < f.seq
    BY <1>1, <1>5, <2>0, <2>1 DEF QueueOf, ThroughOf
  <2>3. ASSUME NEW o \in outputs, f.seq < o, o <= lastSent[d]
        PROVE  o \in Brought(d)'
    <3>1. o \in Brought(d)
      BY <1>1, <2>0, <2>3 DEF QueueOf, ThroughOf
    <3>2. PICK g \in Range(Coming(d)) : Full(g) /\ o = g.seq
      BY <3>1 DEF Brought
    <3>3. g # h
      BY <2>0, <2>1, <2>3, <3>2
    <3> QED  BY <1>3, <3>2, <3>3 DEF Brought
  <2> QED  BY <2>2, <2>3
<1> QED  BY <1>6, <1>7, <1>8 DEF QueueOf

LEMMA QueueStep ==
  ASSUME TypeOK, StreamInv, LinkInv, CreditInv, NoCheckpoints, QueueInv, [Next]_vars
  PROVE  QueueInv'
<1> SUFFICES ASSUME NEW d \in Clients
             PROVE  QueueOf(d)'
  BY DEF QueueInv
<1>0. /\ QueueOf(d) /\ KnownOf(d) /\ (attached[d] => SentOf(d)) /\ Grown /\ Event(d)
      /\ checkpoint = NoCheckpoint /\ OutputKept
  BY ClientEvent, GrownStep DEF QueueInv, CreditInv, CreditOf, WindowOf, NoCheckpoints, StreamInv
<1>1. CASE Rested(d) \/ Served(d) \/ Uploaded(d)
  <2>1. UNCHANGED <<attached[d], lastSent[d], Coming(d), inbox[d], received[d]>>
    BY <1>1 DEF Rested, Served, Uploaded, Handle, Viewer
  <2> QED  BY <1>0, <2>1, QueueSame
<1>2. CASE Reached(d)
  <2>1. UNCHANGED <<attached[d], lastSent[d], Coming(d), inbox[d]>> /\ ~attached'[d]
    BY <1>2 DEF Reached, Handle
  <2> QED  BY <1>0, <2>1, QueueSame
<1>3. CASE Wrote(d)
  <2>1. UNCHANGED <<attached[d], lastSent[d], Coming(d), received[d]>>
    BY <1>3 DEF Wrote, Handle
  <2>2. Range(inbox'[d]) \subseteq Range(inbox[d])
    <3>1. inbox[d] # <<>> /\ inbox'[d] = Tail(inbox[d])
      BY <1>3 DEF Wrote
    <3> QED  BY <3>1, TailIn, ClientTypes
  <2> QED  BY <1>0, <2>1, <2>2, QueueSame
<1>4. CASE Fed(d)
  BY <1>0, <1>4, QueueFed
<1>5. CASE Joined(d)
  BY <1>0, <1>5, QueueJoined
<1>6. CASE Cut(d)
  BY <1>0, <1>6, QueueCut
<1>7. CASE Delivered(d)
  BY <1>0, <1>7, QueueDelivered
<1> QED  BY <1>0, <1>1, <1>2, <1>3, <1>4, <1>5, <1>6, <1>7 DEF Event

LEMMA QueueInit == Init => QueueInv
<1> SUFFICES ASSUME Init, NEW d \in Clients
             PROVE  QueueOf(d)
  BY DEF QueueInv
<1>1. inbox[d] = <<>> /\ Coming(d) = <<>>
  BY DEF Init, Coming
<1>2. Pending(d) = {} /\ Range(Coming(d)) = {} /\ Range(inbox[d]) = {}
  BY <1>1, NoneIn DEF Pending
<1> QED  BY <1>2 DEF QueueOf, BodiesOf, RisingOf, ThroughOf

(***************************************************************************)
(* What a queue of frames will leave on a screen.                          *)
(***************************************************************************)

UncutIn(q, m, n) == \A l \in m..n : q[l].kind # "reset"
\* The output shown when the first n frames of q have been written to a screen
\* that shows S.
ContentIn(q, S, n) ==
  {q[k].seq : k \in {j \in 1..n : Full(q[j]) /\ UncutIn(q, j, n)}}
    \cup (IF UncutIn(q, 1, n) THEN S ELSE {})
\* The sequence numbers after the last reset.
LaterIn(q) == {q[k].seq : k \in {j \in DOMAIN q : UncutIn(q, j, Len(q))}}

LEMMA ContentMember ==
  \A q, S, n, x : x \in ContentIn(q, S, n) <=>
    \/ x \in S /\ UncutIn(q, 1, n)
    \/ \E k \in 1..n : Full(q[k]) /\ UncutIn(q, k, n) /\ x = q[k].seq
BY DEF ContentIn

LEMMA LaterMember ==
  \A q, x : x \in LaterIn(q) <=> \E k \in DOMAIN q : UncutIn(q, k, Len(q)) /\ x = q[k].seq
BY DEF LaterIn

LEMMA UncutAppend ==
  ASSUME NEW q \in Seq(Frames), NEW e \in Frames
  PROVE  /\ \A m, n \in Nat : m > 0 /\ n <= Len(q) =>
              (UncutIn(Append(q, e), m, n) <=> UncutIn(q, m, n))
         /\ \A m \in 1..(Len(q) + 1) :
              UncutIn(Append(q, e), m, Len(q) + 1) <=> (e.kind # "reset" /\ UncutIn(q, m, Len(q)))
<1> DEFINE a == Append(q, e)
<1>1. /\ Len(q) \in Nat /\ Len(a) = Len(q) + 1 /\ a[Len(q) + 1] = e
      /\ \A l \in 1..Len(q) : a[l] = q[l]
  BY AppendProperties, LenProperties
<1> HIDE DEF a
<1>2. ASSUME NEW m \in Nat, NEW n \in Nat, m > 0, n <= Len(q)
      PROVE  UncutIn(a, m, n) <=> UncutIn(q, m, n)
  <2>1. \A l \in m..n : a[l] = q[l]
    BY <1>1, <1>2
  <2> QED  BY <2>1 DEF UncutIn
<1>3. ASSUME NEW m \in 1..(Len(q) + 1)
      PROVE  UncutIn(a, m, Len(q) + 1) <=> (e.kind # "reset" /\ UncutIn(q, m, Len(q)))
  <2>1. m..(Len(q) + 1) = m..Len(q) \cup {Len(q) + 1}
    BY <1>1
  <2>2. \A l \in m..Len(q) : a[l] = q[l]
    BY <1>1
  <2> QED  BY <1>1, <2>1, <2>2 DEF UncutIn
<1> QED  BY <1>2, <1>3 DEF a

LEMMA ContentAppend ==
  ASSUME NEW q \in Seq(Frames), NEW e \in Frames, NEW S
  PROVE  /\ \A n \in 0..Len(q) : ContentIn(Append(q, e), S, n) = ContentIn(q, S, n)
         /\ e.kind = "reset" /\ ~Full(e) => ContentIn(Append(q, e), S, Len(q) + 1) = {}
         /\ e.kind # "reset" => ContentIn(Append(q, e), S, Len(q) + 1) =
              ContentIn(q, S, Len(q)) \cup (IF Full(e) THEN {e.seq} ELSE {})
<1> DEFINE a == Append(q, e)
           N == Len(q)
<1>1. /\ N \in Nat /\ a[N + 1] = e /\ \A l \in 1..N : a[l] = q[l]
  BY AppendProperties, LenProperties
<1>2. /\ \A m, n \in Nat : m > 0 /\ n <= N => (UncutIn(a, m, n) <=> UncutIn(q, m, n))
      /\ \A m \in 1..(N + 1) : UncutIn(a, m, N + 1) <=> (e.kind # "reset" /\ UncutIn(q, m, N))
  BY UncutAppend
<1> HIDE DEF a, N
<1>3. ASSUME NEW n \in 0..N
      PROVE  ContentIn(a, S, n) = ContentIn(q, S, n)
  <2>1. \A k \in 1..n : a[k] = q[k] /\ (UncutIn(a, k, n) <=> UncutIn(q, k, n))
    BY <1>1, <1>2
  <2>2. UncutIn(a, 1, n) <=> UncutIn(q, 1, n)
    BY <1>1, <1>2
  <2>3. \A x : x \in ContentIn(a, S, n) <=> x \in ContentIn(q, S, n)
    BY <2>1, <2>2, ContentMember
  <2> QED  BY <2>3
<1>4. 1..(N + 1) = 1..N \cup {N + 1} /\ N + 1 \in 1..(N + 1) /\ 1 \in 1..(N + 1)
  BY <1>1
<1>5. ASSUME e.kind = "reset", ~Full(e)
      PROVE  ContentIn(a, S, N + 1) = {}
  <2>1. \A k \in 1..(N + 1) : ~UncutIn(a, k, N + 1)
    BY <1>2, <1>5
  <2>2. \A x : x \notin ContentIn(a, S, N + 1)
    BY <1>4, <2>1, ContentMember
  <2> QED  BY <2>2
<1>6. ASSUME e.kind # "reset"
      PROVE  ContentIn(a, S, N + 1) = ContentIn(q, S, N) \cup (IF Full(e) THEN {e.seq} ELSE {})
  <2>1. UncutIn(a, 1, N + 1) <=> UncutIn(q, 1, N)
    BY <1>2, <1>4, <1>6
  <2>2. \A k \in 1..N : a[k] = q[k] /\ (UncutIn(a, k, N + 1) <=> UncutIn(q, k, N))
    BY <1>1, <1>2, <1>4, <1>6
  <2>3. UncutIn(q, N + 1, N) /\ UncutIn(a, N + 1, N + 1)
    <3>1. (N + 1)..N = {}
      BY <1>1
    <3>2. UncutIn(q, N + 1, N)
      BY <3>1 DEF UncutIn
    <3> QED  BY <1>2, <1>4, <1>6, <3>2
  <2>4. \A x : x \in ContentIn(a, S, N + 1) <=>
               (x \in ContentIn(q, S, N) \/ (Full(e) /\ x = e.seq))
    <3>1. \A x : (\E k \in 1..(N + 1) : Full(a[k]) /\ UncutIn(a, k, N + 1) /\ x = a[k].seq) <=>
                 (\/ \E k \in 1..N : Full(q[k]) /\ UncutIn(q, k, N) /\ x = q[k].seq
                  \/ Full(e) /\ x = e.seq)
      BY <1>1, <1>4, <2>2, <2>3
    <3>2. \A x : x \in ContentIn(a, S, N + 1) <=>
                 \/ x \in S /\ UncutIn(a, 1, N + 1)
                 \/ \E k \in 1..(N + 1) : Full(a[k]) /\ UncutIn(a, k, N + 1) /\ x = a[k].seq
      BY ContentMember
    <3>3. \A x : x \in ContentIn(q, S, N) <=>
                 \/ x \in S /\ UncutIn(q, 1, N)
                 \/ \E k \in 1..N : Full(q[k]) /\ UncutIn(q, k, N) /\ x = q[k].seq
      BY ContentMember
    <3> QED  BY <2>1, <3>1, <3>2, <3>3, Zenon
  <2> QED  BY <2>4
<1> QED  BY <1>3, <1>5, <1>6 DEF a, N

LEMMA LaterAppend ==
  ASSUME NEW q \in Seq(Frames), NEW e \in Frames
  PROVE  LaterIn(Append(q, e)) = IF e.kind = "reset" THEN {} ELSE LaterIn(q) \cup {e.seq}
<1> DEFINE a == Append(q, e)
           N == Len(q)
<1>1. /\ N \in Nat /\ Len(a) = N + 1 /\ DOMAIN a = 1..(N + 1) /\ DOMAIN q = 1..N
      /\ a[N + 1] = e /\ \A l \in 1..N : a[l] = q[l]
  BY AppendProperties, LenProperties
<1>2. \A m \in 1..(N + 1) : UncutIn(a, m, N + 1) <=> (e.kind # "reset" /\ UncutIn(q, m, N))
  BY UncutAppend
<1> HIDE DEF a, N
<1>3. 1..(N + 1) = 1..N \cup {N + 1} /\ (N + 1)..N = {}
  BY <1>1
<1>4. UncutIn(q, N + 1, N)
  BY <1>3 DEF UncutIn
<1>5. CASE e.kind = "reset"
  <2>1. \A x : x \notin LaterIn(a)
    BY <1>1, <1>2, <1>5, LaterMember
  <2> QED  BY <1>5, <2>1 DEF a
<1>6. CASE e.kind # "reset"
  <2>1. \A x : (\E k \in 1..(N + 1) : UncutIn(a, k, N + 1) /\ x = a[k].seq) <=>
               (\E k \in 1..N : UncutIn(q, k, N) /\ x = q[k].seq) \/ x = e.seq
    BY <1>1, <1>2, <1>3, <1>4, <1>6
  <2>2. \A x : x \in LaterIn(a) <=> (x \in LaterIn(q) \/ x = e.seq)
    BY <1>1, <2>1, LaterMember DEF N
  <2> QED  BY <1>6, <2>2 DEF a
<1> QED  BY <1>5, <1>6

LEMMA UncutTail ==
  ASSUME NEW q \in Seq(Frames), q # <<>>
  PROVE  /\ \A m, n \in Nat : m > 0 /\ n < Len(q) =>
              (UncutIn(Tail(q), m, n) <=> UncutIn(q, m + 1, n + 1))
         /\ \A n \in Nat : n < Len(q) =>
              (UncutIn(q, 1, n + 1) <=> (Head(q).kind # "reset" /\ UncutIn(Tail(q), 1, n)))
<1> DEFINE t == Tail(q)
           h == Head(q)
<1>1. /\ Len(q) \in Nat /\ q[1] = h /\ \A l \in 1..Len(q) : l < Len(q) => t[l] = q[l + 1]
  BY HeadTailProperties, LenProperties
<1> HIDE DEF t, h
<1>2. ASSUME NEW m \in Nat, NEW n \in Nat, m > 0, n < Len(q)
      PROVE  UncutIn(t, m, n) <=> UncutIn(q, m + 1, n + 1)
  <2>1. \A l \in m..n : t[l] = q[l + 1] /\ l + 1 \in (m + 1)..(n + 1)
    BY <1>1, <1>2
  <2>2. \A l \in (m + 1)..(n + 1) : l - 1 \in m..n /\ t[l - 1] = q[l]
    <3> SUFFICES ASSUME NEW l \in (m + 1)..(n + 1)
                 PROVE  l - 1 \in m..n /\ t[l - 1] = q[l]
      OBVIOUS
    <3>1. l - 1 \in m..n /\ (l - 1) + 1 = l
      BY <1>2
    <3> QED  BY <2>1, <3>1
  <2> QED  BY <2>1, <2>2 DEF UncutIn
<1>3. ASSUME NEW n \in Nat, n < Len(q)
      PROVE  UncutIn(q, 1, n + 1) <=> (h.kind # "reset" /\ UncutIn(t, 1, n))
  <2>1. UncutIn(t, 1, n) <=> UncutIn(q, 2, n + 1)
    <3>1. UncutIn(t, 1, n) <=> UncutIn(q, 1 + 1, n + 1)
      BY <1>2, <1>3
    <3> QED  BY <3>1
  <2>2. 1..(n + 1) = {1} \cup 2..(n + 1)
    BY <1>3
  <2> QED  BY <1>1, <2>1, <2>2 DEF UncutIn
<1> QED  BY <1>2, <1>3 DEF t, h

LEMMA ContentTail ==
  ASSUME NEW q \in Seq(Frames), q # <<>>, NEW S, NEW T,
         Head(q).kind = "reset" => ~Full(Head(q)) /\ T = {},
         Head(q).kind # "reset" => T = IF Full(Head(q)) THEN S \cup {Head(q).seq} ELSE S
  PROVE  \A n \in Nat : n < Len(q) => ContentIn(Tail(q), T, n) = ContentIn(q, S, n + 1)
<1> DEFINE t == Tail(q)
           h == Head(q)
<1>1. /\ Len(q) \in Nat /\ q[1] = h /\ \A l \in 1..Len(q) : l < Len(q) => t[l] = q[l + 1]
  BY HeadTailProperties, LenProperties
<1>2. /\ \A m, n \in Nat : m > 0 /\ n < Len(q) => (UncutIn(t, m, n) <=> UncutIn(q, m + 1, n + 1))
      /\ \A n \in Nat : n < Len(q) =>
           (UncutIn(q, 1, n + 1) <=> (h.kind # "reset" /\ UncutIn(t, 1, n)))
  BY UncutTail
<1>3. /\ h.kind = "reset" => ~Full(h) /\ T = {}
      /\ h.kind # "reset" => T = IF Full(h) THEN S \cup {h.seq} ELSE S
  OBVIOUS
<1> HIDE DEF t, h
<1> SUFFICES ASSUME NEW n \in Nat, n < Len(q)
             PROVE  ContentIn(t, T, n) = ContentIn(q, S, n + 1)
  BY DEF t
<1>4. \A k \in 1..n : /\ t[k] = q[k + 1] /\ k + 1 \in 2..(n + 1)
                      /\ UncutIn(t, k, n) <=> UncutIn(q, k + 1, n + 1)
  <2> SUFFICES ASSUME NEW k \in 1..n
               PROVE  /\ t[k] = q[k + 1] /\ k + 1 \in 2..(n + 1)
                      /\ UncutIn(t, k, n) <=> UncutIn(q, k + 1, n + 1)
    OBVIOUS
  <2>1. k \in 1..Len(q) /\ k < Len(q) /\ k \in Nat /\ k > 0 /\ k + 1 \in 2..(n + 1)
    BY <1>1
  <2>2. t[k] = q[k + 1]
    BY <1>1, <2>1
  <2>3. UncutIn(t, k, n) <=> UncutIn(q, k + 1, n + 1)
    BY <1>2, <2>1
  <2> QED  BY <2>1, <2>2, <2>3
<1>5. \A k \in 2..(n + 1) : k - 1 \in 1..n /\ t[k - 1] = q[k]
                            /\ (UncutIn(t, k - 1, n) <=> UncutIn(q, k, n + 1))
  <2> SUFFICES ASSUME NEW k \in 2..(n + 1)
               PROVE  k - 1 \in 1..n /\ t[k - 1] = q[k]
                            /\ (UncutIn(t, k - 1, n) <=> UncutIn(q, k, n + 1))
    OBVIOUS
  <2>1. k - 1 \in 1..n /\ (k - 1) + 1 = k
    OBVIOUS
  <2> QED  BY <1>4, <2>1
<1>6. UncutIn(q, 1, n + 1) <=> (h.kind # "reset" /\ UncutIn(t, 1, n))
  BY <1>2
<1>7. 1..(n + 1) = {1} \cup 2..(n + 1)
  OBVIOUS
<1>8. ASSUME NEW x
      PROVE  (\E k \in 1..(n + 1) : Full(q[k]) /\ UncutIn(q, k, n + 1) /\ x = q[k].seq) <=>
               \/ Full(h) /\ h.kind # "reset" /\ UncutIn(t, 1, n) /\ x = h.seq
               \/ \E k \in 1..n : Full(t[k]) /\ UncutIn(t, k, n) /\ x = t[k].seq
  <2>1. (\E k \in 2..(n + 1) : Full(q[k]) /\ UncutIn(q, k, n + 1) /\ x = q[k].seq) <=>
        (\E k \in 1..n : Full(t[k]) /\ UncutIn(t, k, n) /\ x = t[k].seq)
    BY <1>4, <1>5
  <2> QED  BY <1>1, <1>6, <1>7, <2>1
<1>9. ASSUME NEW x
      PROVE  x \in ContentIn(t, T, n) <=> x \in ContentIn(q, S, n + 1)
  <2>1. x \in ContentIn(t, T, n) <=>
          \/ x \in T /\ UncutIn(t, 1, n)
          \/ \E k \in 1..n : Full(t[k]) /\ UncutIn(t, k, n) /\ x = t[k].seq
    BY ContentMember
  <2>2. x \in ContentIn(q, S, n + 1) <=>
          \/ x \in S /\ UncutIn(q, 1, n + 1)
          \/ \E k \in 1..(n + 1) : Full(q[k]) /\ UncutIn(q, k, n + 1) /\ x = q[k].seq
    BY ContentMember
  <2>3. x \in T <=> (h.kind # "reset" /\ (x \in S \/ (Full(h) /\ x = h.seq)))
    BY <1>3
  <2> QED  BY <1>3, <1>6, <1>8, <2>1, <2>2, <2>3, Zenon
<1> QED  BY <1>9

LEMMA LaterTail ==
  ASSUME NEW q \in Seq(Frames), q # <<>>
  PROVE  /\ LaterIn(Tail(q)) \subseteq LaterIn(q)
         /\ Head(q).kind # "reset" /\ UncutIn(Tail(q), 1, Len(Tail(q))) => Head(q).seq \in LaterIn(q)
         /\ UncutIn(q, 1, Len(q)) <=> (Head(q).kind # "reset" /\ UncutIn(Tail(q), 1, Len(Tail(q))))
         /\ Len(Tail(q)) = Len(q) - 1 /\ Len(q) \in Nat /\ Len(Tail(q)) \in Nat /\ Len(Tail(q)) < Len(q)
<1> DEFINE t == Tail(q)
           h == Head(q)
           n == Len(t)
<1>1. /\ Len(q) \in Nat /\ q[1] = h /\ n \in Nat /\ n + 1 = Len(q) /\ n = Len(q) - 1
      /\ DOMAIN q = 1..Len(q) /\ DOMAIN t = 1..n
      /\ \A l \in 1..n : t[l] = q[l + 1]
  BY HeadTailProperties, LenProperties
<1>2. /\ \A m, k \in Nat : m > 0 /\ k < Len(q) => (UncutIn(t, m, k) <=> UncutIn(q, m + 1, k + 1))
      /\ \A k \in Nat : k < Len(q) =>
           (UncutIn(q, 1, k + 1) <=> (h.kind # "reset" /\ UncutIn(t, 1, k)))
  BY UncutTail
<1> HIDE DEF t, h, n
<1>3. UncutIn(q, 1, Len(q)) <=> (h.kind # "reset" /\ UncutIn(t, 1, n))
  <2>1. n < Len(q) /\ n + 1 = Len(q)
    BY <1>1
  <2>2. UncutIn(q, 1, n + 1) <=> (h.kind # "reset" /\ UncutIn(t, 1, n))
    BY <1>1, <1>2, <2>1
  <2> QED  BY <2>1, <2>2
<1>4. ASSUME NEW x \in LaterIn(t)
      PROVE  x \in LaterIn(q)
  <2>1. PICK k \in 1..n : UncutIn(t, k, n) /\ x = t[k].seq
    BY <1>1, LaterMember DEF n
  <2>2. k + 1 \in 1..Len(q) /\ n < Len(q) /\ k \in Nat /\ k > 0 /\ n + 1 = Len(q)
    BY <1>1
  <2>3. UncutIn(q, k + 1, n + 1)
    BY <1>1, <1>2, <2>1, <2>2
  <2> QED  BY <1>1, <2>1, <2>2, <2>3, LaterMember
<1>5. ASSUME h.kind # "reset", UncutIn(t, 1, n)
      PROVE  h.seq \in LaterIn(q)
  <2>1. UncutIn(q, 1, Len(q)) /\ 1 \in DOMAIN q
    BY <1>1, <1>3, <1>5
  <2> QED  BY <1>1, <2>1, LaterMember
<1>6. n < Len(q)
  BY <1>1
<1> QED  BY <1>1, <1>3, <1>4, <1>5, <1>6 DEF t, h, n

(***************************************************************************)
(* The screen of a terminal.                                               *)
(***************************************************************************)

PointsIn(q, S, r) == LaterIn(q) \cup (IF UncutIn(q, 1, Len(q)) THEN S \cup ({r} \ {0}) ELSE {})

Shown(d) == Range(screen[d])
Unbroken(d) == UncutIn(inbox[d], 1, Len(inbox[d]))
Content(d, n) == ContentIn(inbox[d], Shown(d), n)
Eventual(d) == Content(d, Len(inbox[d]))
\* How far the terminal has got: what it filters new frames by.
Points(d) == PointsIn(inbox[d], Shown(d), rendered[d])
\* A chunk may follow S when S has all the output before it, from its first on.
Fits(S, n) == \A x \in S : x < n /\ \A o \in outputs : x < o /\ o < n => o \in S

\* What is displayed is a run of the output; after a reset has been received
\* the terminal counts from nothing.
DrawnOf(d) ==
  /\ \A i, j \in DOMAIN screen[d] : i < j => screen[d][i] < screen[d][j]
  /\ Shown(d) \subseteq outputs
  /\ \A x, y \in Shown(d), o \in outputs : x < o /\ o <= y => o \in Shown(d)
  /\ Unbroken(d) => \A x \in Shown(d) : x <= rendered[d]
  /\ ~Unbroken(d) => rendered[d] = 0
\* Each chunk waiting follows what will be displayed before it.
FitsOf(d) ==
  \A k \in DOMAIN inbox[d] : Full(inbox[d][k]) => Fits(Content(d, k - 1), inbox[d][k].seq)
\* Nothing is missing between two points the terminal has got to.
ClosedOf(d) == \A x, y \in Points(d), o \in outputs : x < o /\ o <= y => o \in Eventual(d)
\* Nor between them and what has been sent.
WholeOf(d) ==
  attached[d] /\ (\A f \in Range(Coming(d)) : f.kind # "reset") =>
    /\ \A x \in Points(d), o \in outputs :
         x < o /\ o <= lastSent[d] => o \in Eventual(d) \cup Brought(d)
    /\ rendered[d] = 0 => \A f \in Range(Coming(d)), y \in Points(d) : Stream(f) => y < f.seq
ScreenOf(d) == DrawnOf(d) /\ FitsOf(d) /\ ClosedOf(d) /\ WholeOf(d)

\* Before the first loss, and after it until the client is attached again, the
\* two numbers the client keeps of what it has written agree, and it asks to be
\* resumed from there.  Before the first loss a reset finds the terminal empty.
Unlost(d) == drops[d] = 0 \/ (drops[d] = 1 /\ ~attached[d] /\ link[d] # "closing")
AgreeOf(d) ==
  /\ Unlost(d) =>
       /\ committed[d] = rendered[d] /\ (committed[d] # 0 => Unbroken(d))
       /\ \A r \in Range(requests[d]) : r.kind = "attach" => r.seq <= committed[d]
  /\ drops[d] = 0 /\ ((\E f \in Range(Coming(d)) : f.kind = "reset")
                       \/ (~attached[d] /\ link[d] # "closing")) =>
       inbox[d] = <<>> /\ committed[d] = 0
ScreenInv ==
  \A d \in Terminals : AgreeOf(d) /\ (drops[d] <= 1 => ScreenOf(d))

LEMMA EventualPoints ==
  ASSUME TypeOK, NEW d \in Clients
  PROVE  /\ Eventual(d) \subseteq Points(d) /\ LaterIn(inbox[d]) = Queued(d)
         /\ Queued(d) \subseteq Points(d)
<1> DEFINE q == inbox[d]
<1>1. q \in Seq(Frames) /\ DOMAIN q = 1..Len(q)
  <2>1. q \in Seq(Frames)
    BY ClientTypes
  <2> HIDE DEF q
  <2> QED  BY <2>1, LenProperties
<1>2. LaterIn(q) = Queued(d)
  BY DEF LaterIn, UncutIn, Queued
<1> HIDE DEF q
<1>3. ASSUME NEW x \in ContentIn(q, Shown(d), Len(q))
      PROVE  x \in PointsIn(q, Shown(d), rendered[d])
  <2>1. CASE x \in Shown(d) /\ UncutIn(q, 1, Len(q))
    BY <2>1 DEF PointsIn
  <2>2. CASE \E k \in 1..Len(q) : Full(q[k]) /\ UncutIn(q, k, Len(q)) /\ x = q[k].seq
    <3>1. x \in LaterIn(q)
      BY <1>1, <2>2, LaterMember
    <3> QED  BY <3>1 DEF PointsIn
  <2> QED  BY <1>3, <2>1, <2>2, ContentMember
<1>4. Eventual(d) \subseteq Points(d)
  BY <1>3 DEF Eventual, Content, Points, q
<1>5. Queued(d) \subseteq Points(d)
  BY <1>2 DEF Points, PointsIn, q
<1> QED  BY <1>2, <1>4, <1>5 DEF q

LEMMA QueuedOf ==
  ASSUME TypeOK, NEW d \in Clients
  PROVE  /\ \A x \in Queued(d) : \E f \in Range(inbox[d]) : f \in Pending(d) /\ x = f.seq
         /\ BodiesOf(d) => \A x \in Queued(d) : x \in outputs => x \in Eventual(d)
<1> DEFINE q == inbox[d]
<1>1. q \in Seq(Frames) /\ DOMAIN q = 1..Len(q) /\ \A k \in DOMAIN q : q[k] \in Range(q)
  <2>1. q \in Seq(Frames)
    BY ClientTypes
  <2> HIDE DEF q
  <2> QED  BY <2>1, LenProperties, RangeOf
<1>2. ASSUME NEW x \in Queued(d)
      PROVE  \E k \in DOMAIN q : UncutIn(q, k, Len(q)) /\ x = q[k].seq
  BY <1>2, EventualPoints, LaterMember
<1>3. ASSUME NEW x \in Queued(d)
      PROVE  \E f \in Range(q) : f \in Pending(d) /\ x = f.seq
  BY <1>1, <1>2 DEF Pending
<1>4. ASSUME BodiesOf(d), NEW x \in Queued(d), x \in outputs
      PROVE  x \in Eventual(d)
  <2>1. PICK k \in DOMAIN q : UncutIn(q, k, Len(q)) /\ x = q[k].seq
    BY <1>2
  <2>2. k \in k..Len(q) /\ q[k] \in Pending(d) /\ q[k].kind # "attached"
    BY <1>1, <1>4 DEF Pending, BodiesOf
  <2>3. q[k].kind # "reset"
    BY <2>1, <2>2 DEF UncutIn
  <2>4. Full(q[k])
    BY <1>4, <2>1, <2>2, <2>3, FullFrames
  <2>5. x \in ContentIn(q, Shown(d), Len(q))
    BY <1>1, <2>1, <2>4, ContentMember
  <2> QED  BY <2>5 DEF Eventual, Content
<1> QED  BY <1>3, <1>4

LEMMA PointsKnown ==
  ASSUME TypeOK, NEW d \in Clients, KnownOf(d), DrawnOf(d)
  PROVE  /\ \A y \in Points(d) : /\ y \in Nat /\ y <= LatestSeq
                                 /\ attached[d] /\ SentOf(d) => y <= lastSent[d]
                                 /\ y \in Queued(d) \/ y <= rendered[d]
         /\ Unbroken(d) /\ rendered[d] # 0 => rendered[d] \in Points(d)
         /\ \A x \in Eventual(d) : x \in outputs \/ x \in Queued(d)
<1>0. /\ LatestSeq \in Nat /\ lastSent[d] \in Nat /\ rendered[d] \in Nat
      /\ Shown(d) \subseteq outputs /\ outputs \subseteq Nat /\ \A o \in outputs : o <= LatestSeq
  BY ClientTypes DEF TypeOK, SessionTypeOK, DrawnOf
<1>1. ASSUME NEW y \in Points(d)
      PROVE  /\ y \in Nat /\ y <= LatestSeq
             /\ attached[d] /\ SentOf(d) => y <= lastSent[d]
             /\ y \in Queued(d) \/ y <= rendered[d]
  <2>1. \/ y \in Queued(d)
        \/ y \in Shown(d) /\ Unbroken(d)
        \/ y = rendered[d]
    BY <1>1, EventualPoints DEF Points, PointsIn, Unbroken
  <2>2. CASE y \in Queued(d)
    <3>1. PICK f \in Pending(d) : y = f.seq
      BY <2>2, QueuedOf
    <3> QED  BY <2>2, <3>1, SeqTypes DEF KnownOf, SentOf
  <2>3. CASE y \in Shown(d) /\ Unbroken(d)
    <3>1. y \in Nat /\ y <= LatestSeq /\ y <= rendered[d]
      BY <1>0, <2>3 DEF DrawnOf
    <3>2. attached[d] /\ SentOf(d) => y <= lastSent[d]
      BY <1>0, <3>1 DEF SentOf
    <3> QED  BY <3>1, <3>2
  <2>4. CASE y = rendered[d]
    BY <1>0, <2>4 DEF KnownOf, SentOf
  <2> QED  BY <2>1, <2>2, <2>3, <2>4
<1>2. Unbroken(d) /\ rendered[d] # 0 => rendered[d] \in Points(d)
  BY DEF Points, PointsIn, Unbroken
<1>3. ASSUME NEW x \in Eventual(d)
      PROVE  x \in outputs \/ x \in Queued(d)
  <2>1. x \in Shown(d) \/ x \in LaterIn(inbox[d])
    <3> DEFINE q == inbox[d]
    <3>1. DOMAIN q = 1..Len(q)
      <4>1. q \in Seq(Frames)
        BY ClientTypes
      <4> HIDE DEF q
      <4> QED  BY <4>1, LenProperties
    <3>2. x \in ContentIn(q, Shown(d), Len(q))
      BY <1>3 DEF Eventual, Content
    <3> QED  BY <3>1, <3>2, ContentMember, LaterMember
  <2> QED  BY <1>0, <2>1, EventualPoints
<1> QED  BY <1>1, <1>2, <1>3

\* More output does not change what was between two points.
LEMMA DrawnSame ==
  ASSUME TypeOK, NEW d \in Clients, KnownOf(d), Grown, DrawnOf(d), FitsOf(d), ClosedOf(d),
         UNCHANGED <<rendered[d], inbox[d], screen[d]>>
  PROVE  /\ DrawnOf(d)' /\ FitsOf(d)' /\ ClosedOf(d)'
         /\ Points(d)' = Points(d) /\ Eventual(d)' = Eventual(d)
<1>1. /\ rendered'[d] = rendered[d] /\ inbox'[d] = inbox[d] /\ screen'[d] = screen[d]
      /\ Shown(d)' = Shown(d) /\ (Unbroken(d)' <=> Unbroken(d))
      /\ \A n : Content(d, n)' = Content(d, n)
      /\ Points(d)' = Points(d) /\ Eventual(d)' = Eventual(d)
  BY DEF Shown, Unbroken, Content, Points, Eventual
<1>2. /\ LatestSeq \in Nat /\ outputs \subseteq outputs' /\ outputs \subseteq Nat
      /\ \A o \in outputs' : o \in Nat
      /\ \A y \in Nat, o \in outputs' : y <= LatestSeq /\ o <= y => o \in outputs
  BY ClientTypes DEF Grown, TypeOK, SessionTypeOK
<1>3. \A o \in outputs : o \in Nat /\ o <= LatestSeq
  <2>1. outputs \subseteq 1..LatestSeq
    BY DEF TypeOK, SessionTypeOK
  <2>2. \A o \in 1..LatestSeq : o \in Nat /\ o <= LatestSeq
    BY <1>2
  <2> QED  BY <2>1, <2>2
<1>4. DrawnOf(d)'
  <2>1. \A x, y \in Shown(d), o \in outputs' : x < o /\ o <= y => o \in Shown(d)
    BY <1>2, <1>3 DEF DrawnOf
  <2> QED  BY <1>1, <1>2, <2>1 DEF DrawnOf
<1>5. FitsOf(d)'
  <2> SUFFICES ASSUME NEW k \in DOMAIN inbox[d], Full(inbox[d][k])
               PROVE  \A x \in Content(d, k - 1) : x < inbox[d][k].seq /\
                        \A o \in outputs' : x < o /\ o < inbox[d][k].seq => o \in Content(d, k - 1)
    BY <1>1 DEF FitsOf, Fits
  <2> DEFINE n == inbox[d][k].seq
  <2>1. n \in Nat /\ n <= LatestSeq
    <3>1. inbox[d][k] \in Pending(d)
      BY ClientTypes, RangeOf DEF Pending
    <3> QED  BY <3>1, SeqTypes DEF KnownOf
  <2>2. Fits(Content(d, k - 1), n)
    BY DEF FitsOf
  <2> HIDE DEF n
  <2>3. \A o \in outputs' : o < n => o \in outputs
    BY <1>2, <2>1
  <2>4. \A x \in Content(d, k - 1) : x < n /\
                        \A o \in outputs' : x < o /\ o < n => o \in Content(d, k - 1)
    BY <2>2, <2>3 DEF Fits
  <2> QED  BY <2>4 DEF n
<1>6. ClosedOf(d)'
  <2>1. \A y \in Points(d), o \in outputs' : o <= y => o \in outputs
    BY <1>2, PointsKnown
  <2> QED  BY <1>1, <2>1 DEF ClosedOf
<1> QED  BY <1>1, <1>4, <1>5, <1>6

LEMMA WholeSame ==
  ASSUME TypeOK, NEW d \in Clients, KnownOf(d), Grown, WholeOf(d), UNCHANGED rendered[d],
         attached'[d] => attached[d] /\ UNCHANGED lastSent[d], UNCHANGED Coming(d),
         Points(d)' \subseteq Points(d), Eventual(d)' = Eventual(d)
  PROVE  WholeOf(d)'
<1>1. Brought(d)' = Brought(d)
  BY DEF Brought
<1>2. \A o \in outputs' : o <= lastSent[d] => o \in outputs
  BY ClientTypes DEF Grown, TypeOK, HandlesTypeOK
<1> SUFFICES ASSUME attached'[d], \A f \in Range(Coming(d)) : f.kind # "reset"
             PROVE  /\ \A x \in Points(d), o \in outputs' :
                         x < o /\ o <= lastSent[d] => o \in Eventual(d) \cup Brought(d)
                    /\ rendered[d] = 0 =>
                         \A f \in Range(Coming(d)), y \in Points(d) : Stream(f) => y < f.seq
  BY <1>1 DEF WholeOf
<1> QED  BY <1>2 DEF WholeOf

\* A frame is written.
LEMMA WroteContent ==
  ASSUME TypeOK, NEW d \in Clients, d \in Terminals, BodiesOf(d), DrawnOf(d), FitsOf(d), Wrote(d)
  PROVE  LET h == Head(inbox[d])
         IN /\ h \in Pending(d) /\ inbox[d] # <<>> /\ inbox'[d] = Tail(inbox[d])
            /\ Shown(d)' = IF h.kind = "reset" THEN {}
                           ELSE IF Full(h) THEN Shown(d) \cup {h.seq} ELSE Shown(d)
            /\ h.kind # "reset" => screen'[d] = IF Full(h) THEN Append(screen[d], h.seq) ELSE screen[d]
            /\ Full(h) => Fits(Shown(d), h.seq) /\ h.seq \in outputs
            /\ \A n \in Nat : n < Len(inbox[d]) => Content(d, n)' = Content(d, n + 1)
            /\ Eventual(d)' = Eventual(d)
            /\ Unbroken(d) <=> h.kind # "reset" /\ Unbroken(d)'
            /\ h.kind # "reset" => (Stale(d) <=> ~Unbroken(d))
            /\ Queued(d)' \subseteq Queued(d)
            /\ h.kind # "reset" /\ Unbroken(d) => h.seq \in Queued(d)
<1> DEFINE q == inbox[d]
           h == Head(q)
           S == Shown(d)
           T == IF h.kind = "reset" THEN {} ELSE IF Full(h) THEN S \cup {h.seq} ELSE S
<1>1. /\ q # <<>> /\ inbox'[d] = Tail(q)
      /\ screen'[d] = IF h.kind = "reset" THEN <<>> ELSE screen[d] \o h.body
  BY DEF Wrote
<1>2. q \in Seq(Frames) /\ screen[d] \in Seq(Nat)
  BY ClientTypes
<1>3. h \in Range(q) /\ h \in Pending(d) /\ 1 \in DOMAIN q /\ q[1] = h
  <2> HIDE DEF q
  <2>1. h \in Range(q) /\ 1 \in DOMAIN q /\ q[1] = h
    BY <1>1, <1>2, TailIn, HeadTailProperties, LenProperties
  <2> QED  BY <2>1 DEF Pending, q
<1>4. /\ h \in Frames /\ h.seq \in Nat
      /\ Full(h) => h.kind # "reset" /\ h.body = <<h.seq>> /\ h.seq \in outputs
  BY <1>3, FullFrames DEF Stream
<1>5. h.kind # "reset" => screen'[d] = IF Full(h) THEN Append(screen[d], h.seq) ELSE screen[d]
  <2> HIDE DEF h
  <2> SUFFICES ASSUME h.kind # "reset"
               PROVE  screen'[d] = IF Full(h) THEN Append(screen[d], h.seq) ELSE screen[d]
    OBVIOUS
  <2>1. screen'[d] = screen[d] \o h.body
    BY <1>1
  <2>2. CASE Full(h)
    <3>1. screen[d] \o <<h.seq>> = Append(screen[d], h.seq)
      BY <1>2, <1>4
    <3> QED  BY <1>4, <2>1, <2>2, <3>1
  <2>3. CASE ~Full(h)
    <3>1. screen[d] \o <<>> = screen[d]
      BY <1>2
    <3> QED  BY <2>1, <2>3, <3>1 DEF Full
  <2> QED  BY <2>2, <2>3
<1>6. Shown(d)' = T
  <2> HIDE DEF h
  <2>1. CASE h.kind = "reset"
    BY <1>1, <2>1, NoneIn DEF Shown
  <2>2. CASE h.kind # "reset" /\ Full(h)
    <3>1. Range(Append(screen[d], h.seq)) = Range(screen[d]) \cup {h.seq}
      BY <1>2, <1>4, AppendIn
    <3> QED  BY <1>5, <2>2, <3>1 DEF Shown
  <2>3. CASE h.kind # "reset" /\ ~Full(h)
    BY <1>5, <2>3 DEF Shown
  <2> QED  BY <2>1, <2>2, <2>3
<1>7. \A n \in Nat : n < Len(q) => ContentIn(Tail(q), T, n) = ContentIn(q, S, n + 1)
  <2>1. /\ h.kind = "reset" => ~Full(h) /\ T = {}
        /\ h.kind # "reset" => T = IF Full(h) THEN S \cup {h.seq} ELSE S
    BY <1>4
  <2> HIDE DEF q, S, T
  <2> QED  BY <1>1, <1>2, <2>1, ContentTail DEF h
<1>8. /\ LaterIn(Tail(q)) \subseteq LaterIn(q)
      /\ h.kind # "reset" /\ UncutIn(Tail(q), 1, Len(Tail(q))) => h.seq \in LaterIn(q)
      /\ UncutIn(q, 1, Len(q)) <=> (h.kind # "reset" /\ UncutIn(Tail(q), 1, Len(Tail(q))))
      /\ Len(Tail(q)) = Len(q) - 1 /\ Len(q) \in Nat /\ Len(Tail(q)) \in Nat /\ Len(Tail(q)) < Len(q)
  <2> HIDE DEF q
  <2> QED  BY <1>1, <1>2, LaterTail DEF h
<1>9. \A n \in Nat : n < Len(q) => Content(d, n)' = Content(d, n + 1)
  BY <1>1, <1>6, <1>7 DEF Content
<1>10. Eventual(d)' = Eventual(d)
  <2>1. ContentIn(Tail(q), T, Len(Tail(q))) = ContentIn(q, S, Len(Tail(q)) + 1)
    <3> HIDE DEF q, S, T
    <3> QED  BY <1>7, <1>8
  <2>2. Len(Tail(q)) + 1 = Len(q)
    <3> HIDE DEF q
    <3> QED  BY <1>8
  <2>3. Eventual(d)' = ContentIn(Tail(q), T, Len(Tail(q)))
    <3> HIDE DEF S
    <3> QED  BY <1>1, <1>6 DEF Eventual, Content
  <2> QED  BY <2>1, <2>2, <2>3 DEF Eventual, Content
<1>11. Full(h) => Fits(Shown(d), h.seq)
  <2>1. ContentIn(q, S, 0) = S
    <3>1. UncutIn(q, 1, 0)
      BY DEF UncutIn
    <3>2. 1..0 = {}
      OBVIOUS
    <3> HIDE DEF q, S
    <3>3. \A x : x \in ContentIn(q, S, 0) <=> x \in S
      BY <3>1, <3>2, ContentMember
    <3> QED  BY <3>3
  <2>2. 1 - 1 = 0
    OBVIOUS
  <2> QED  BY <1>3, <2>1, <2>2 DEF FitsOf, Content
<1>12. h.kind # "reset" => (Stale(d) <=> ~Unbroken(d))
  <2>1. 1..Len(q) = {1} \cup 2..Len(q)
    <3>1. DOMAIN q = 1..Len(q)
      <4> HIDE DEF q
      <4> QED  BY <1>2, LenProperties
    <3>2. 1 <= Len(q)
      BY <1>3, <1>8, <3>1
    <3> QED  BY <1>8, <3>2
  <2> QED  BY <1>3, <2>1 DEF Stale, Unbroken, UncutIn
<1>13. Queued(d) = LaterIn(q) /\ Queued(d)' = LaterIn(Tail(q))
  <2>1. Queued(d)' = LaterIn(inbox'[d])
    BY DEF Queued, LaterIn, UncutIn
  <2> QED  BY <1>1, <2>1, EventualPoints
<1>14. /\ Unbroken(d) <=> h.kind # "reset" /\ Unbroken(d)'
       /\ Queued(d)' \subseteq Queued(d)
       /\ h.kind # "reset" /\ Unbroken(d) => h.seq \in Queued(d)
  <2>1. Unbroken(d)' <=> UncutIn(Tail(q), 1, Len(Tail(q)))
    BY <1>1 DEF Unbroken
  <2> QED  BY <1>8, <1>13, <2>1 DEF Unbroken
<1> QED  BY <1>1, <1>3, <1>4, <1>5, <1>6, <1>9, <1>10, <1>11, <1>12, <1>14

LEMMA PointsMember ==
  ASSUME TypeOK, NEW d \in Clients
  PROVE  \A y : y \in Points(d) <=>
           \/ y \in Queued(d)
           \/ Unbroken(d) /\ (y \in Shown(d) \/ (y = rendered[d] /\ y # 0))
BY EventualPoints DEF Points, PointsIn, Unbroken

LEMMA PointsLater ==
  ASSUME NEW d \in Clients
  PROVE  \A y : y \in Points(d)' <=>
           \/ y \in Queued(d)'
           \/ Unbroken(d)' /\ (y \in Shown(d)' \/ (y = rendered'[d] /\ y # 0))
<1>1. LaterIn(inbox'[d]) = Queued(d)'
  BY DEF Queued, LaterIn, UncutIn
<1> QED  BY <1>1 DEF Points, PointsIn, Unbroken

\* What a written frame does to the two numbers.
LEMMA WroteNumbers ==
  ASSUME TypeOK, NEW d \in Clients, d \in Terminals, BodiesOf(d), DrawnOf(d), FitsOf(d), Wrote(d)
  PROVE  LET h == Head(inbox[d])
         IN /\ h.seq \in Nat /\ rendered'[d] \in Nat /\ rendered[d] <= rendered'[d]
            /\ committed'[d] \in Nat /\ committed[d] <= committed'[d]
            /\ h.kind = "reset" \/ ~Unbroken(d) => UNCHANGED <<rendered[d], committed[d], requests[d]>>
            /\ h.kind # "reset" /\ Unbroken(d) =>
                 /\ h.seq <= rendered'[d] /\ h.seq <= committed'[d]
                 /\ rendered'[d] = rendered[d] \/ rendered'[d] = h.seq
                 /\ committed'[d] = committed[d] \/ committed'[d] = h.seq
            /\ committed[d] = rendered[d] => committed'[d] = rendered'[d]
            /\ requests'[d] = requests[d] \/ requests'[d] = Append(requests[d], AckRequest(h.seq))
<1> DEFINE h == Head(inbox[d])
<1>1. /\ h \in Pending(d) /\ (h.kind # "reset" => (Stale(d) <=> ~Unbroken(d)))
      /\ Unbroken(d) => h.kind # "reset"
  BY WroteContent
<1>2. h.seq \in Nat /\ rendered[d] \in Nat /\ committed[d] \in Nat
  BY <1>1, ClientTypes, SeqTypes
<1>3. /\ rendered'[d] = Advance(d, h, rendered[d]) /\ committed'[d] = Advance(d, h, committed[d])
      /\ requests'[d] = IF Commits(d, h) /\ h.seq > 0 /\ h.body # <<>> /\ Open(d)
                         THEN Append(requests[d], AckRequest(h.seq)) ELSE requests[d]
  BY DEF Wrote
<1>4. Commits(d, h) <=> h.kind # "reset" /\ Unbroken(d)
  BY <1>1 DEF Commits
<1> HIDE DEF h
<1>5. \A n \in Nat : /\ Advance(d, h, n) \in Nat /\ n <= Advance(d, h, n)
                     /\ Commits(d, h) => h.seq <= Advance(d, h, n)
                     /\ Commits(d, h) => Advance(d, h, n) = n \/ Advance(d, h, n) = h.seq
                     /\ ~Commits(d, h) => Advance(d, h, n) = n
  BY <1>2 DEF Advance
<1>6. requests'[d] = requests[d] \/ requests'[d] = Append(requests[d], AckRequest(h.seq))
  BY <1>3
<1>7. ~Commits(d, h) => requests'[d] = requests[d]
  BY <1>3
<1> QED  BY <1>2, <1>3, <1>4, <1>5, <1>6, <1>7 DEF h

LEMMA ScreenWrote ==
  ASSUME TypeOK, NEW d \in Clients, d \in Terminals, KnownOf(d), BodiesOf(d), ScreenOf(d), Grown,
         Wrote(d)
  PROVE  ScreenOf(d)' /\ (Unbroken(d) => Unbroken(d)') /\ Points(d)' \subseteq Points(d)
<1> DEFINE h == Head(inbox[d])
           s == screen[d]
<1>0. DrawnOf(d) /\ FitsOf(d) /\ ClosedOf(d) /\ WholeOf(d)
  BY DEF ScreenOf
<1>1. /\ h \in Pending(d) /\ inbox[d] # <<>> /\ inbox'[d] = Tail(inbox[d])
      /\ Shown(d)' = IF h.kind = "reset" THEN {}
                     ELSE IF Full(h) THEN Shown(d) \cup {h.seq} ELSE Shown(d)
      /\ h.kind # "reset" => screen'[d] = IF Full(h) THEN Append(s, h.seq) ELSE s
      /\ Full(h) => Fits(Shown(d), h.seq) /\ h.seq \in outputs
      /\ \A n \in Nat : n < Len(inbox[d]) => Content(d, n)' = Content(d, n + 1)
      /\ Eventual(d)' = Eventual(d)
      /\ Unbroken(d) <=> h.kind # "reset" /\ Unbroken(d)'
      /\ h.kind # "reset" => (Stale(d) <=> ~Unbroken(d))
      /\ Queued(d)' \subseteq Queued(d)
      /\ h.kind # "reset" /\ Unbroken(d) => h.seq \in Queued(d)
  BY <1>0, WroteContent
<1>2. /\ h.seq \in Nat /\ rendered'[d] \in Nat /\ rendered[d] \in Nat /\ rendered[d] <= rendered'[d]
      /\ h.kind = "reset" \/ ~Unbroken(d) => rendered'[d] = rendered[d]
      /\ h.kind # "reset" /\ Unbroken(d) =>
           /\ h.seq <= rendered'[d]
           /\ rendered'[d] = rendered[d] \/ rendered'[d] = h.seq
  BY <1>0, ClientTypes, WroteNumbers
<1>3. /\ outputs' = outputs /\ UNCHANGED <<attached[d], lastSent[d], Coming(d)>>
      /\ h.kind = "reset" => screen'[d] = <<>>
  BY DEF Wrote, session, Handle
<1>4. /\ s \in Seq(Nat) /\ Len(s) \in Nat /\ DOMAIN s = 1..Len(s) /\ Shown(d) = Range(s)
      /\ outputs \subseteq Nat /\ \A i \in 1..Len(s) : s[i] \in Nat /\ s[i] \in Shown(d)
  <2>1. s \in Seq(Nat)
    BY ClientTypes
  <2>2. Len(s) \in Nat /\ DOMAIN s = 1..Len(s) /\ \A i \in 1..Len(s) : s[i] \in Nat
    <3> HIDE DEF s
    <3> QED  BY <2>1, LenProperties
  <2>3. \A i \in DOMAIN s : s[i] \in Range(s)
    BY <2>1, RangeOf
  <2> QED  BY <2>1, <2>2, <2>3 DEF Shown, TypeOK, SessionTypeOK
<1> HIDE DEF h, s
<1>5. Points(d)' \subseteq Points(d)
  <2> SUFFICES ASSUME NEW y, y \in Points(d)'
               PROVE  y \in Points(d)
    OBVIOUS
  <2>1. \/ y \in Queued(d)'
        \/ Unbroken(d)' /\ (y \in Shown(d)' \/ (y = rendered'[d] /\ y # 0))
    BY PointsLater
  <2>2. CASE y \in Queued(d)'
    BY <1>1, <2>2, PointsMember
  <2>3. CASE Unbroken(d)' /\ h.kind = "reset"
    <3>1. Shown(d)' = {} /\ ~Unbroken(d) /\ rendered'[d] = rendered[d]
      BY <1>1, <1>2, <2>3
    <3>2. rendered[d] = 0
      BY <1>0, <3>1 DEF DrawnOf
    <3> QED  BY <2>1, <2>2, <3>1, <3>2
  <2>4. CASE Unbroken(d)' /\ h.kind # "reset"
    <3>1. Unbroken(d) /\ h.seq \in Queued(d)
      BY <1>1, <2>4
    <3>2. y \in Shown(d) \/ y = h.seq \/ (y = rendered[d] /\ y # 0) \/ y \in Queued(d)'
      BY <1>1, <1>2, <2>1, <2>4, <3>1
    <3> QED  BY <2>2, <3>1, <3>2, PointsMember
  <2> QED  BY <2>1, <2>2, <2>3, <2>4
<1>6. DrawnOf(d)'
  <2>1. CASE h.kind = "reset"
    <3>1. Shown(d)' = {} /\ DOMAIN screen'[d] = {} /\ rendered'[d] = 0
      BY <1>0, <1>1, <1>2, <1>3, <2>1 DEF DrawnOf
    <3> QED  BY <3>1 DEF DrawnOf
  <2>2. CASE h.kind # "reset" /\ ~Full(h)
    <3>1. Shown(d)' = Shown(d) /\ screen'[d] = s /\ (Unbroken(d)' <=> Unbroken(d))
      BY <1>1, <2>2
    <3>2. Unbroken(d) => \A x \in Shown(d) : x <= rendered'[d]
      <4>1. \A x \in Shown(d) : x \in Nat
        BY <1>0, <1>4 DEF DrawnOf
      <4> QED  BY <1>0, <1>2, <4>1 DEF DrawnOf
    <3>3. ~Unbroken(d) => rendered'[d] = 0
      BY <1>0, <1>2 DEF DrawnOf
    <3> QED  BY <1>0, <1>3, <3>1, <3>2, <3>3 DEF DrawnOf, s
  <2>3. CASE h.kind # "reset" /\ Full(h)
    <3>1. /\ Shown(d)' = Shown(d) \cup {h.seq} /\ screen'[d] = Append(s, h.seq)
          /\ (Unbroken(d)' <=> Unbroken(d)) /\ Fits(Shown(d), h.seq) /\ h.seq \in outputs
      BY <1>1, <2>3
    <3>2. /\ DOMAIN screen'[d] = 1..(Len(s) + 1) /\ screen'[d][Len(s) + 1] = h.seq
          /\ \A i \in 1..Len(s) : screen'[d][i] = s[i]
      BY <1>2, <1>4, <3>1, AppendProperties
    <3>3. \A i, j \in DOMAIN screen'[d] : i < j => screen'[d][i] < screen'[d][j]
      <4> SUFFICES ASSUME NEW i \in 1..(Len(s) + 1), NEW j \in 1..(Len(s) + 1), i < j
                   PROVE  screen'[d][i] < screen'[d][j]
        BY <3>2
      <4>1. i \in 1..Len(s) /\ (j \in 1..Len(s) \/ j = Len(s) + 1)
        BY <1>4
      <4>2. CASE j = Len(s) + 1
        BY <1>4, <3>1, <3>2, <4>1, <4>2 DEF Fits
      <4>3. CASE j \in 1..Len(s)
        BY <1>0, <1>4, <3>2, <4>1, <4>3 DEF DrawnOf, s
      <4> QED  BY <4>1, <4>2, <4>3
    <3>4. \A x \in Shown(d) : x \in Nat /\ x < h.seq
      BY <1>0, <1>4, <3>1 DEF DrawnOf, Fits
    <3>5. ASSUME NEW x \in Shown(d)', NEW y \in Shown(d)', NEW o \in outputs, x < o, o <= y
          PROVE  o \in Shown(d)'
      <4>1. x # h.seq
        BY <1>2, <1>4, <3>1, <3>4, <3>5
      <4>2. x \in Shown(d)
        BY <3>1, <4>1
      <4>3. CASE y \in Shown(d)
        BY <1>0, <3>1, <3>5, <4>2, <4>3 DEF DrawnOf
      <4>4. CASE y = h.seq /\ o # h.seq
        <5>1. o < h.seq
          BY <1>2, <1>4, <3>5, <4>4
        <5> QED  BY <3>1, <3>5, <4>2, <5>1 DEF Fits
      <4>5. CASE o = h.seq
        BY <3>1, <4>5
      <4> QED  BY <3>1, <4>3, <4>4, <4>5
    <3>6. Unbroken(d)' => \A x \in Shown(d)' : x <= rendered'[d]
      <4> SUFFICES ASSUME Unbroken(d)', NEW x \in Shown(d)'
                   PROVE  x <= rendered'[d]
        OBVIOUS
      <4>1. Unbroken(d) /\ h.seq <= rendered'[d]
        BY <1>2, <2>3, <3>1
      <4>2. x = h.seq \/ (x \in Nat /\ x <= rendered[d])
        BY <1>0, <3>1, <3>4, <4>1 DEF DrawnOf
      <4> QED  BY <1>2, <4>1, <4>2
    <3>7. ~Unbroken(d)' => rendered'[d] = 0
      BY <1>0, <1>2, <3>1 DEF DrawnOf
    <3>8. Shown(d)' \subseteq outputs'
      BY <1>0, <1>3, <3>1 DEF DrawnOf
    <3> QED  BY <1>3, <3>3, <3>5, <3>6, <3>7, <3>8 DEF DrawnOf
  <2> QED  BY <2>1, <2>2, <2>3
<1>7. FitsOf(d)'
  <2> DEFINE q == inbox[d]
  <2>1. q \in Seq(Frames) /\ q # <<>> /\ inbox'[d] = Tail(q)
    BY <1>1, ClientTypes
  <2>2. /\ Len(q) \in Nat /\ DOMAIN q = 1..Len(q) /\ DOMAIN Tail(q) = 1..(Len(q) - 1)
        /\ \A k \in 1..(Len(q) - 1) : Tail(q)[k] = q[k + 1]
    <3> HIDE DEF q
    <3>1. Tail(q) \in Seq(Frames) /\ Len(Tail(q)) = Len(q) - 1 /\ Len(q) \in Nat
      BY <2>1, HeadTailProperties, LenProperties
    <3>2. DOMAIN Tail(q) = 1..(Len(q) - 1)
      BY <3>1, LenProperties
    <3> QED  BY <2>1, <3>1, <3>2, HeadTailProperties, LenProperties
  <2> SUFFICES ASSUME NEW k \in 1..(Len(q) - 1), Full(q[k + 1])
               PROVE  Fits(Content(d, k - 1)', q[k + 1].seq)
    BY <1>3, <2>1, <2>2 DEF FitsOf, Fits
  <2>3. k + 1 \in DOMAIN q /\ (k + 1) - 1 = k /\ k - 1 \in Nat /\ k - 1 < Len(q) /\ (k - 1) + 1 = k
    BY <2>2
  <2>4. Content(d, k - 1)' = Content(d, (k - 1) + 1)
    BY <1>1, <2>3
  <2>5. Fits(Content(d, (k + 1) - 1), q[k + 1].seq)
    BY <1>0, <2>3 DEF FitsOf
  <2> QED  BY <2>3, <2>4, <2>5
<1>8. ClosedOf(d)'
  BY <1>0, <1>1, <1>3, <1>5 DEF ClosedOf
<1>9. WholeOf(d)'
  <2>1. Brought(d)' = Brought(d)
    BY <1>3 DEF Brought
  <2>2. rendered'[d] = 0 => rendered[d] = 0
    BY <1>2
  <2> QED  BY <1>0, <1>1, <1>3, <1>5, <2>1, <2>2 DEF WholeOf
<1>10. Unbroken(d) => Unbroken(d)'
  BY <1>1
<1> QED  BY <1>5, <1>6, <1>7, <1>8, <1>9, <1>10 DEF ScreenOf

LEMMA ContentPrefix ==
  \A S : \A q \in Seq(Frames), e \in Frames :
    \A n \in 0..Len(q) : ContentIn(Append(q, e), S, n) = ContentIn(q, S, n)
<1> SUFFICES ASSUME NEW S, NEW q \in Seq(Frames), NEW e \in Frames, NEW n \in 0..Len(q)
             PROVE  ContentIn(Append(q, e), S, n) = ContentIn(q, S, n)
  OBVIOUS
<1> QED  BY ContentAppend

LEMMA AgreeWrote ==
  ASSUME TypeOK, NEW d \in Clients, d \in Terminals, BodiesOf(d),
         drops[d] <= 1 => ScreenOf(d), KnownOf(d), Grown, AgreeOf(d), Wrote(d)
  PROVE  AgreeOf(d)'
<1>1. /\ inbox[d] # <<>>
      /\ UNCHANGED <<attached[d], link[d], drops[d], Coming(d)>>
  BY DEF Wrote, Handle
<1>2. ASSUME Unlost(d)'
      PROVE  /\ committed'[d] = rendered'[d] /\ (committed'[d] # 0 => Unbroken(d)')
             /\ \A r \in Range(requests'[d]) : r.kind = "attach" => r.seq <= committed'[d]
  <2> DEFINE h == Head(inbox[d])
  <2>1. /\ Unlost(d) /\ drops[d] <= 1
        /\ committed[d] = rendered[d] /\ (committed[d] # 0 => Unbroken(d))
        /\ \A r \in Range(requests[d]) : r.kind = "attach" => r.seq <= committed[d]
    BY <1>1, <1>2 DEF AgreeOf, Unlost
  <2>2. /\ h.seq \in Nat /\ committed[d] \in Nat
        /\ committed'[d] \in Nat /\ committed[d] <= committed'[d]
        /\ h.kind = "reset" \/ ~Unbroken(d) => committed'[d] = committed[d]
        /\ committed'[d] = rendered'[d]
        /\ requests'[d] = requests[d] \/ requests'[d] = Append(requests[d], AckRequest(h.seq))
    BY <2>1, ClientTypes, WroteNumbers DEF ScreenOf
  <2>3. Unbroken(d) => Unbroken(d)'
    BY <2>1, ScreenWrote
  <2>4. committed'[d] # 0 => Unbroken(d)
    BY <2>1, <2>2
  <2>5. ASSUME NEW r \in Range(requests'[d]), r.kind = "attach"
        PROVE  r.seq <= committed'[d]
    <3> HIDE DEF h
    <3>1. r \in Range(requests[d])
      <4>1. CASE requests'[d] = Append(requests[d], AckRequest(h.seq))
        <5>1. AckRequest(h.seq) \in Requests
          BY <2>2 DEF AckRequest, Requests
        <5>2. Range(Append(requests[d], AckRequest(h.seq))) = Range(requests[d]) \cup {AckRequest(h.seq)}
          BY <5>1, ClientTypes, AppendIn
        <5>3. r # AckRequest(h.seq)
          BY <2>5 DEF AckRequest
        <5> QED  BY <4>1, <5>2, <5>3
      <4> QED  BY <2>2, <4>1
    <3>2. r.seq <= committed[d] /\ r.seq \in Nat
      BY <2>1, <2>5, <3>1, SeqTypes
    <3> QED  BY <2>2, <3>2
  <2> QED  BY <2>2, <2>3, <2>4, <2>5
<1>3. ~(drops'[d] = 0 /\ ((\E f \in Range(Coming(d)') : f.kind = "reset")
                       \/ (~attached'[d] /\ link'[d] # "closing")))
  BY <1>1 DEF AgreeOf
<1> QED  BY <1>2, <1>3 DEF AgreeOf

\* What a delivery does.
LEMMA ScreenDelivered ==
  ASSUME TypeOK, NEW d \in Clients, d \in Terminals, KnownOf(d), SentOf(d), QueueOf(d), ScreenOf(d),
         Grown, Delivered(d)
  PROVE  ScreenOf(d)'
<1> DEFINE h == Head(Coming(d))
           fresh == h.kind # "output" \/ h.seq > received[d]
           shown == h.kind # "attached" /\ fresh /\ Takes(d, h)
           q == inbox[d]
           N == Len(q)
<1>0. DrawnOf(d) /\ FitsOf(d) /\ ClosedOf(d) /\ WholeOf(d) /\ BodiesOf(d) /\ RisingOf(d) /\ ThroughOf(d)
  BY DEF ScreenOf, QueueOf
<1>1. /\ attached[d] /\ Coming(d) # <<>> /\ Coming(d)' = Tail(Coming(d))
      /\ inbox'[d] = IF shown THEN Append(q, h) ELSE q
      /\ rendered'[d] = IF h.kind = "reset" THEN 0 ELSE rendered[d]
      /\ UNCHANGED <<attached[d], lastSent[d], outputs, screen[d]>>
  BY DEF Delivered, Handle, session
<1>2. /\ h \in Frames /\ Range(Coming(d)) = {h} \cup Range(Coming(d)')
      /\ \A f \in Range(Coming(d)') : Precedes(Coming(d), h, f)
  <2>1. inbox'[d] = q \/ inbox'[d] = Append(q, h)
    BY <1>1
  <2> QED  BY <1>1, <2>1, DeliveredQueues
<1>3. /\ h \in Pending(d) /\ h.seq \in Nat
      /\ Full(h) => Stream(h) /\ h.seq \in outputs
      /\ h.kind # "reset" /\ h.kind # "attached" => Stream(h)
      /\ Stream(h) /\ h.seq \in outputs => Full(h)
      /\ Stream(h) => h.kind # "reset" /\ h.kind # "attached"
  BY <1>0, <1>2, FullFrames DEF Pending
<1>4. \A f \in Range(Coming(d)') : f.kind # "reset" /\ (Stream(f) => f.seq \in Nat /\ h.seq < f.seq)
  BY <1>0, <1>2, SeqTypes DEF RisingOf, Pending
<1>5. /\ q \in Seq(Frames) /\ N \in Nat /\ DOMAIN q = 1..N /\ N + 1 \in Nat
      /\ rendered[d] \in Nat /\ lastSent[d] \in Nat /\ outputs \subseteq Nat
      /\ \A o \in outputs : o > 0
  <2>1. q \in Seq(Frames) /\ rendered[d] \in Nat /\ lastSent[d] \in Nat
    BY ClientTypes
  <2>2. N \in Nat /\ DOMAIN q = 1..N
    <3> HIDE DEF q
    <3> QED  BY <2>1, LenProperties
  <2>3. LatestSeq \in Nat /\ outputs \subseteq 1..LatestSeq
    BY ClientTypes DEF TypeOK, SessionTypeOK
  <2>4. outputs \subseteq Nat /\ \A o \in outputs : o > 0
    BY <2>3
  <2>5. N + 1 \in Nat
    <3> HIDE DEF N
    <3> QED  BY <2>2
  <2> HIDE DEF q, N, h, fresh, shown
  <2> QED  BY <2>1, <2>2, <2>4, <2>5
<1>6. \A y \in Points(d) : y \in Nat /\ y <= lastSent[d] /\ (y \in Queued(d) \/ y <= rendered[d])
  BY <1>0, <1>1, PointsKnown
<1>7. Stream(h) => fresh
  BY <1>0, <1>1, <1>2, <1>5, ClientTypes DEF ThroughOf, Stream
<1>8. Brought(d) = Brought(d)' \cup (IF Full(h) THEN {h.seq} ELSE {})
  BY <1>2 DEF Brought
<1> HIDE DEF fresh
\* Not shown.
<1>10. CASE ~shown
  <2>1. h.kind # "reset" /\ UNCHANGED <<inbox[d], rendered[d]>>
    <3>1. h.kind # "reset"
      BY <1>10 DEF Takes, fresh
    <3> QED  BY <1>1, <1>10, <3>1
  <2>2. DrawnOf(d)' /\ FitsOf(d)' /\ ClosedOf(d)' /\ Points(d)' = Points(d) /\ Eventual(d)' = Eventual(d)
    BY <1>0, <1>1, <2>1, DrawnSame
  <2>3. ASSUME Full(h), NEW x \in Points(d), x < h.seq
        PROVE  h.seq \in Eventual(d)
    <3>1. Stream(h) /\ h.seq \in outputs /\ ~Takes(d, h)
      BY <1>3, <1>7, <1>10, <2>3
    <3>2. CASE h.seq \in Queued(d)
      BY <1>0, <3>1, <3>2, QueuedOf
    <3>3. CASE h.seq <= rendered[d]
      <4>1. rendered[d] # 0
        <5>1. h.seq > 0 /\ ~ (h.seq <= 0)
          BY <1>3, <1>5, <3>1
        <5> QED  BY <3>3, <5>1
      <4>2. rendered[d] \in Points(d)
        BY <1>0, <4>1, PointsKnown DEF DrawnOf
      <4> QED  BY <1>0, <2>3, <3>1, <3>3, <4>2 DEF ClosedOf
    <3> QED  BY <1>3, <1>5, <3>1, <3>2, <3>3 DEF Takes
  <2>4. WholeOf(d)'
    <3>1. \A f \in Range(Coming(d)) : f.kind # "reset"
      BY <1>2, <1>4, <2>1
    <3>2. ASSUME NEW x \in Points(d), NEW o \in outputs, x < o, o <= lastSent[d]
          PROVE  o \in Eventual(d) \cup Brought(d)'
      <4>1. o \in Eventual(d) \cup Brought(d)
        BY <1>0, <1>1, <3>1, <3>2 DEF WholeOf
      <4>2. CASE Full(h) /\ o = h.seq
        BY <2>3, <3>2, <4>2
      <4> QED  BY <1>8, <4>1, <4>2
    <3>3. rendered[d] = 0 => \A f \in Range(Coming(d)'), y \in Points(d) : Stream(f) => y < f.seq
      BY <1>0, <1>1, <1>2, <3>1 DEF WholeOf
    <3> QED  BY <1>1, <2>1, <2>2, <3>2, <3>3 DEF WholeOf
  <2> QED  BY <2>2, <2>4 DEF ScreenOf
\* A reset.
<1>20. CASE shown /\ h.kind = "reset"
  <2>1. /\ inbox'[d] = Append(q, h) /\ rendered'[d] = 0 /\ ~Full(h)
        /\ Len(Append(q, h)) = N + 1 /\ 1 \in 1..(N + 1)
    BY <1>1, <1>3, <1>5, <1>20, <1>2, AppendProperties
  <2>2. Shown(d)' = Shown(d)
    BY <1>1 DEF Shown
  <2>3. ~Unbroken(d)'
    <3>1. ~UncutIn(Append(q, h), 1, N + 1)
      BY <1>2, <1>5, <1>20, <2>1, UncutAppend
    <3> QED  BY <2>1, <3>1 DEF Unbroken
  <2>4. LaterIn(Append(q, h)) = {}
    BY <1>2, <1>5, <1>20, LaterAppend
  <2>5. Points(d)' = {}
    <3>1. Points(d)' = PointsIn(Append(q, h), Shown(d)', 0)
      BY <2>1 DEF Points
    <3>2. ~UncutIn(Append(q, h), 1, Len(Append(q, h)))
      BY <2>1, <2>3 DEF Unbroken
    <3> QED  BY <2>4, <3>1, <3>2 DEF PointsIn
  <2>6. DrawnOf(d)'
    BY <1>0, <1>1, <2>1, <2>2, <2>3 DEF DrawnOf
  <2>7. FitsOf(d)'
    <3> SUFFICES ASSUME NEW k \in 1..(N + 1), Full(Append(q, h)[k])
                 PROVE  Fits(ContentIn(Append(q, h), Shown(d), k - 1), Append(q, h)[k].seq)
      <4>1. DOMAIN Append(q, h) = 1..(N + 1)
        BY <1>2, <1>5, AppendProperties
      <4> QED  BY <1>1, <2>1, <2>2, <4>1 DEF FitsOf, Fits, Content
    <3>1. Append(q, h)[N + 1] = h /\ \A l \in 1..N : Append(q, h)[l] = q[l]
      BY <1>2, <1>5, AppendProperties
    <3>2. k \in 1..N
      <4>1. k # N + 1
        BY <2>1, <3>1
      <4> HIDE DEF N
      <4> QED  BY <1>5, <4>1
    <3>3. k - 1 \in 0..N
      BY <1>5, <3>2
    <3>4. ContentIn(Append(q, h), Shown(d), k - 1) = ContentIn(q, Shown(d), k - 1)
      <4>1. \A n \in 0..N : ContentIn(Append(q, h), Shown(d), n) = ContentIn(q, Shown(d), n)
        <5> HIDE DEF q, h
        <5>1. q \in Seq(Frames) /\ h \in Frames
          BY <1>2, <1>5
        <5> QED  BY <5>1, ContentPrefix DEF N
      <4> HIDE DEF q, h, N
      <4> QED  BY <3>3, <4>1
    <3> QED  BY <1>0, <1>5, <3>1, <3>2, <3>4 DEF FitsOf, Content
  <2>8. ClosedOf(d)' /\ WholeOf(d)'
    BY <2>5 DEF ClosedOf, WholeOf
  <2> QED  BY <2>6, <2>7, <2>8 DEF ScreenOf
\* A frame of the stream.
<1>30. CASE shown /\ h.kind # "reset"
  <2>1. Stream(h) /\ h.seq > rendered[d] /\ h.seq \notin Queued(d)
    BY <1>3, <1>30 DEF Takes
  <2>2. /\ inbox'[d] = Append(q, h) /\ rendered'[d] = rendered[d] /\ Len(Append(q, h)) = N + 1
        /\ Append(q, h)[N + 1] = h /\ \A l \in 1..N : Append(q, h)[l] = q[l]
        /\ DOMAIN Append(q, h) = 1..(N + 1) /\ 1 \in 1..(N + 1)
    BY <1>1, <1>2, <1>5, <1>30, AppendProperties
  <2>3. Shown(d)' = Shown(d)
    BY <1>1 DEF Shown
  <2>4. Unbroken(d)' <=> Unbroken(d)
    <3>1. UncutIn(Append(q, h), 1, N + 1) <=> UncutIn(q, 1, N)
      BY <1>2, <1>5, <1>30, <2>2, UncutAppend
    <3> QED  BY <2>2, <3>1 DEF Unbroken
  <2>5. /\ \A n \in 0..N : Content(d, n)' = Content(d, n)
        /\ Eventual(d)' = Eventual(d) \cup (IF Full(h) THEN {h.seq} ELSE {})
    <3>1. /\ \A n \in 0..N : ContentIn(Append(q, h), Shown(d), n) = ContentIn(q, Shown(d), n)
          /\ ContentIn(Append(q, h), Shown(d), N + 1) =
              ContentIn(q, Shown(d), N) \cup (IF Full(h) THEN {h.seq} ELSE {})
      <4> HIDE DEF q, h
      <4> QED  BY <1>2, <1>5, <1>30, ContentAppend DEF N
    <3>2. Eventual(d)' = ContentIn(Append(q, h), Shown(d), N + 1)
      BY <2>2, <2>3 DEF Eventual, Content
    <3> QED  BY <2>2, <2>3, <3>1, <3>2 DEF Eventual, Content
  <2>6. Points(d)' = Points(d) \cup {h.seq}
    <3>1. LaterIn(Append(q, h)) = LaterIn(q) \cup {h.seq}
      BY <1>2, <1>5, <1>30, LaterAppend
    <3>2. LaterIn(q) = Queued(d) /\ LaterIn(inbox'[d]) = Queued(d)'
      BY EventualPoints DEF Queued, LaterIn, UncutIn
    <3>3. \A y : y \in Queued(d)' <=> (y \in Queued(d) \/ y = h.seq)
      BY <2>2, <3>1, <3>2
    <3>4. \A y : y \in Points(d)' <=> (y \in Points(d) \/ y = h.seq)
      BY <2>2, <2>3, <2>4, <3>3, PointsMember, PointsLater
    <3> QED  BY <3>4
  <2> HIDE DEF h, q, N
  <2>7. \A f \in Range(Coming(d)) : f.kind # "reset"
    BY <1>2, <1>4, <1>30
  <2>8. /\ \A x \in Points(d), o \in outputs :
             x < o /\ o <= lastSent[d] => o \in Eventual(d) \cup Brought(d)
        /\ rendered[d] = 0 => \A f \in Range(Coming(d)), y \in Points(d) : Stream(f) => y < f.seq
    BY <1>0, <1>1, <2>7 DEF WholeOf
  <2>9. h.seq <= lastSent[d]
    BY <1>3 DEF SentOf
  <2>10. ASSUME NEW o \in Brought(d), o <= h.seq
         PROVE  o = h.seq /\ Full(h)
    <3>1. PICK g \in Range(Coming(d)) : Full(g) /\ o = g.seq
      BY <2>10 DEF Brought
    <3>2. Stream(g)
      <4>1. g \in Pending(d)
        BY <3>1 DEF Pending
      <4> QED  BY <1>0, <3>1, <4>1, FullFrames
    <3>3. g = h
      BY <1>2, <1>3, <1>4, <2>10, <3>1, <3>2
    <3> QED  BY <3>1, <3>3
  <2>11. rendered[d] # 0 => rendered[d] \in Points(d) /\ rendered[d] < h.seq
    BY <1>0, <1>3, <1>5, <2>1, PointsKnown DEF DrawnOf
  <2>12. ClosedOf(d)'
    <3> SUFFICES ASSUME NEW x \in Points(d) \cup {h.seq}, NEW y \in Points(d) \cup {h.seq},
                        NEW o \in outputs, x < o, o <= y
                 PROVE  o \in Eventual(d)'
      BY <1>1, <2>6 DEF ClosedOf
    <3>1. CASE x \in Points(d) /\ y \in Points(d)
      BY <1>0, <2>5, <3>1 DEF ClosedOf
    <3>2. CASE x \in Points(d) /\ y = h.seq
      <4>1. o <= lastSent[d]
        BY <1>3, <1>5, <2>9, <3>2
      <4>2. o \in Eventual(d) \cup Brought(d)
        BY <2>8, <3>2, <4>1
      <4> QED  BY <2>5, <2>10, <3>2, <4>2
    <3>3. CASE x = h.seq /\ y \in Points(d)
      <4>1. h.seq < y
        BY <1>3, <1>5, <1>6, <3>3
      <4>2. rendered[d] # 0
        <5>1. ~ (y < h.seq)
          BY <1>3, <1>6, <3>3, <4>1
        <5> QED  BY <1>2, <2>1, <2>8, <3>3, <5>1
      <4>3. rendered[d] \in Points(d) /\ rendered[d] < o
        BY <1>3, <1>5, <2>11, <3>3, <4>2
      <4> QED  BY <1>0, <2>5, <3>3, <4>3 DEF ClosedOf
    <3>4. CASE x = h.seq /\ y = h.seq
      BY <1>3, <1>5, <3>4
    <3> QED  BY <3>1, <3>2, <3>3, <3>4
  <2>13. Full(h) => \A y \in Points(d) : y < h.seq
    <3> SUFFICES ASSUME Full(h), NEW y \in Points(d), ~ (y < h.seq)
                 PROVE  FALSE
      OBVIOUS
    <3>1. rendered[d] # 0
      BY <1>2, <2>1, <2>8
    <3>2. rendered[d] \in Points(d) /\ rendered[d] < h.seq /\ h.seq \in outputs
      BY <1>3, <2>11, <3>1
    <3>3. y \in Nat /\ y >= h.seq
      BY <1>3, <1>6
    <3>4. h.seq \in Eventual(d)
      BY <1>0, <3>2, <3>3 DEF ClosedOf
    <3>5. h.seq \in Shown(d) /\ Unbroken(d)
      BY <2>1, <3>4, EventualPoints, PointsMember, <1>5, <1>3
    <3>6. h.seq <= rendered[d]
      BY <1>0, <3>5 DEF DrawnOf
    <3> QED  BY <1>3, <1>5, <3>2, <3>6
  <2>14. FitsOf(d)'
    <3> SUFFICES ASSUME NEW k \in 1..(N + 1), Full(Append(q, h)[k])
                 PROVE  Fits(Content(d, k - 1), Append(q, h)[k].seq)
      <4>1. \A k \in 1..(N + 1) : k - 1 \in 0..N
        BY <1>5
      <4> QED  BY <1>1, <2>2, <2>5, <4>1 DEF FitsOf, Fits
    <3>1. CASE k \in 1..N
      BY <1>0, <1>5, <2>2, <3>1 DEF FitsOf, q
    <3>2. CASE k = N + 1
      <4>1. Full(h) /\ k - 1 = N /\ Append(q, h)[k] = h
        BY <1>5, <2>2, <3>2
      <4>2. Content(d, N) = Eventual(d)
        BY DEF Eventual, N, q
      <4>3. \A x \in Eventual(d) : x < h.seq
        BY <2>13, <4>1, EventualPoints
      <4>4. ASSUME NEW x \in Eventual(d), NEW o \in outputs, x < o, o < h.seq
            PROVE  o \in Eventual(d)
        <5>1. x \in Points(d) /\ o <= lastSent[d] /\ o <= h.seq /\ o # h.seq
          BY <1>3, <1>5, <2>9, <4>4, EventualPoints
        <5> QED  BY <2>8, <2>10, <4>4, <5>1
      <4> QED  BY <4>1, <4>2, <4>3, <4>4 DEF Fits
    <3> QED  BY <1>5, <3>1, <3>2
  <2>15. DrawnOf(d)'
    BY <1>0, <1>1, <2>2, <2>3, <2>4 DEF DrawnOf
  <2>16. WholeOf(d)'
    <3>1. ASSUME NEW x \in Points(d) \cup {h.seq}, NEW o \in outputs, x < o, o <= lastSent[d]
          PROVE  o \in Eventual(d)' \cup Brought(d)'
      <4>1. CASE x \in Points(d)
        BY <1>8, <2>5, <2>8, <3>1, <4>1
      <4>2. CASE x = h.seq
        <5>1. o \in Brought(d)
          BY <1>0, <1>1, <1>2, <2>1, <3>1, <4>2 DEF ThroughOf
        <5>2. o # h.seq
          BY <1>3, <1>5, <3>1, <4>2
        <5> QED  BY <1>8, <5>1, <5>2
      <4> QED  BY <4>1, <4>2
    <3>2. rendered[d] = 0 =>
            \A f \in Range(Coming(d)'), y \in Points(d) \cup {h.seq} : Stream(f) => y < f.seq
      BY <1>2, <1>4, <2>8
    <3> QED  BY <1>1, <2>2, <2>6, <3>1, <3>2 DEF WholeOf
  <2> QED  BY <2>12, <2>14, <2>15, <2>16 DEF ScreenOf
<1> QED  BY <1>10, <1>20, <1>30

LEMMA AgreeDelivered ==
  ASSUME TypeOK, NEW d \in Clients, d \in Terminals, QueueOf(d), AgreeOf(d), Delivered(d)
  PROVE  AgreeOf(d)'
<1> DEFINE h == Head(Coming(d))
           q == inbox[d]
<1>1. /\ attached[d] /\ Coming(d) # <<>> /\ Coming(d)' = Tail(Coming(d))
      /\ inbox'[d] = Append(q, h) \/ inbox'[d] = q
      /\ rendered'[d] = IF h.kind = "reset" THEN 0 ELSE rendered[d]
      /\ UNCHANGED <<attached[d], link[d], requests[d], drops[d], committed[d]>>
  BY DEF Delivered, Handle
<1>2. /\ h \in Frames /\ h \in Range(Coming(d))
      /\ \A f \in Range(Coming(d)') : f.kind # "reset"
  <2>1. /\ h \in Frames /\ Range(Coming(d)) = {h} \cup Range(Coming(d)')
        /\ \A f \in Range(Coming(d)') : Precedes(Coming(d), h, f)
    BY <1>1, DeliveredQueues
  <2> QED  BY <2>1 DEF QueueOf, RisingOf
<1>3. q \in Seq(Frames) /\ Len(q) \in Nat
  <2>1. q \in Seq(Frames)
    BY ClientTypes
  <2> HIDE DEF q
  <2> QED  BY <2>1, LenProperties
<1> HIDE DEF h
<1>4. ASSUME Unlost(d)'
      PROVE  /\ committed'[d] = rendered'[d] /\ (committed'[d] # 0 => Unbroken(d)')
             /\ \A r \in Range(requests'[d]) : r.kind = "attach" => r.seq <= committed'[d]
  <2>1. /\ Unlost(d) /\ drops[d] = 0
        /\ committed[d] = rendered[d] /\ (committed[d] # 0 => Unbroken(d))
        /\ \A r \in Range(requests[d]) : r.kind = "attach" => r.seq <= committed[d]
    BY <1>1, <1>4 DEF AgreeOf, Unlost
  <2>2. CASE h.kind = "reset"
    <3>1. committed[d] = 0
      BY <1>2, <2>1, <2>2 DEF AgreeOf
    <3> QED  BY <1>1, <2>1, <2>2, <3>1
  <2>3. CASE h.kind # "reset"
    <3>1. Unbroken(d) => Unbroken(d)'
      <4>1. CASE inbox'[d] = q
        BY <4>1 DEF Unbroken
      <4>2. CASE inbox'[d] = Append(q, h)
        <5>1. Len(Append(q, h)) = Len(q) + 1 /\ 1 \in 1..(Len(q) + 1)
          <6> HIDE DEF q
          <6> QED  BY <1>2, <1>3, AppendProperties
        <5>2. UncutIn(Append(q, h), 1, Len(q) + 1) <=> UncutIn(q, 1, Len(q))
          <6> HIDE DEF q
          <6> QED  BY <1>2, <1>3, <2>3, <5>1, UncutAppend
        <5> QED  BY <4>2, <5>1, <5>2 DEF Unbroken
      <4> QED  BY <1>1, <4>1, <4>2
    <3> QED  BY <1>1, <2>1, <2>3, <3>1
  <2> QED  BY <2>2, <2>3
<1> QED  BY <1>1, <1>2, <1>4 DEF AgreeOf

\* The next chunk of output is sent.
LEMMA WholeFed ==
  ASSUME TypeOK, NEW d \in Clients, KnownOf(d), SentOf(d), DrawnOf(d), WholeOf(d), Grown,
         checkpoint = NoCheckpoint, Fed(d), Points(d)' = Points(d), Eventual(d)' = Eventual(d)
  PROVE  WholeOf(d)'
<1>1. PICK s \in outputs' :
        /\ attached[d] /\ s \in Nat /\ lastSent[d] < s /\ s <= LatestSeq'
        /\ \A o \in outputs' : o <= lastSent[d] \/ s <= o
        /\ Coming(d)' = Append(Coming(d), OutputFrame(s)) /\ lastSent'[d] = s
        /\ UNCHANGED <<attached[d], Viewer(d)>>
  <2>1. checkpoint.seq <= lastSent[d]
    BY ClientTypes DEF NoCheckpoint
  <2> QED  BY <2>1 DEF Fed
<1> DEFINE e == OutputFrame(s)
<1>2. e \in Frames /\ e.seq = s /\ e.kind = "output" /\ Full(e)
  BY <1>1, FrameTypes DEF OutputFrame, Full
<1>3. Coming(d)' = Append(Coming(d), e)
  BY <1>1
<1> HIDE DEF e
<1>4. Range(Coming(d)') = Range(Coming(d)) \cup {e}
  BY <1>2, <1>3, AppendIn, ClientTypes
<1>5. Brought(d)' = Brought(d) \cup {s}
  BY <1>2, <1>4 DEF Brought
<1>6. /\ lastSent[d] \in Nat /\ LatestSeq \in Nat /\ lastSent[d] <= LatestSeq
      /\ \A o \in outputs' : o \in Nat /\ (o <= lastSent[d] => o \in outputs)
  BY ClientTypes DEF Grown, TypeOK, HandlesTypeOK
<1>7. \A y \in Points(d) : y \in Nat /\ y <= lastSent[d]
  BY <1>1, PointsKnown
<1> SUFFICES ASSUME \A f \in Range(Coming(d)) \cup {e} : f.kind # "reset"
             PROVE  /\ \A x \in Points(d), o \in outputs' :
                         x < o /\ o <= s => o \in Eventual(d) \cup Brought(d) \cup {s}
                    /\ rendered[d] = 0 =>
                         \A f \in Range(Coming(d)) \cup {e}, y \in Points(d) : Stream(f) => y < f.seq
  BY <1>1, <1>4, <1>5 DEF WholeOf, Viewer
<1>8. /\ \A x \in Points(d), o \in outputs :
           x < o /\ o <= lastSent[d] => o \in Eventual(d) \cup Brought(d)
      /\ rendered[d] = 0 => \A f \in Range(Coming(d)), y \in Points(d) : Stream(f) => y < f.seq
  BY <1>1 DEF WholeOf
<1>9. ASSUME NEW x \in Points(d), NEW o \in outputs', x < o, o <= s
      PROVE  o \in Eventual(d) \cup Brought(d) \cup {s}
  <2>1. CASE o <= lastSent[d]
    BY <1>6, <1>8, <1>9, <2>1
  <2>2. CASE s <= o
    <3>1. o = s
      BY <1>1, <1>6, <1>9, <2>2
    <3> QED  BY <3>1
  <2> QED  BY <1>1, <2>1, <2>2
<1>10. \A y \in Points(d) : y < e.seq
  BY <1>1, <1>2, <1>6, <1>7
<1> QED  BY <1>8, <1>9, <1>10

\* The least number of a set.
LEMMA MinOf ==
  ASSUME NEW n \in Nat, NEW S \in SUBSET (1..n), S # {}
  PROVE  Min(S) \in S
<1> DEFINE q == Sorted(S)
<1>1. /\ q \in Seq(S) /\ Range(q) = S
      /\ \A x, y : Precedes(q, x, y) => x \in S /\ y \in S /\ x < y
  BY SortedLists
<1> HIDE DEF q
<1>2. Len(q) \in Nat /\ DOMAIN q = 1..Len(q)
  BY <1>1, LenProperties
<1>3. 1 \in DOMAIN q
  <2>1. PICK i \in DOMAIN q : TRUE
    BY <1>1 DEF Range
  <2> QED  BY <1>2, <2>1
<1>4. q[1] \in S
  BY <1>1, <1>3, RangeOf
<1>5. \A y \in S : q[1] <= y
  <2> SUFFICES ASSUME NEW y \in S
               PROVE  q[1] <= y
    OBVIOUS
  <2>1. PICK i \in DOMAIN q : y = q[i]
    BY <1>1 DEF Range
  <2>2. CASE i = 1
    BY <1>4, <2>1, <2>2
  <2>3. CASE 1 < i
    <3>1. Precedes(q, q[1], q[i])
      BY <1>3, <2>1, <2>3 DEF Precedes
    <3>2. q[1] < y
      BY <1>1, <2>1, <3>1
    <3>3. q[1] \in Nat /\ y \in Nat
      <4>1. \A x \in S : x \in Nat
        OBVIOUS
      <4> QED  BY <1>4, <4>1
    <3> QED  BY <3>2, <3>3
  <2> QED  BY <1>2, <2>1, <2>2, <2>3
<1> QED  BY <1>4, <1>5 DEF Min

\* A client that attaches for the first time, or again after its first loss.
LEMMA WholeJoined ==
  ASSUME TypeOK, NEW d \in Clients, d \in Terminals, drops[d] <= 1, KnownOf(d), DrawnOf(d), ClosedOf(d),
         AgreeOf(d), OutputKept, checkpoint = NoCheckpoint, Joined(d),
         Points(d)' = Points(d), Eventual(d)' = Eventual(d)
  PROVE  WholeOf(d)'
<1> DEFINE r == Head(requests[d])
           after == r.seq
           answer == AttachedFrames(after)
<1>1. /\ ~attached[d] /\ link[d] = "up" /\ Coming(d)' = answer /\ lastSent'[d] = LatestSeq
      /\ requests[d] # <<>> /\ r.kind = "attach"
      /\ UNCHANGED <<outputs, retained, rendered[d]>>
  BY DEF Joined, Viewer, session
<1>2. r \in Range(requests[d]) /\ after \in Nat
  <2>1. r \in Range(requests[d])
    BY <1>1, TailIn, ClientTypes
  <2> QED  BY <2>1, SeqTypes
<1>3. Unlost(d)
  BY <1>1, ClientTypes DEF Unlost
<1>4. /\ committed[d] = rendered[d] /\ (committed[d] # 0 => Unbroken(d))
      /\ after <= committed[d] /\ rendered[d] \in Nat
  BY <1>1, <1>2, <1>3, ClientTypes DEF AgreeOf
<1> HIDE DEF r, after
<1>5. /\ ReplayReset(after) => ResetFrame \in Range(answer)
      /\ \A s \in retained : Wanted(s, after) => ReplayFrame(s) \in Range(answer)
  BY <1>2, AnswerShape
<1> HIDE DEF answer
<1> SUFFICES ASSUME \A f \in Range(answer) : f.kind # "reset"
             PROVE  /\ \A x \in Points(d), o \in outputs :
                         x < o /\ o <= LatestSeq => o \in Eventual(d) \cup Brought(d)'
                    /\ rendered[d] # 0
  BY <1>1 DEF WholeOf
<1>6. ~ReplayReset(after)
  BY <1>5 DEF ResetFrame
<1>7. after # 0 /\ ~ (after + 1 < OldestSeq)
  BY <1>6 DEF ReplayReset
<1>8. rendered[d] # 0 /\ rendered[d] \in Points(d)
  BY <1>2, <1>4, <1>7, PointsKnown
<1>9. ASSUME NEW x \in Points(d), NEW o \in outputs, x < o, o <= LatestSeq
      PROVE  o \in Eventual(d) \cup Brought(d)'
  <2>0. o \in Nat /\ retained \in SUBSET (1..LatestSeq) /\ LatestSeq \in Nat
    BY ClientTypes DEF TypeOK, SessionTypeOK
  <2>1. CASE o <= rendered[d]
    BY <1>8, <1>9, <2>1 DEF ClosedOf
  <2>2. CASE ~ (o <= rendered[d])
    <3>1. after < o
      BY <1>2, <1>4, <2>0, <2>2
    <3>2. ~ (o <= checkpoint.seq)
      BY <2>0 DEF NoCheckpoint
    <3>3. ASSUME retained # {}, \A q \in retained : o < q
          PROVE  FALSE
      <4>1. Min(retained) \in retained
        BY <2>0, <3>3, MinOf
      <4>2. OldestSeq = Min(retained)
        BY <3>3 DEF OldestSeq
      <4>3. Min(retained) \in Nat /\ o < Min(retained)
        <5>1. \A m \in retained : m \in Nat
          BY <2>0
        <5> QED  BY <3>3, <4>1, <5>1
      <4> HIDE DEF after
      <4> QED  BY <1>2, <1>7, <2>0, <3>1, <4>2, <4>3
    <3>4. o \in retained
      BY <3>2, <3>3 DEF OutputKept
    <3>5. Wanted(o, after)
      BY <3>1 DEF Wanted
    <3>6. ReplayFrame(o) \in Range(answer)
      BY <1>5, <3>4, <3>5
    <3>7. ReplayFrame(o).seq = o /\ ReplayFrame(o).body = <<o>> /\ <<o>> # <<>>
      BY DEF ReplayFrame
    <3> QED  BY <1>1, <3>6, <3>7 DEF Brought, Full
  <2> QED  BY <2>1, <2>2
<1> QED  BY <1>8, <1>9

\* A step that leaves the terminal alone keeps what agrees.
LEMMA AgreeSame ==
  ASSUME NEW d \in Clients, AgreeOf(d), UNCHANGED <<committed[d], rendered[d], inbox[d]>>,
         Unlost(d)' => Unlost(d) /\ \A r \in Range(requests'[d]) :
                         r \in Range(requests[d]) \/ (r.kind = "attach" => r.seq <= committed[d]),
         drops'[d] = 0 /\ ((\E f \in Range(Coming(d)') : f.kind = "reset")
                            \/ (~attached'[d] /\ link'[d] # "closing")) =>
           drops[d] = 0 /\ ((\E f \in Range(Coming(d)) : f.kind = "reset")
                             \/ (~attached[d] /\ link[d] # "closing"))
  PROVE  AgreeOf(d)'
<1>1. Unbroken(d)' <=> Unbroken(d)
  BY DEF Unbroken
<1> QED  BY <1>1 DEF AgreeOf

LEMMA AgreeStep ==
  ASSUME TypeOK, NEW d \in Clients, d \in Terminals, ~CheckpointReplay, KnownOf(d), QueueOf(d),
         checkpoint = NoCheckpoint, Grown, drops[d] <= 1 => ScreenOf(d), AgreeOf(d), Event(d)
  PROVE  AgreeOf(d)'
<1>1. CASE Rested(d)
  BY <1>1, AgreeSame DEF Rested, Handle, Viewer, Unlost
<1>2. CASE Fed(d)
  <2>1. PICK s \in outputs' :
        /\ s \in Nat /\ Coming(d)' = Append(Coming(d), OutputFrame(s))
        /\ UNCHANGED <<attached[d], link[d], requests[d], drops[d], Viewer(d)>>
    BY <1>2 DEF Fed
  <2> DEFINE e == OutputFrame(s)
  <2>2. e \in Frames /\ e.kind # "reset" /\ Coming(d)' = Append(Coming(d), e)
    BY <2>1, FrameTypes DEF OutputFrame
  <2> HIDE DEF e
  <2>3. Range(Coming(d)') = Range(Coming(d)) \cup {e}
    BY <2>2, AppendIn, ClientTypes
  <2> QED  BY <2>1, <2>2, <2>3, AgreeSame DEF Viewer, Unlost
<1>3. CASE Joined(d)
  <2>1. /\ ~attached[d] /\ attached'[d] /\ link[d] = "up" /\ requests[d] # <<>>
        /\ requests'[d] = Tail(requests[d])
        /\ UNCHANGED <<link[d], drops[d], committed[d], rendered[d], inbox[d]>>
    BY <1>3 DEF Joined, Viewer
  <2>2. Range(requests'[d]) \subseteq Range(requests[d])
    BY <2>1, TailIn, ClientTypes
  <2> QED  BY <2>1, <2>2, AgreeSame DEF Unlost
<1>4. CASE Cut(d)
  <2>1. /\ ~attached'[d] /\ Coming(d)' = <<>> /\ requests'[d] = <<>> /\ drops[d] \in Nat
        /\ \/ link'[d] = "closing" /\ drops'[d] = drops[d]
           \/ link'[d] = "down" /\ drops'[d] = drops[d] + 1
        /\ UNCHANGED <<committed[d], rendered[d], inbox[d]>>
    BY <1>4, ClientTypes DEF Cut, Viewer
  <2>2. Range(requests'[d]) = {} /\ Range(Coming(d)') = {}
    BY <2>1, NoneIn
  <2>3. Unlost(d)' => Unlost(d)
    BY <2>1 DEF Unlost
  <2>4. ~(drops'[d] = 0 /\ ~attached'[d] /\ link'[d] # "closing")
    BY <2>1
  <2> QED  BY <2>1, <2>2, <2>3, <2>4, AgreeSame
<1>5. CASE Served(d)
  <2>1. /\ requests[d] # <<>> /\ requests'[d] = Tail(requests[d])
        /\ UNCHANGED <<attached[d], Coming(d), link[d], drops[d], committed[d], rendered[d], inbox[d]>>
    BY <1>5 DEF Served, Viewer, Handle
  <2>2. Range(requests'[d]) \subseteq Range(requests[d])
    BY <2>1, TailIn, ClientTypes
  <2> QED  BY <2>1, <2>2, AgreeSame DEF Unlost
<1>6. CASE Delivered(d)
  BY <1>6, AgreeDelivered
<1>7. CASE Wrote(d)
  BY <1>7, AgreeWrote DEF QueueOf
<1>8. CASE Uploaded(d)
  BY <1>8 DEF Uploaded
<1>9. CASE Reached(d)
  <2>1. /\ ~attached[d] /\ ~attached'[d] /\ drops[d] \in Nat /\ committed[d] \in Nat
        /\ UNCHANGED <<Coming(d), committed[d], rendered[d], inbox[d]>>
    BY <1>9, ClientTypes DEF Reached, Handle
  <2>2. CASE link[d] = "closing" /\ link'[d] = "down" /\ drops'[d] = drops[d] + 1 /\ UNCHANGED requests[d]
    <3>1. Unlost(d)' => Unlost(d)
      BY <2>1, <2>2 DEF Unlost
    <3>2. drops'[d] # 0
      BY <2>1, <2>2
    <3> QED  BY <2>1, <2>2, <3>1, <3>2, AgreeSame
  <2>3. CASE link[d] = "down" /\ link'[d] = "connected" /\ UNCHANGED <<drops[d], requests[d]>>
    BY <2>1, <2>3, AgreeSame DEF Unlost
  <2>4. CASE /\ link[d] = "connected" /\ link'[d] = "up" /\ UNCHANGED drops[d]
             /\ requests'[d] = Append(requests[d], AttachRequest(committed[d]))
    <3> DEFINE r == AttachRequest(committed[d])
    <3>1. r \in Requests /\ r.seq <= committed[d] /\ requests'[d] = Append(requests[d], r)
      BY <2>1, <2>4 DEF AttachRequest, Requests
    <3> HIDE DEF r
    <3>2. Range(requests'[d]) = Range(requests[d]) \cup {r}
      BY <3>1, AppendIn, ClientTypes
    <3> QED  BY <2>1, <2>4, <3>1, <3>2, AgreeSame DEF Unlost
  <2> QED  BY <1>9, <2>2, <2>3, <2>4 DEF Reached
<1> QED  BY <1>1, <1>2, <1>3, <1>4, <1>5, <1>6, <1>7, <1>8, <1>9 DEF Event

LEMMA ScreenOfStep ==
  ASSUME TypeOK, NEW d \in Clients, d \in Terminals, drops[d] <= 1, ~CheckpointReplay, KnownOf(d),
         attached[d] => SentOf(d), QueueOf(d), checkpoint = NoCheckpoint, OutputKept, Grown,
         ScreenOf(d), AgreeOf(d), Event(d)
  PROVE  ScreenOf(d)'
<1>0. DrawnOf(d) /\ FitsOf(d) /\ ClosedOf(d) /\ WholeOf(d)
  BY DEF ScreenOf
<1>1. ASSUME UNCHANGED <<rendered[d], inbox[d], screen[d]>>
      PROVE  /\ DrawnOf(d)' /\ FitsOf(d)' /\ ClosedOf(d)'
             /\ Points(d)' = Points(d) /\ Eventual(d)' = Eventual(d)
  BY <1>0, <1>1, DrawnSame
<1>2. CASE Rested(d) \/ Served(d)
  <2>1. UNCHANGED <<rendered[d], inbox[d], screen[d], attached[d], lastSent[d], Coming(d)>>
    BY <1>2 DEF Rested, Served, Handle, Viewer
  <2>2. WholeOf(d)'
    BY <1>0, <1>1, <2>1, WholeSame
  <2> QED  BY <1>1, <2>1, <2>2 DEF ScreenOf
<1>3. CASE Fed(d)
  <2>1. UNCHANGED <<rendered[d], inbox[d], screen[d]>> /\ attached[d]
    BY <1>3 DEF Fed, Viewer
  <2>2. WholeOf(d)'
    BY <1>0, <1>1, <1>3, <2>1, WholeFed
  <2> QED  BY <1>1, <2>1, <2>2 DEF ScreenOf
<1>4. CASE Joined(d)
  <2>1. UNCHANGED <<rendered[d], inbox[d], screen[d]>>
    BY <1>4 DEF Joined, Viewer
  <2>2. WholeOf(d)'
    BY <1>0, <1>1, <1>4, <2>1, WholeJoined
  <2> QED  BY <1>1, <2>1, <2>2 DEF ScreenOf
<1>5. CASE Cut(d) \/ Reached(d)
  <2>1. UNCHANGED <<rendered[d], inbox[d], screen[d]>> /\ ~attached'[d]
    BY <1>5 DEF Cut, Reached, Viewer, Handle
  <2> QED  BY <1>1, <2>1 DEF ScreenOf, WholeOf
<1>6. CASE Delivered(d)
  <2>1. attached[d]
    BY <1>6 DEF Delivered
  <2> QED  BY <1>6, <2>1, ScreenDelivered
<1>7. CASE Wrote(d)
  BY <1>7, ScreenWrote DEF QueueOf
<1>8. CASE Uploaded(d)
  BY <1>8 DEF Uploaded
<1> QED  BY <1>2, <1>3, <1>4, <1>5, <1>6, <1>7, <1>8 DEF Event

LEMMA DropsGrow ==
  ASSUME TypeOK, NEW d \in Clients, Event(d)
  PROVE  drops'[d] \in Nat /\ drops[d] <= drops'[d]
<1>1. drops[d] \in Nat
  BY ClientTypes
<1>2. drops'[d] = drops[d] \/ drops'[d] = drops[d] + 1
  BY DEF Event, Rested, Fed, Joined, Cut, Served, Delivered, Wrote, Uploaded, Reached
<1> QED  BY <1>1, <1>2

LEMMA ScreenStep ==
  ASSUME ~CheckpointReplay, TypeOK, StreamInv, LinkInv, CreditInv, NoCheckpoints, QueueInv, ScreenInv,
         [Next]_vars
  PROVE  ScreenInv'
<1> SUFFICES ASSUME NEW d \in Terminals
             PROVE  AgreeOf(d)' /\ (drops'[d] <= 1 => ScreenOf(d)')
  BY DEF ScreenInv
<1>1. d \in Clients
  BY ClientsAssumption
<1>2. /\ QueueOf(d) /\ KnownOf(d) /\ (attached[d] => SentOf(d)) /\ Grown /\ Event(d)
      /\ checkpoint = NoCheckpoint /\ OutputKept /\ AgreeOf(d) /\ (drops[d] <= 1 => ScreenOf(d))
  BY <1>1, ClientEvent, GrownStep
     DEF QueueInv, CreditInv, CreditOf, WindowOf, NoCheckpoints, StreamInv, ScreenInv
<1>3. drops'[d] <= 1 => drops[d] <= 1
  BY <1>1, <1>2, DropsGrow, ClientTypes
<1>4. AgreeOf(d)'
  BY <1>1, <1>2, AgreeStep
<1>5. drops'[d] <= 1 => ScreenOf(d)'
  BY <1>1, <1>2, <1>3, ScreenOfStep
<1> QED  BY <1>4, <1>5

LEMMA ScreenInit == Init => ScreenInv
<1> SUFFICES ASSUME Init, NEW d \in Terminals
             PROVE  AgreeOf(d) /\ ScreenOf(d)
  BY DEF ScreenInv
<1>1. d \in Clients
  BY ClientsAssumption
<1>2. /\ inbox[d] = <<>> /\ Coming(d) = <<>> /\ requests[d] = <<>> /\ screen[d] = <<>>
      /\ committed[d] = 0 /\ rendered[d] = 0 /\ outputs = {}
  BY <1>1 DEF Init, Coming
<1>3. /\ Range(requests[d]) = {} /\ Range(Coming(d)) = {} /\ Shown(d) = {}
      /\ DOMAIN inbox[d] = {} /\ DOMAIN screen[d] = {} /\ Len(inbox[d]) = 0
  BY <1>2, NoneIn DEF Shown
<1>4. Unbroken(d)
  BY <1>3 DEF Unbroken, UncutIn
<1>5. AgreeOf(d)
  BY <1>2, <1>3, <1>4 DEF AgreeOf
<1>6. Points(d) = {}
  <2>1. LaterIn(inbox[d]) = {}
    BY <1>3 DEF LaterIn
  <2> QED  BY <1>2, <1>3, <2>1 DEF Points, PointsIn
<1>7. DrawnOf(d) /\ FitsOf(d) /\ ClosedOf(d) /\ WholeOf(d)
  BY <1>2, <1>3, <1>4, <1>6 DEF DrawnOf, FitsOf, ClosedOf, WholeOf
<1> QED  BY <1>5, <1>7 DEF ScreenOf

\* A screen on which the output rises and nothing is left out is a run of it.
LEMMA DrawnRun ==
  ASSUME TypeOK, NEW d \in Clients, DrawnOf(d)
  PROVE  Run(screen[d])
<1> DEFINE s == screen[d]
           S == {o \in outputs : s[1] <= o /\ o <= Last(s)}
<1>1. s \in Seq(Nat) /\ LatestSeq \in Nat /\ outputs \subseteq 1..LatestSeq
  BY ClientTypes DEF TypeOK, SessionTypeOK
<1> HIDE DEF s
<1> SUFFICES ASSUME s # <<>>
             PROVE  s = Sorted(S)
  BY DEF Run, s
<1>2. /\ Len(s) \in Nat /\ DOMAIN s = 1..Len(s) /\ \A i \in 1..Len(s) : s[i] \in Nat
      /\ Len(s) # 0
  BY <1>1, LenProperties, EmptySeq
<1>3. 1 \in 1..Len(s) /\ Len(s) \in 1..Len(s) /\ Last(s) = s[Len(s)]
  BY <1>2 DEF Last
<1>4. /\ \A i, j \in 1..Len(s) : i < j => s[i] < s[j]
      /\ Range(s) \subseteq outputs
      /\ \A x, y \in Range(s), o \in outputs : x < o /\ o <= y => o \in Range(s)
      /\ \A i \in 1..Len(s) : s[i] \in Range(s)
  BY <1>1, <1>2, RangeOf DEF DrawnOf, Shown, s
<1>5. \A i \in 1..Len(s) : s[1] <= s[i] /\ s[i] <= s[Len(s)]
  <2> SUFFICES ASSUME NEW i \in 1..Len(s)
               PROVE  s[1] <= s[i] /\ s[i] <= s[Len(s)]
    OBVIOUS
  <2> DEFINE n == Len(s)
  <2>1. (i = 1 \/ 1 < i) /\ (i = n \/ i < n)
    <3>1. n \in Nat /\ i \in 1..n
      BY <1>2
    <3> HIDE DEF n
    <3> QED  BY <3>1
  <2>0. n \in 1..n /\ i \in 1..n /\ 1 \in 1..n /\ (i = n \/ i < n)
    BY <1>3, <2>1
  <2>2. s[1] = s[i] \/ s[1] < s[i]
    BY <1>3, <1>4, <2>1
  <2>3. s[i] = s[n] \/ s[i] < s[n]
    <3>1. \A j, k \in 1..n : j < k => s[j] < s[k]
      BY <1>4
    <3> HIDE DEF n
    <3> QED  BY <2>0, <3>1
  <2> QED  BY <1>2, <1>3, <2>2, <2>3
<1>6. Range(s) = S
  <2>1. ASSUME NEW x \in Range(s)
        PROVE  x \in S
    <3>1. PICK i \in 1..Len(s) : x = s[i]
      BY <1>2 DEF Range
    <3> QED  BY <1>3, <1>4, <1>5, <3>1
  <2>2. ASSUME NEW x \in S
        PROVE  x \in Range(s)
    <3>1. x \in outputs /\ s[1] <= x /\ x <= s[Len(s)] /\ x \in Nat
      BY <1>1, <1>3
    <3>2. CASE x = s[1]
      BY <1>3, <1>4, <3>2
    <3>3. CASE s[1] < x
      BY <1>3, <1>4, <3>1, <3>3
    <3> QED  BY <1>2, <1>3, <3>1, <3>2, <3>3
  <2> QED  BY <2>1, <2>2
<1>7. S \in SUBSET (1..LatestSeq)
  BY <1>1
<1> HIDE DEF S
<1>8. s \in Seq(S)
  <2>1. \A i \in 1..Len(s) : s[i] \in S
    BY <1>4, <1>6
  <2> QED  BY <1>1, <1>2, <2>1, SeqDef, LenProperties
<1>9. \A i, j \in DOMAIN s : i < j => s[i] < s[j]
  BY <1>2, <1>4
<1> QED  BY <1>1, <1>6, <1>7, <1>8, <1>9, SortedUnique

\* Without checkpoints the screen of a terminal that has lost at most one
\* connection is a run of the output.
THEOREM ScreenAlways ==
  ASSUME ~CheckpointReplay
  PROVE  Spec => []ScreenContiguous
<1> DEFINE Inv == /\ TypeOK /\ StreamInv /\ LinkInv /\ CreditInv
                  /\ NoCheckpoints /\ QueueInv /\ ScreenInv
<1>1. Init => NoCheckpoints
  BY DEF Init, NoCheckpoints
<1>2. Init => Inv
  BY <1>1, TypeInit, StreamInvInit, LinkInit, CreditInit, QueueInit, ScreenInit
<1>3. Inv /\ [Next]_vars => Inv'
  BY TypeStep, StreamInvStep, LinkStep, CreditStep, RequestsStep, QueueStep, ScreenStep
<1>4. Inv => ScreenContiguous
  <2> SUFFICES ASSUME Inv, NEW c \in Terminals, drops[c] <= 1
               PROVE  Run(screen[c])
    BY DEF ScreenContiguous
  <2>1. c \in Clients /\ DrawnOf(c)
    BY ClientsAssumption DEF ScreenInv, ScreenOf
  <2> QED  BY <2>1, DrawnRun
<1> QED  BY <1>2, <1>3, <1>4, PTL DEF Spec

(***************************************************************************)
(* The live stream skips nothing.                                          *)
(***************************************************************************)

\* What is still to come live.
Live(d) == {f.seq : f \in {g \in Range(Coming(d)) : g.kind = "output"}}
Barred(d) == \E g \in Range(Coming(d)) : g.kind = "attached"
\* Live output follows the end of the answer, in its order, and is complete from
\* there; once that end has been received, from what has been received.
LiveOf(d) ==
  attached[d] =>
    /\ \A f, g \in Range(Coming(d)) : Precedes(Coming(d), f, g) =>
         /\ f.kind = "output" => g.kind = "output" /\ f.seq < g.seq
         /\ f.kind = "attached" => g.kind = "output"
    /\ \A g \in Range(Coming(d)), o \in outputs :
         g.kind = "attached" /\ g.seq < o /\ o <= lastSent[d] => o \in Live(d)
    /\ ~Barred(d) =>
         /\ \A f \in Range(Coming(d)) : f.kind = "output"
         /\ \A o \in outputs : received[d] < o /\ o <= lastSent[d] => o \in Live(d)
LiveInv == \A d \in Clients : LiveOf(d)

\* The checkpoint, and those under way, are of what the client has been sent: of
\* the only client, unless there are none.
CoveredOf(d) ==
  attached[d] => /\ checkpoint.seq <= lastSent[d]
                 /\ \A r \in Range(requests[d]) : r.seq <= lastSent[d]
CoveredInv == \A d \in Clients : CoveredOf(d)
\* Nobody else uploads checkpoints.
OwnCheckpoints == CheckpointReplay => Clients = {Creator}

\* The only step that changes the checkpoint takes one from a subscribed client.
LEMMA CheckpointKept ==
  ASSUME TypeOK, [Next]_vars
  PROVE  \/ checkpoint' = checkpoint
         \/ \E c \in Clients :
              /\ attached[c] /\ requests[c] # <<>> /\ checkpoint'.seq = Head(requests[c]).seq
              /\ UNCHANGED handles
<1> USE DEF session
<1>1. CASE Emit \/ Resize \/ UNCHANGED vars
  BY <1>1 DEF Emit, Resize, vars
<1>2. ASSUME NEW c \in Clients, HandleCheckpoint(c)
      PROVE  \/ checkpoint' = checkpoint
             \/ /\ attached[c] /\ requests[c] # <<>> /\ checkpoint'.seq = Head(requests[c]).seq
                /\ UNCHANGED handles
  <2>1. requests[c] # <<>>
    BY <1>2 DEF HandleCheckpoint, Handles
  <2>2. CASE UNCHANGED <<checkpoint, retained>>
    BY <2>2
  <2>3. CASE ~UNCHANGED <<checkpoint, retained>>
    <3>1. /\ attached[c] /\ UNCHANGED handles
          /\ checkpoint' = [seq |-> Head(requests[c]).seq, body |-> Head(requests[c]).body,
                            late |-> Head(requests[c]).late]
      BY <1>2, <2>3 DEF HandleCheckpoint
    <3> QED  BY <2>1, <3>1
  <2> QED  BY <2>2, <2>3
<1>3. ASSUME NEW c \in Clients, DaemonStep(c), ~HandleCheckpoint(c)
      PROVE  checkpoint' = checkpoint
  BY <1>3 DEF DaemonStep, HandleAttach, AttachReply, CompleteAttach, HandleAck, FlushSend, FlushEnd
<1>4. ASSUME NEW c \in Clients, ClientStep(c) \/ Checkpointing(c) \/ Drop(c)
      PROVE  checkpoint' = checkpoint
  BY <1>4 DEF ClientStep, Deliver, Commit, NoticeClose, Connect, SendAttach,
         Checkpointing, Serialize, SendCheckpoint, Drop
<1> QED  BY <1>1, <1>2, <1>3, <1>4 DEF Next

\* A request taken, or one appended, in a queue.
LEMMA AskedIn ==
  \A q \in Seq(Requests) :
    /\ q # <<>> => Head(q) \in Range(q) /\ Range(Tail(q)) \subseteq Range(q)
    /\ \A r \in Requests : Range(Append(q, r)) = Range(q) \cup {r}
<1> SUFFICES ASSUME NEW q \in Seq(Requests)
             PROVE  /\ q # <<>> => Head(q) \in Range(q) /\ Range(Tail(q)) \subseteq Range(q)
                    /\ \A r \in Requests : Range(Append(q, r)) = Range(q) \cup {r}
  OBVIOUS
<1>1. q # <<>> => Range(q) = {Head(q)} \cup Range(Tail(q))
  BY TailIn
<1>2. \A r \in Requests : Range(Append(q, r)) = Range(q) \cup {r}
  BY AppendIn
<1> QED  BY <1>1, <1>2

\* That is so as long as nobody else's checkpoint is taken.
LEMMA CoveredClient ==
  ASSUME TypeOK, NEW d \in Clients, CreditOf(d), CoveredOf(d), [Next]_vars, Event(d),
         \/ checkpoint' = checkpoint
         \/ requests[d] # <<>> /\ checkpoint'.seq = Head(requests[d]).seq
  PROVE  CoveredOf(d)'
<1> SUFFICES ASSUME attached'[d]
             PROVE  /\ checkpoint'.seq <= lastSent'[d]
                    /\ \A r \in Range(requests'[d]) : r.seq <= lastSent'[d]
  BY DEF CoveredOf
<1> DEFINE q == requests[d]
<1>0. /\ q \in Seq(Requests) /\ checkpoint.seq \in Int /\ checkpoint.seq <= LatestSeq
      /\ lastSent[d] \in Nat /\ lastSent'[d] \in Nat /\ LatestSeq \in Nat
      /\ rendered[d] \in Nat /\ screen[d] \in Seq(Nat)
      /\ \A r \in Range(requests[d]) : r.seq \in Nat
  <2>1. TypeOK'
    BY TypeStep
  <2>2. lastSent'[d] \in Nat
    BY <2>1 DEF TypeOK, HandlesTypeOK, SessionTypeOK, LatestSeq
  <2> QED  BY <2>2, ClientTypes, CheckpointType, SeqTypes
<1>1. /\ \A r \in Range(q) : r.seq <= LatestSeq
      /\ attached[d] => SentOf(d) /\ checkpoint.seq <= lastSent[d]
                        /\ \A r \in Range(q) : r.seq <= lastSent[d]
  BY DEF CreditOf, KnownOf, WindowOf, CoveredOf
<1>2. /\ q # <<>> => Head(q) \in Range(q) /\ Range(Tail(q)) \subseteq Range(q)
      /\ \A r \in Requests : Range(Append(q, r)) = Range(q) \cup {r}
  <2> HIDE DEF q
  <2> QED  BY <1>0, AskedIn
<1>3. ASSUME attached[d], lastSent[d] <= lastSent'[d]
      PROVE  checkpoint'.seq <= lastSent'[d]
  <2>1. CASE checkpoint' = checkpoint
    BY <1>0, <1>1, <1>3, <2>1
  <2>2. CASE q # <<>> /\ checkpoint'.seq = Head(q).seq
    <3>1. Head(q).seq <= lastSent[d] /\ Head(q).seq \in Nat
      BY <1>0, <1>1, <1>2, <1>3, <2>2
    <3> QED  BY <1>0, <1>3, <2>2, <3>1
  <2> QED  BY <2>1, <2>2
<1>4. ASSUME attached[d], lastSent[d] <= lastSent'[d], requests'[d] = q
      PROVE  \A r \in Range(requests'[d]) : r.seq <= lastSent'[d]
  BY <1>0, <1>1, <1>4
<1>5. ASSUME attached[d], lastSent[d] = lastSent'[d], q # <<>>, requests'[d] = Tail(q)
      PROVE  \A r \in Range(requests'[d]) : r.seq <= lastSent'[d]
  BY <1>1, <1>2, <1>5
<1>6. ASSUME NEW r \in Requests, attached[d], lastSent[d] = lastSent'[d], r.seq <= lastSent[d],
             requests'[d] = Append(q, r)
      PROVE  \A s \in Range(requests'[d]) : s.seq <= lastSent'[d]
  BY <1>1, <1>2, <1>6
<1>7. CASE Rested(d) \/ Delivered(d)
  <2>1. UNCHANGED <<attached[d], lastSent[d], requests[d]>>
    BY <1>7 DEF Rested, Delivered, Handle
  <2> QED  BY <1>0, <1>3, <1>4, <2>1
<1>8. CASE Fed(d)
  <2>1. attached[d] /\ lastSent[d] < lastSent'[d] /\ requests'[d] = q
    BY <1>8 DEF Fed
  <2> QED  BY <1>0, <1>3, <1>4, <2>1
<1>9. CASE Joined(d)
  <2>1. q # <<>> /\ requests'[d] = Tail(q) /\ lastSent'[d] = LatestSeq /\ checkpoint' = checkpoint
    BY <1>9 DEF Joined, session
  <2> QED  BY <1>0, <1>1, <1>2, <2>1
<1>10. CASE Served(d)
  <2>1. q # <<>> /\ requests'[d] = Tail(q) /\ UNCHANGED <<attached[d], lastSent[d]>>
    BY <1>10 DEF Served, Handle
  <2> QED  BY <1>0, <1>3, <1>5, <2>1
<1>11. CASE Wrote(d)
  <2> DEFINE h == Head(inbox[d])
  <2>1. /\ UNCHANGED <<attached[d], lastSent[d]>> /\ inbox[d] # <<>>
        /\ requests'[d] = q \/ requests'[d] = Append(q, AckRequest(h.seq))
    BY <1>11 DEF Wrote, Handle
  <2>2. h \in Pending(d)
    <3>1. inbox[d] \in Seq(Frames)
      BY ClientTypes
    <3>2. h \in Range(inbox[d])
      <4> DEFINE x == inbox[d]
      <4> HIDE DEF x
      <4>1. x \in Seq(Frames) /\ x # <<>> => Head(x) \in Range(x)
        BY TailIn
      <4> QED  BY <2>1, <3>1, <4>1 DEF x
    <3> QED  BY <3>2 DEF Pending
  <2>3. h.seq \in Nat /\ (attached[d] => h.seq <= lastSent[d])
    BY <1>1, <2>2, SeqTypes DEF SentOf
  <2> HIDE DEF h
  <2>4. AckRequest(h.seq) \in Requests /\ AckRequest(h.seq).seq = h.seq
    BY <2>3, RequestTypes DEF AckRequest
  <2>5. attached[d] /\ lastSent'[d] = lastSent[d] /\ h.seq <= lastSent[d]
    BY <2>1, <2>3
  <2>6. checkpoint'.seq <= lastSent'[d]
    BY <1>0, <1>3, <2>5
  <2>7. CASE requests'[d] = q
    BY <1>0, <1>4, <2>5, <2>6, <2>7
  <2>8. CASE requests'[d] = Append(q, AckRequest(h.seq))
    BY <1>6, <2>4, <2>5, <2>6, <2>8
  <2> QED  BY <2>1, <2>7, <2>8
<1>12. CASE Uploaded(d)
  <2> DEFINE r == CheckpointRequest(rendered[d], snapshot[d].body, Late(d))
  <2>1. UNCHANGED <<attached[d], lastSent[d]>> /\ requests'[d] = Append(q, r)
    BY <1>12 DEF Uploaded, Handle
  <2>2. r \in Requests /\ r.seq = rendered[d]
    BY <1>0, UploadType DEF CheckpointRequest
  <2> HIDE DEF r
  <2> QED  BY <1>0, <1>1, <1>3, <1>6, <2>1, <2>2 DEF SentOf
<1>13. CASE Cut(d) \/ Reached(d)
  BY <1>13 DEF Cut, Reached, Handle
<1> QED  BY <1>7, <1>8, <1>9, <1>10, <1>11, <1>12, <1>13 DEF Event

LEMMA CoveredStep ==
  ASSUME OwnCheckpoints, TypeOK, StreamInv, LinkInv, CreditInv, CoveredInv,
         ~CheckpointReplay => NoCheckpoints /\ NoCheckpoints', [Next]_vars
  PROVE  CoveredInv'
<1> SUFFICES ASSUME NEW d \in Clients
             PROVE  CoveredOf(d)'
  BY DEF CoveredInv
<1>1. CreditOf(d) /\ CoveredOf(d) /\ Event(d)
  BY ClientEvent DEF CreditInv, CoveredInv
<1>2. \/ checkpoint' = checkpoint
      \/ requests[d] # <<>> /\ checkpoint'.seq = Head(requests[d]).seq
  <2>1. CASE ~CheckpointReplay
    BY <2>1 DEF NoCheckpoints
  <2>2. CASE CheckpointReplay
    <3>1. \A c \in Clients : c = d
      BY <2>2 DEF OwnCheckpoints
    <3> QED  BY <3>1, CheckpointKept
  <2> QED  BY <2>1, <2>2
<1> QED  BY <1>1, <1>2, CoveredClient

LEMMA LiveSame ==
  ASSUME TypeOK, NEW d \in Clients, LiveOf(d), Grown,
         UNCHANGED <<Coming(d), attached[d], lastSent[d], received[d]>>
  PROVE  LiveOf(d)'
<1>1. \A o \in outputs' : o <= lastSent[d] => o \in outputs
  <2>1. lastSent[d] \in Nat /\ LatestSeq \in Nat /\ lastSent[d] <= LatestSeq
    BY ClientTypes DEF TypeOK, HandlesTypeOK
  <2> QED  BY <2>1 DEF Grown
<1>2. Live(d)' = Live(d) /\ (Barred(d)' <=> Barred(d))
  BY DEF Live, Barred
<1> QED  BY <1>1, <1>2 DEF LiveOf

LEMMA LiveFed ==
  ASSUME TypeOK, NEW d \in Clients, LiveOf(d), SentOf(d), CoveredOf(d), Grown, Fed(d)
  PROVE  LiveOf(d)'
<1>1. PICK s \in outputs' :
        /\ attached[d] /\ s \in Nat /\ lastSent[d] < s
        /\ checkpoint.seq <= lastSent[d] => \A o \in outputs' : o <= lastSent[d] \/ s <= o
        /\ Coming(d)' = Append(Coming(d), OutputFrame(s)) /\ lastSent'[d] = s
        /\ UNCHANGED <<attached[d], Viewer(d)>>
  BY DEF Fed
<1> DEFINE e == OutputFrame(s)
<1>2. e \in Frames /\ e.seq = s /\ e.kind = "output"
  BY <1>1, FrameTypes DEF OutputFrame
<1>3. Coming(d)' = Append(Coming(d), e)
  BY <1>1
<1> HIDE DEF e
<1>4. /\ Range(Coming(d)') = Range(Coming(d)) \cup {e}
      /\ \A f, g : Precedes(Coming(d)', f, g) <=>
           (Precedes(Coming(d), f, g) \/ (f \in Range(Coming(d)) /\ g = e))
  <2>1. \A q \in Seq(Frames) :
          /\ Range(Append(q, e)) = Range(q) \cup {e}
          /\ \A f, g : Precedes(Append(q, e), f, g) <=>
               (Precedes(q, f, g) \/ (f \in Range(q) /\ g = e))
    BY <1>2, AppendIn
  <2> QED  BY <1>3, <2>1, ClientTypes
<1>5. attached[d] /\ received'[d] = received[d]
  BY <1>1 DEF Viewer
<1>6. /\ lastSent[d] \in Nat /\ LatestSeq \in Nat /\ lastSent[d] <= LatestSeq
      /\ \A o \in outputs' : o \in Nat /\ (o <= lastSent[d] => o \in outputs)
      /\ \A f \in Range(Coming(d)) : f.seq \in Nat /\ f.seq <= lastSent[d]
  <2>1. lastSent[d] \in Nat /\ LatestSeq \in Nat /\ lastSent[d] <= LatestSeq
    BY ClientTypes DEF TypeOK, HandlesTypeOK
  <2> QED  BY <2>1, SeqTypes DEF Grown, SentOf, Pending
<1>7. Live(d)' = Live(d) \cup {s} /\ (Barred(d)' <=> Barred(d))
  BY <1>2, <1>4 DEF Live, Barred
<1>8. \A o \in outputs' : o <= s => (o <= lastSent[d] /\ o \in outputs) \/ o = s
  BY <1>1, <1>5, <1>6 DEF CoveredOf
<1>9. ASSUME NEW f \in Range(Coming(d)'), NEW g \in Range(Coming(d)'), Precedes(Coming(d)', f, g)
      PROVE  /\ f.kind = "output" => g.kind = "output" /\ f.seq < g.seq
             /\ f.kind = "attached" => g.kind = "output"
  <2>1. CASE Precedes(Coming(d), f, g)
    BY <1>5, <2>1, PrecedesIn DEF LiveOf
  <2>2. CASE f \in Range(Coming(d)) /\ g = e
    BY <1>1, <1>2, <1>6, <2>2
  <2> QED  BY <1>4, <1>9, <2>1, <2>2
<1>10. ASSUME NEW g \in Range(Coming(d)'), NEW o \in outputs', g.kind = "attached", g.seq < o, o <= s
       PROVE  o \in Live(d)'
  <2>1. g \in Range(Coming(d))
    BY <1>2, <1>4, <1>10
  <2> QED  BY <1>5, <1>7, <1>8, <1>10, <2>1 DEF LiveOf
<1>11. ASSUME ~Barred(d)'
       PROVE  /\ \A f \in Range(Coming(d)') : f.kind = "output"
              /\ \A o \in outputs' : received[d] < o /\ o <= s => o \in Live(d)'
  BY <1>2, <1>4, <1>5, <1>7, <1>8, <1>11 DEF LiveOf
<1> QED  BY <1>1, <1>5, <1>9, <1>10, <1>11 DEF LiveOf

LEMMA LiveJoined ==
  ASSUME TypeOK, NEW d \in Clients, Joined(d)
  PROVE  LiveOf(d)'
<1> DEFINE answer == AttachedFrames(Head(requests[d]).seq)
           e == AttachedFrame(LatestSeq)
<1>1. /\ requests[d] # <<>> /\ Coming(d)' = answer /\ lastSent'[d] = LatestSeq /\ outputs' = outputs
  BY DEF Joined, session
<1>2. Head(requests[d]).seq \in Nat
  BY <1>1, ClientTypes, HeadRequest
<1>3. /\ answer \in Seq(Frames) /\ \A f \in Range(answer) : f.kind # "output"
      /\ \E p \in Seq(Frames) : answer = Append(p, e) /\ \A f \in Range(p) : f.kind \in {"reset", "replay"}
  BY <1>2, AnswerKnown
<1>4. PICK p \in Seq(Frames) : answer = Append(p, e) /\ \A f \in Range(p) : f.kind \in {"reset", "replay"}
  BY <1>3
<1>5. LatestSeq \in Nat /\ outputs \subseteq 1..LatestSeq /\ e \in Frames
      /\ e.kind = "attached" /\ e.seq = LatestSeq
  <2>1. LatestSeq \in Nat /\ outputs \subseteq 1..LatestSeq
    BY DEF TypeOK, SessionTypeOK, LatestSeq
  <2> QED  BY <2>1, FrameTypes DEF AttachedFrame
<1> HIDE DEF answer, e
<1>6. /\ Range(answer) = Range(p) \cup {e}
      /\ \A f, g : Precedes(answer, f, g) <=> (Precedes(p, f, g) \/ (f \in Range(p) /\ g = e))
  BY <1>4, <1>5, AppendIn
<1>7. \A f, g : Precedes(answer, f, g) => f.kind \in {"reset", "replay"}
  BY <1>4, <1>6, PrecedesIn
<1>8. Barred(d)'
  BY <1>1, <1>5, <1>6 DEF Barred
<1>9. \A g \in Range(answer), o \in outputs : g.kind = "attached" => ~ (g.seq < o)
  <2>1. \A o \in outputs : ~ (LatestSeq < o)
    BY <1>5
  <2>2. \A g \in Range(answer) : g.kind = "attached" => g = e
    BY <1>4, <1>6
  <2> QED  BY <1>5, <2>1, <2>2
<1> QED  BY <1>1, <1>7, <1>8, <1>9 DEF LiveOf

LEMMA LiveDelivered ==
  ASSUME TypeOK, NEW d \in Clients, LiveOf(d), Delivered(d)
  PROVE  LiveOf(d)'
<1> DEFINE h == Head(Coming(d))
           fresh == h.kind # "output" \/ h.seq > received[d]
           shown == h.kind # "attached" /\ fresh /\ Takes(d, h)
<1>1. /\ attached[d] /\ Coming(d) # <<>> /\ Coming(d)' = Tail(Coming(d))
      /\ received'[d] = IF h.kind = "attached" \/ (h.kind = "output" /\ fresh) THEN h.seq ELSE received[d]
      /\ inbox'[d] = IF shown THEN Append(inbox[d], h) ELSE inbox[d]
      /\ UNCHANGED <<session, Handle(d)>>
  BY DEF Delivered
<1>2. UNCHANGED <<attached[d], lastSent[d], outputs>>
  BY <1>1 DEF Handle, session
<1>3. /\ h \in Frames /\ Range(Coming(d)) = {h} \cup Range(Coming(d)')
      /\ \A f, g : Precedes(Coming(d), f, g) <=>
           (Precedes(Coming(d)', f, g) \/ (f = h /\ g \in Range(Coming(d)')))
  BY <1>1, DeliveredQueues
<1>4. /\ h.kind = "attached" => received'[d] = h.seq
      /\ h.kind = "output" => received'[d] = h.seq \/ (received'[d] = received[d] /\ h.seq <= received[d])
      /\ h.kind \notin {"attached", "output"} => received'[d] = received[d]
  BY <1>1, <1>3, ClientTypes DEF Frames
<1>5. h.seq \in Nat /\ received[d] \in Nat /\ outputs \subseteq Nat
  BY <1>3, ClientTypes DEF Frames, TypeOK, SessionTypeOK
<1> HIDE DEF h, fresh, shown
<1>6. \A f, g \in Range(Coming(d)) : Precedes(Coming(d), f, g) =>
         /\ f.kind = "output" => g.kind = "output" /\ f.seq < g.seq
         /\ f.kind = "attached" => g.kind = "output"
  BY <1>1 DEF LiveOf
<1>7. \A g \in Range(Coming(d)') : /\ h.kind = "output" => g.kind = "output" /\ h.seq < g.seq
                                   /\ h.kind = "attached" => g.kind = "output"
  BY <1>3, <1>6
<1>8. \A o \in Live(d) : o \in Live(d)' \/ (h.kind = "output" /\ o = h.seq)
  BY <1>3 DEF Live
<1>9. ASSUME NEW g \in Range(Coming(d)'), NEW o \in outputs, g.kind = "attached", g.seq < o, o <= lastSent[d]
      PROVE  o \in Live(d)'
  <2>1. o \in Live(d) /\ h.kind # "output"
    BY <1>1, <1>3, <1>7, <1>9 DEF LiveOf
  <2> QED  BY <1>8, <2>1
<1>10. ASSUME ~Barred(d)'
       PROVE  /\ \A f \in Range(Coming(d)') : f.kind = "output"
              /\ \A o \in outputs : received'[d] < o /\ o <= lastSent[d] => o \in Live(d)'
  <2>1. CASE h.kind = "attached"
    <3>1. \A o \in outputs : h.seq < o /\ o <= lastSent[d] => o \in Live(d)
      BY <1>1, <1>3, <2>1 DEF LiveOf
    <3> QED  BY <1>4, <1>7, <1>8, <2>1, <3>1
  <2>2. CASE h.kind # "attached"
    <3>1. ~Barred(d)
      BY <1>3, <1>10, <2>2 DEF Barred
    <3>2. /\ \A f \in Range(Coming(d)) : f.kind = "output"
          /\ \A o \in outputs : received[d] < o /\ o <= lastSent[d] => o \in Live(d)
      BY <1>1, <3>1 DEF LiveOf
    <3>3. h.kind = "output"
      BY <1>3, <3>2
    <3>4. ASSUME NEW o \in outputs, received'[d] < o, o <= lastSent[d]
          PROVE  o \in Live(d)'
      <4>1. h.seq < o
        BY <1>4, <1>5, <3>3, <3>4
      <4>2. CASE received[d] < o
        BY <1>5, <1>8, <3>2, <3>4, <4>1, <4>2
      <4>3. CASE ~ (received[d] < o)
        BY <1>1, <1>4, <1>5, <3>3, <3>4, <4>1, <4>3 DEF fresh
      <4> QED  BY <4>2, <4>3
    <3> QED  BY <1>3, <3>2, <3>4
  <2> QED  BY <2>1, <2>2
<1>11. \A f, g \in Range(Coming(d)') : Precedes(Coming(d)', f, g) =>
         /\ f.kind = "output" => g.kind = "output" /\ f.seq < g.seq
         /\ f.kind = "attached" => g.kind = "output"
  BY <1>3, <1>6
<1> QED  BY <1>2, <1>9, <1>10, <1>11 DEF LiveOf

LEMMA LiveStep ==
  ASSUME TypeOK, StreamInv, LinkInv, CreditInv, CoveredInv, LiveInv, [Next]_vars
  PROVE  LiveInv'
<1> SUFFICES ASSUME NEW d \in Clients
             PROVE  LiveOf(d)'
  BY DEF LiveInv
<1>0. /\ LiveOf(d) /\ CoveredOf(d) /\ (attached[d] => SentOf(d)) /\ Grown /\ Event(d)
  BY ClientEvent, GrownStep DEF LiveInv, CoveredInv, CreditInv, CreditOf, WindowOf
<1>1. CASE Rested(d) \/ Served(d) \/ Uploaded(d) \/ Wrote(d)
  <2>1. UNCHANGED <<attached[d], lastSent[d], Coming(d), received[d]>>
    BY <1>1 DEF Rested, Served, Uploaded, Wrote, Handle, Viewer
  <2> QED  BY <1>0, <2>1, LiveSame
<1>2. CASE Cut(d) \/ Reached(d)
  <2>1. ~attached'[d]
    BY <1>2 DEF Cut, Reached, Handle
  <2> QED  BY <2>1 DEF LiveOf
<1>3. CASE Fed(d)
  <2>1. attached[d]
    BY <1>3 DEF Fed
  <2> QED  BY <1>0, <1>3, <2>1, LiveFed
<1>4. CASE Joined(d)
  BY <1>4, LiveJoined
<1>5. CASE Delivered(d)
  BY <1>0, <1>5, LiveDelivered
<1> QED  BY <1>0, <1>1, <1>2, <1>3, <1>4, <1>5 DEF Event

LEMMA LiveInit == Init => LiveInv /\ CoveredInv
<1> SUFFICES ASSUME Init, NEW d \in Clients
             PROVE  LiveOf(d) /\ CoveredOf(d)
  BY DEF LiveInv, CoveredInv
<1>1. Coming(d) = <<>> /\ requests[d] = <<>> /\ lastSent[d] = 0 /\ checkpoint.seq = -1 /\ outputs = {}
  BY DEF Init, Coming, NoCheckpoint
<1>2. Range(Coming(d)) = {} /\ Range(requests[d]) = {}
  BY <1>1, NoneIn
<1> QED  BY <1>1, <1>2 DEF LiveOf, CoveredOf

\* What is received next follows what has been received.
LEMMA NextReceived ==
  ASSUME TypeOK, StreamInv, LinkInv, CreditInv, LiveInv, [Next]_vars,
         NEW c \in Clients, out[c] # <<>>, Head(out[c]).kind = "output", received'[c] > received[c],
         NEW o \in outputs
  PROVE  o <= received[c] \/ o >= received'[c]
<1>1. attached[c] /\ out[c] \in Seq(Frames) /\ reply[c] \in Seq(Frames) /\ held[c] \in Seq(Frames)
  BY ComingType DEF LinkInv, LinkOf
<1>2. LiveOf(c) /\ SentOf(c) /\ Event(c)
  BY <1>1, ClientEvent DEF LiveInv, CreditInv, CreditOf, WindowOf
<1>3. received[c] \in Nat /\ o \in Nat
  BY ClientTypes DEF TypeOK, SessionTypeOK
<1>4. ~ UNCHANGED received[c]
  BY <1>3
<1>5. Delivered(c)
  BY <1>1, <1>2, <1>4 DEF Event, Rested, Fed, Joined, Cut, Served, Wrote, Uploaded, Reached, Viewer
<1> DEFINE C == Coming(c)
           h == Head(C)
<1>6. h = Head(out[c]) /\ C # <<>> /\ C \in Seq(Frames)
  <2>1. \A p, q, r \in Seq(Frames) : p # <<>> => Head((p \o q) \o r) = Head(p) /\ (p \o q) \o r # <<>>
    OBVIOUS
  <2> QED  BY <1>1, <2>1, ClientTypes DEF Coming
<1>7. h.kind = "output" /\ received'[c] = h.seq
  BY <1>4, <1>5, <1>6 DEF Delivered
<1>8. /\ h \in Frames /\ Range(C) = {h} \cup Range(Tail(C))
      /\ \A f, g : Precedes(C, f, g) <=> (Precedes(Tail(C), f, g) \/ (f = h /\ g \in Range(Tail(C))))
  <2> HIDE DEF C
  <2> QED  BY <1>6, TailIn
<1>9. h.seq \in Nat /\ h.seq <= lastSent[c] /\ lastSent[c] \in Nat
  BY <1>2, <1>8, ClientTypes DEF Frames, SentOf, Pending
<1>10. \A g \in Range(Tail(C)) : g.kind = "output" /\ h.seq < g.seq
  BY <1>1, <1>2, <1>7, <1>8 DEF LiveOf
<1>11. ~Barred(c)
  BY <1>7, <1>8, <1>10 DEF Barred
<1>12. \A x \in Live(c) : h.seq <= x
  <2>1. \A g \in Range(C) : g.seq \in Nat
    BY <1>1, SeqTypes DEF Pending
  <2>2. \A g \in Range(C) : h.seq <= g.seq
    <3> HIDE DEF C, h
    <3> QED  BY <1>8, <1>9, <1>10, <2>1
  <2> QED  BY <2>2 DEF Live
<1>13. received[c] < o /\ o <= lastSent[c] => o \in Live(c)
  BY <1>1, <1>2, <1>11 DEF LiveOf
<1> HIDE DEF h, C
<1> QED  BY <1>3, <1>7, <1>9, <1>12, <1>13

\* Live output is received without a hole, whatever connections break, unless
\* somebody else uploads checkpoints.
THEOREM SkipsNothing == ASSUME OwnCheckpoints PROVE Spec => NoChunkSkipped
<1> DEFINE Inv == TypeOK /\ StreamInv /\ LinkInv /\ CreditInv /\ ReplyInv /\ CoveredInv /\ LiveInv
                    /\ (~CheckpointReplay => NoCheckpoints)
           Step == \A c \in Clients :
                     out[c] # <<>> /\ Head(out[c]).kind = "output" /\ received'[c] > received[c] =>
                       \A o \in outputs : o <= received[c] \/ o >= received'[c]
<1>0. Init => NoCheckpoints
  BY DEF Init, NoCheckpoints
<1>1. Init => Inv
  BY <1>0, TypeInit, StreamInvInit, LinkInit, CreditInit, LiveInit
<1>2. Inv /\ [Next]_vars => Inv'
  BY TypeStep, StreamInvStep, LinkStep, CreditStep, ReplyStep, CoveredStep, LiveStep, RequestsStep
<1>3. Inv /\ [Next]_vars => Step
  BY NextReceived
<1>4. Spec => [][Step]_vars
  BY <1>1, <1>2, <1>3, PTL DEF Spec
<1> QED  BY <1>4 DEF NoChunkSkipped

(***************************************************************************)
(* The terminals read a log (StreamReader).                                *)
(***************************************************************************)

\* Nothing of the output has been evicted, and no terminal has lost more than one
\* connection.
Undisturbed == outputs \subseteq retained /\ \A c \in Terminals : drops[c] <= 1

\* Nothing is missing before anything that is or will be on the screen ...
StartOf(d) ==
  /\ \A y \in Points(d), o \in outputs : o <= y => o \in Eventual(d)
  /\ \A y \in Shown(d), o \in outputs : o <= y => o \in Shown(d)
  /\ \A k \in DOMAIN inbox[d] : Full(inbox[d][k]) =>
       \A o \in outputs : o < inbox[d][k].seq => o \in Content(d, k - 1)
\* ... and what has been sent, since a reset if one is to come, is on its way.
Resetting(d) == \E f \in Range(Coming(d)) : f.kind = "reset"
SupplyOf(d) ==
  attached[d] => \A o \in outputs : o <= lastSent[d] =>
    o \in Brought(d) \/ (~Resetting(d) /\ o \in Eventual(d))
StartInv == \A d \in Terminals : StartOf(d) /\ SupplyOf(d)

\* A frame put into the inbox.
LEMMA Enqueued ==
  ASSUME TypeOK, NEW d \in Clients, NEW h \in Frames, inbox'[d] = Append(inbox[d], h),
         UNCHANGED screen[d],
         h.kind = "reset" => ~Full(h) /\ rendered'[d] = 0,
         h.kind # "reset" => rendered'[d] = rendered[d]
  PROVE  /\ Len(inbox[d]) \in Nat /\ DOMAIN inbox[d] = 1..Len(inbox[d])
         /\ DOMAIN inbox'[d] = 1..(Len(inbox[d]) + 1)
         /\ inbox'[d][Len(inbox[d]) + 1] = h
         /\ \A l \in 1..Len(inbox[d]) : inbox'[d][l] = inbox[d][l]
         /\ Shown(d)' = Shown(d)
         /\ \A n \in 0..Len(inbox[d]) : Content(d, n)' = Content(d, n)
         /\ h.kind = "reset" => Points(d)' = {} /\ ~Unbroken(d)'
         /\ h.kind # "reset" =>
              /\ Points(d)' = Points(d) \cup {h.seq}
              /\ Eventual(d)' = Eventual(d) \cup (IF Full(h) THEN {h.seq} ELSE {})
              /\ Unbroken(d)' <=> Unbroken(d)
<1> DEFINE q == inbox[d]
           a == Append(q, h)
           N == Len(q)
<1>1. q \in Seq(Frames) /\ inbox'[d] = a
  BY ClientTypes
<1>2. Shown(d)' = Shown(d)
  BY DEF Shown
<1> HIDE DEF q
<1>3. /\ N \in Nat /\ DOMAIN q = 1..N /\ DOMAIN a = 1..(N + 1) /\ Len(a) = N + 1
      /\ a[N + 1] = h /\ \A l \in 1..N : a[l] = q[l]
  BY <1>1, AppendProperties, LenProperties
<1>4. 1 \in 1..(N + 1) /\ N + 1 \in 0..(N + 1)
  BY <1>3
<1>5. UncutIn(a, 1, N + 1) <=> h.kind # "reset" /\ UncutIn(q, 1, N)
  BY <1>1, <1>4, UncutAppend
<1>6. /\ \A n \in 0..N : ContentIn(a, Shown(d), n) = ContentIn(q, Shown(d), n)
      /\ h.kind # "reset" => ContentIn(a, Shown(d), N + 1) =
           ContentIn(q, Shown(d), N) \cup (IF Full(h) THEN {h.seq} ELSE {})
  BY <1>1, ContentAppend
<1>7. LaterIn(a) = IF h.kind = "reset" THEN {} ELSE LaterIn(q) \cup {h.seq}
  BY <1>1, LaterAppend
<1> HIDE DEF a, N
<1>8. Unbroken(d)' <=> h.kind # "reset" /\ Unbroken(d)
  BY <1>1, <1>3, <1>5 DEF Unbroken, q, N
<1>9. \A n \in 0..N : Content(d, n)' = Content(d, n)
  BY <1>1, <1>2, <1>6 DEF Content, q
<1>10. h.kind # "reset" => Eventual(d)' = Eventual(d) \cup (IF Full(h) THEN {h.seq} ELSE {})
  BY <1>1, <1>2, <1>3, <1>6 DEF Eventual, Content, q, N
<1>11. Points(d)' = PointsIn(a, Shown(d), rendered'[d]) /\ Points(d) = PointsIn(q, Shown(d), rendered[d])
  BY <1>1, <1>2 DEF Points, q
<1>12. h.kind = "reset" => Points(d)' = {}
  BY <1>3, <1>5, <1>7, <1>11 DEF PointsIn
<1>13. h.kind # "reset" => Points(d)' = Points(d) \cup {h.seq}
  BY <1>3, <1>5, <1>7, <1>11 DEF PointsIn, N
<1> QED  BY <1>1, <1>2, <1>3, <1>8, <1>9, <1>10, <1>12, <1>13 DEF q, N

\* A step that leaves the terminal alone.
LEMMA StartSame ==
  ASSUME TypeOK, NEW d \in Clients, KnownOf(d), Grown, DrawnOf(d), StartOf(d),
         UNCHANGED <<rendered[d], inbox[d], screen[d]>>
  PROVE  StartOf(d)' /\ Points(d)' = Points(d) /\ Eventual(d)' = Eventual(d)
<1>1. /\ inbox'[d] = inbox[d] /\ Shown(d)' = Shown(d)
      /\ \A n : Content(d, n)' = Content(d, n)
      /\ Points(d)' = Points(d) /\ Eventual(d)' = Eventual(d)
  BY DEF Shown, Content, Points, Eventual
<1>2. LatestSeq \in Nat /\ \A y \in Nat, o \in outputs' : y <= LatestSeq /\ o <= y => o \in outputs
  BY ClientTypes DEF Grown
<1>3. \A y \in Points(d) : y \in Nat /\ y <= LatestSeq
  BY PointsKnown
<1>4. \A y \in Shown(d) : y \in Nat /\ y <= LatestSeq
  <2>1. \A o \in outputs : o \in Nat /\ o <= LatestSeq
    BY <1>2 DEF TypeOK, SessionTypeOK
  <2> QED  BY <2>1 DEF DrawnOf
<1>5. ASSUME NEW k \in DOMAIN inbox[d]
      PROVE  /\ inbox[d][k].seq \in Nat
             /\ \A o \in outputs' : o < inbox[d][k].seq => o \in outputs
  <2>1. inbox[d][k] \in Pending(d)
    BY ClientTypes, RangeOf DEF Pending
  <2>2. inbox[d][k].seq \in Nat /\ inbox[d][k].seq <= LatestSeq
    BY <2>1, SeqTypes DEF KnownOf
  <2> DEFINE n == inbox[d][k].seq
  <2> HIDE DEF n
  <2>3. n \in Nat /\ n <= LatestSeq => \A o \in outputs' : o < n => o \in outputs
    BY <1>2 DEF Grown
  <2> QED  BY <2>2, <2>3 DEF n
<1> QED  BY <1>1, <1>2, <1>3, <1>4, <1>5 DEF StartOf

LEMMA SupplySame ==
  ASSUME TypeOK, NEW d \in Clients, Grown, SupplyOf(d),
         attached'[d] => attached[d] /\ UNCHANGED lastSent[d], UNCHANGED Coming(d),
         Eventual(d)' = Eventual(d)
  PROVE  SupplyOf(d)'
<1>1. Brought(d)' = Brought(d) /\ (Resetting(d)' <=> Resetting(d))
  BY DEF Brought, Resetting
<1>2. \A o \in outputs' : o <= lastSent[d] => o \in outputs
  BY ClientTypes DEF Grown, TypeOK, HandlesTypeOK
<1> QED  BY <1>1, <1>2 DEF SupplyOf

\* The next chunk of output is sent.
LEMMA SupplyFed ==
  ASSUME TypeOK, NEW d \in Clients, Grown, checkpoint = NoCheckpoint, SupplyOf(d), Fed(d),
         Eventual(d)' = Eventual(d)
  PROVE  SupplyOf(d)'
<1>1. PICK s \in outputs' :
        /\ attached[d] /\ s \in Nat
        /\ \A o \in outputs' : o <= lastSent[d] \/ s <= o
        /\ Coming(d)' = Append(Coming(d), OutputFrame(s)) /\ lastSent'[d] = s
        /\ UNCHANGED attached[d]
  <2>1. checkpoint.seq <= lastSent[d]
    BY ClientTypes DEF NoCheckpoint
  <2> QED  BY <2>1 DEF Fed
<1> DEFINE e == OutputFrame(s)
<1>2. e \in Frames /\ e.seq = s /\ e.kind = "output" /\ Full(e)
  BY <1>1, FrameTypes DEF OutputFrame, Full
<1>3. Coming(d)' = Append(Coming(d), e)
  BY <1>1
<1> HIDE DEF e
<1>4. Range(Coming(d)') = Range(Coming(d)) \cup {e}
  BY <1>2, <1>3, AppendIn, ClientTypes
<1>5. Brought(d)' = Brought(d) \cup {s} /\ (Resetting(d)' <=> Resetting(d))
  BY <1>2, <1>4 DEF Brought, Resetting
<1>6. \A o \in outputs' : o \in Nat /\ (o <= lastSent[d] => o \in outputs)
  BY ClientTypes DEF Grown, TypeOK, HandlesTypeOK
<1>7. \A o \in outputs' : o <= s => (o <= lastSent[d] /\ o \in outputs) \/ o = s
  BY <1>1, <1>6
<1> QED  BY <1>1, <1>5, <1>7 DEF SupplyOf

\* A client attaches and nothing has been evicted.
LEMMA SupplyJoined ==
  ASSUME TypeOK, NEW d \in Clients, d \in Terminals, drops[d] <= 1, KnownOf(d), DrawnOf(d),
         AgreeOf(d), checkpoint = NoCheckpoint, outputs \subseteq retained, Joined(d),
         StartOf(d), Eventual(d)' = Eventual(d)
  PROVE  SupplyOf(d)'
<1> DEFINE r == Head(requests[d])
           after == r.seq
           answer == AttachedFrames(after)
<1>1. /\ ~attached[d] /\ link[d] = "up" /\ Coming(d)' = answer /\ lastSent'[d] = LatestSeq
      /\ requests[d] # <<>> /\ r.kind = "attach"
      /\ UNCHANGED outputs
  BY DEF Joined, session
<1>2. r \in Range(requests[d]) /\ after \in Nat
  <2>1. r \in Range(requests[d])
    BY <1>1, TailIn, ClientTypes
  <2> QED  BY <2>1, SeqTypes
<1>3. Unlost(d)
  <2>1. drops[d] \in Nat /\ drops[d] <= 1
    BY ClientTypes
  <2> QED  BY <1>1, <2>1 DEF Unlost
<1>4. /\ committed[d] = rendered[d] /\ (committed[d] # 0 => Unbroken(d))
      /\ after <= committed[d] /\ rendered[d] \in Nat
  BY <1>1, <1>2, <1>3, ClientTypes DEF AgreeOf
<1> HIDE DEF r, after
<1>5. /\ \A f \in Range(answer) : f.kind = "reset" => ReplayReset(after)
      /\ \A s \in retained : Wanted(s, after) => ReplayFrame(s) \in Range(answer)
  <2>1. ReplayFrame(0).kind = "replay" /\ \A s : ReplayFrame(s).kind = "replay"
    BY DEF ReplayFrame
  <2>2. AttachedFrame(LatestSeq).kind = "attached"
    BY DEF AttachedFrame
  <2> QED  BY <1>2, <2>1, <2>2, AnswerShape
<1> HIDE DEF answer
<1>6. \A o \in outputs : Wanted(o, after) => o \in Brought(d)'
  <2>1. \A o \in outputs : ReplayFrame(o).seq = o /\ Full(ReplayFrame(o))
    BY DEF ReplayFrame, Full
  <2> QED  BY <1>1, <1>5, <2>1 DEF Brought
<1>7. ASSUME NEW o \in outputs, ~Wanted(o, after)
      PROVE  o \in Eventual(d) /\ ~Resetting(d)'
  <2>1. o \in Nat /\ o > 0 /\ ~ReplayReset(after) /\ o <= after
    <3>1. o \in Nat /\ o > 0
      BY ClientTypes DEF TypeOK, SessionTypeOK
    <3> QED  BY <1>2, <1>7, <3>1 DEF Wanted
  <2>2. rendered[d] # 0 /\ o <= rendered[d] /\ Unbroken(d)
    BY <1>2, <1>4, <2>1
  <2>3. rendered[d] \in Points(d)
    BY <2>2, PointsKnown
  <2>4. ~Resetting(d)'
    BY <1>1, <1>5, <2>1 DEF Resetting
  <2> QED  BY <2>2, <2>3, <2>4 DEF StartOf
<1> QED  BY <1>1, <1>6, <1>7 DEF SupplyOf

\* A frame is delivered.
LEMMA StartDelivered ==
  ASSUME TypeOK, NEW d \in Clients, d \in Terminals, SentOf(d), QueueOf(d), KnownOf(d), DrawnOf(d),
         StartOf(d), SupplyOf(d), Delivered(d)
  PROVE  StartOf(d)' /\ SupplyOf(d)'
<1> DEFINE h == Head(Coming(d))
           fresh == h.kind # "output" \/ h.seq > received[d]
           shown == h.kind # "attached" /\ fresh /\ Takes(d, h)
           q == inbox[d]
           N == Len(q)
<1>0. BodiesOf(d) /\ RisingOf(d) /\ ThroughOf(d)
  BY DEF QueueOf
<1>1. /\ attached[d] /\ Coming(d) # <<>> /\ Coming(d)' = Tail(Coming(d))
      /\ inbox'[d] = IF shown THEN Append(q, h) ELSE q
      /\ rendered'[d] = IF h.kind = "reset" THEN 0 ELSE rendered[d]
      /\ UNCHANGED <<attached[d], lastSent[d], outputs, screen[d]>>
  BY DEF Delivered, Handle, session
<1>2. /\ h \in Frames /\ Range(Coming(d)) = {h} \cup Range(Coming(d)')
      /\ \A f \in Range(Coming(d)') : Precedes(Coming(d), h, f)
  <2>1. inbox'[d] = q \/ inbox'[d] = Append(q, h)
    BY <1>1
  <2> QED  BY <1>1, <2>1, DeliveredQueues
<1>3. /\ h \in Pending(d) /\ h.seq \in Nat /\ h.seq <= lastSent[d] /\ lastSent[d] \in Nat
      /\ rendered[d] \in Nat /\ received[d] \in Nat
      /\ Full(h) => Stream(h) /\ h.seq \in outputs
      /\ h.kind # "reset" /\ h.kind # "attached" => Stream(h)
      /\ Stream(h) => h.kind # "reset" /\ h.kind # "attached"
  BY <1>0, <1>2, FullFrames, ClientTypes DEF Pending, SentOf
<1>4. \A f \in Range(Coming(d)') : f.kind # "reset" /\ (Stream(f) => f.seq \in Nat /\ h.seq < f.seq)
  BY <1>0, <1>2, SeqTypes DEF RisingOf, Pending
<1>5. ~Resetting(d)' /\ (Resetting(d) <=> h.kind = "reset")
  BY <1>2, <1>4 DEF Resetting
<1>6. Brought(d) = Brought(d)' \cup (IF Full(h) THEN {h.seq} ELSE {})
  BY <1>2 DEF Brought
<1>7. Stream(h) => fresh
  BY <1>0, <1>1, <1>2, <1>3 DEF ThroughOf, Stream
<1>8. \A o \in outputs : o <= lastSent[d] =>
        o \in Brought(d) \/ (h.kind # "reset" /\ o \in Eventual(d))
  BY <1>1, <1>5 DEF SupplyOf
<1>9. /\ \A y \in Points(d), o \in outputs : o <= y => o \in Eventual(d)
      /\ \A y \in Shown(d), o \in outputs : o <= y => o \in Shown(d)
      /\ \A k \in DOMAIN inbox[d] : Full(inbox[d][k]) =>
           \A o \in outputs : o < inbox[d][k].seq => o \in Content(d, k - 1)
      /\ \A o \in outputs : o \in Nat /\ o > 0
  BY ClientTypes DEF StartOf, TypeOK, SessionTypeOK
<1> HIDE DEF fresh
\* Not shown.
<1>10. CASE ~shown
  <2>1. h.kind # "reset" /\ UNCHANGED <<inbox[d], rendered[d]>>
    <3>1. h.kind # "reset"
      BY <1>10 DEF Takes, fresh
    <3> QED  BY <1>1, <1>10, <3>1
  <2>2. /\ Shown(d)' = Shown(d) /\ \A n : Content(d, n)' = Content(d, n)
        /\ Points(d)' = Points(d) /\ Eventual(d)' = Eventual(d)
    BY <1>1, <2>1 DEF Shown, Content, Points, Eventual
  <2>3. StartOf(d)'
    BY <1>1, <1>9, <2>1, <2>2 DEF StartOf
  <2>4. ASSUME Full(h)
        PROVE  h.seq \in Eventual(d)
    <3>1. h.seq \in outputs /\ ~Takes(d, h)
      BY <1>3, <1>7, <1>10, <2>4
    <3>2. CASE h.seq \in Queued(d)
      BY <1>0, <3>1, <3>2, QueuedOf
    <3>3. CASE h.seq <= rendered[d]
      <4>1. rendered[d] # 0
        BY <1>3, <1>9, <3>1, <3>3
      <4>2. rendered[d] \in Points(d)
        BY <4>1, PointsKnown DEF DrawnOf
      <4> QED  BY <1>9, <3>1, <3>3, <4>2
    <3> QED  BY <1>3, <3>1, <3>2, <3>3 DEF Takes
  <2>5. \A o \in outputs : o <= lastSent[d] => o \in Brought(d)' \/ o \in Eventual(d)
    BY <1>6, <1>8, <2>4
  <2> QED  BY <1>1, <1>5, <2>2, <2>3, <2>5 DEF SupplyOf
\* A reset.
<1>20. CASE shown /\ h.kind = "reset"
  <2>1. ~Full(h) /\ rendered'[d] = 0 /\ inbox'[d] = Append(inbox[d], h)
    BY <1>1, <1>3, <1>20
  <2>2. /\ N \in Nat /\ DOMAIN q = 1..N /\ DOMAIN inbox'[d] = 1..(N + 1)
        /\ inbox'[d][N + 1] = h /\ \A l \in 1..N : inbox'[d][l] = q[l]
        /\ Shown(d)' = Shown(d) /\ \A n \in 0..N : Content(d, n)' = Content(d, n)
        /\ Points(d)' = {}
    BY <1>1, <1>2, <1>20, <2>1, Enqueued
  <2> HIDE DEF h, N, q
  <2>3. ASSUME NEW k \in 1..(N + 1), Full(inbox'[d][k]), NEW o \in outputs, o < inbox'[d][k].seq
        PROVE  o \in Content(d, k - 1)'
    <3>1. k # N + 1
      BY <2>1, <2>2, <2>3
    <3>2. k \in 1..N /\ k - 1 \in 0..N
      BY <2>2, <3>1
    <3>3. o \in Content(d, k - 1)
      BY <1>9, <2>2, <2>3, <3>2 DEF q
    <3> QED  BY <2>2, <3>2, <3>3
  <2>4. StartOf(d)'
    BY <1>1, <1>9, <2>2, <2>3 DEF StartOf
  <2>5. \A o \in outputs : o <= lastSent[d] => o \in Brought(d)'
    BY <1>6, <1>8, <1>20, <2>1
  <2> QED  BY <1>1, <2>4, <2>5 DEF SupplyOf
\* A frame of the stream.
<1>30. CASE shown /\ h.kind # "reset"
  <2>0. Stream(h) /\ inbox'[d] = Append(inbox[d], h) /\ rendered'[d] = rendered[d]
    BY <1>1, <1>3, <1>30
  <2>2. /\ N \in Nat /\ DOMAIN q = 1..N /\ DOMAIN inbox'[d] = 1..(N + 1)
        /\ inbox'[d][N + 1] = h /\ \A l \in 1..N : inbox'[d][l] = q[l]
        /\ Shown(d)' = Shown(d) /\ \A n \in 0..N : Content(d, n)' = Content(d, n)
        /\ Points(d)' = Points(d) \cup {h.seq}
        /\ Eventual(d)' = Eventual(d) \cup (IF Full(h) THEN {h.seq} ELSE {})
    BY <1>1, <1>2, <1>30, <2>0, Enqueued
  <2>3. Content(d, N) = Eventual(d)
    BY DEF Eventual
  <2> HIDE DEF h, N, q
  <2>4. ASSUME NEW o \in Brought(d), o <= h.seq
        PROVE  o = h.seq /\ Full(h)
    <3>1. PICK g \in Range(Coming(d)) : Full(g) /\ o = g.seq
      BY <2>4 DEF Brought
    <3>2. Stream(g)
      <4>1. g \in Pending(d)
        BY <3>1 DEF Pending
      <4> QED  BY <1>0, <3>1, <4>1, FullFrames
    <3>3. g = h
      BY <1>2, <1>3, <1>4, <2>4, <3>1, <3>2
    <3> QED  BY <3>1, <3>3
  <2>5. \A o \in outputs : o <= h.seq => o \in Eventual(d) \/ (o = h.seq /\ Full(h))
    <3>1. \A o \in outputs : o <= h.seq => o <= lastSent[d]
      BY <1>3, <1>9
    <3> QED  BY <1>8, <2>4, <3>1
  <2>6. \A y \in Points(d)', o \in outputs : o <= y => o \in Eventual(d)'
    BY <1>9, <2>2, <2>5
  <2>7. ASSUME NEW k \in 1..(N + 1), Full(inbox'[d][k]), NEW o \in outputs, o < inbox'[d][k].seq
        PROVE  o \in Content(d, k - 1)'
    <3>1. CASE k \in 1..N
      <4>1. k - 1 \in 0..N
        BY <2>2, <3>1
      <4>2. o \in Content(d, k - 1)
        BY <1>9, <2>2, <2>7, <3>1 DEF q
      <4> QED  BY <2>2, <4>1, <4>2
    <3>2. CASE k = N + 1
      <4>1. k - 1 = N /\ N \in 0..N /\ o < h.seq
        BY <2>2, <2>7, <3>2
      <4>2. o <= h.seq /\ o # h.seq
        BY <1>3, <1>9, <4>1
      <4>3. o \in Content(d, N)
        BY <2>3, <2>5, <4>2
      <4> QED  BY <2>2, <4>1, <4>3
    <3> QED  BY <2>2, <3>1, <3>2
  <2>8. StartOf(d)'
    BY <1>1, <1>9, <2>2, <2>6, <2>7 DEF StartOf
  <2>9. \A o \in outputs : o <= lastSent[d] => o \in Brought(d)' \/ o \in Eventual(d)'
    BY <1>6, <1>8, <2>2
  <2> QED  BY <1>1, <1>5, <2>8, <2>9 DEF SupplyOf
<1> QED  BY <1>10, <1>20, <1>30

\* A frame is written.
LEMMA StartWrote ==
  ASSUME TypeOK, NEW d \in Clients, d \in Terminals, KnownOf(d), BodiesOf(d), ScreenOf(d), Grown,
         StartOf(d), SupplyOf(d), Wrote(d)
  PROVE  StartOf(d)' /\ SupplyOf(d)'
<1> DEFINE h == Head(inbox[d])
           q == inbox[d]
<1>0. DrawnOf(d) /\ FitsOf(d) /\ Points(d)' \subseteq Points(d)
  BY ScreenWrote DEF ScreenOf
<1>1. /\ h \in Pending(d) /\ inbox[d] # <<>> /\ inbox'[d] = Tail(inbox[d])
      /\ Shown(d)' = IF h.kind = "reset" THEN {}
                     ELSE IF Full(h) THEN Shown(d) \cup {h.seq} ELSE Shown(d)
      /\ \A n \in Nat : n < Len(inbox[d]) => Content(d, n)' = Content(d, n + 1)
      /\ Eventual(d)' = Eventual(d)
  BY <1>0, WroteContent
<1>2. outputs' = outputs /\ UNCHANGED <<attached[d], lastSent[d], Coming(d)>>
  BY DEF Wrote, session, Handle
<1>3. q \in Seq(Frames) /\ q # <<>> /\ inbox'[d] = Tail(q)
  BY <1>1, ClientTypes
<1>4. /\ Len(q) \in Nat /\ DOMAIN q = 1..Len(q) /\ DOMAIN Tail(q) = 1..(Len(q) - 1)
      /\ \A k \in 1..(Len(q) - 1) : Tail(q)[k] = q[k + 1]
      /\ 1 \in 1..Len(q) /\ h = q[1]
  <2> HIDE DEF q
  <2>1. Tail(q) \in Seq(Frames) /\ Len(Tail(q)) = Len(q) - 1 /\ Len(q) \in Nat \ {0}
    BY <1>3, HeadTailProperties, LenProperties, EmptySeq
  <2>2. DOMAIN Tail(q) = 1..(Len(q) - 1)
    BY <2>1, LenProperties
  <2>3. 1 \in 1..Len(q) /\ Head(q) = q[1]
    BY <1>3, <2>1
  <2> QED  BY <1>3, <2>1, <2>2, <2>3, HeadTailProperties, LenProperties DEF q
<1>5. /\ \A y \in Points(d), o \in outputs : o <= y => o \in Eventual(d)
      /\ \A y \in Shown(d), o \in outputs : o <= y => o \in Shown(d)
      /\ \A k \in DOMAIN q : Full(q[k]) => \A o \in outputs : o < q[k].seq => o \in Content(d, k - 1)
  BY DEF StartOf
<1>6. Full(h) => \A o \in outputs : o < h.seq => o \in Shown(d)
  <2>1. UncutIn(q, 1, 0) /\ ContentIn(q, Shown(d), 0) \subseteq Shown(d)
    BY DEF UncutIn, ContentIn
  <2> QED  BY <1>4, <1>5, <2>1 DEF Content
<1>7. h.seq \in Nat /\ \A o \in outputs : o \in Nat
  BY <1>1, SeqTypes DEF TypeOK, SessionTypeOK
<1> HIDE DEF h
<1>8. \A y \in Shown(d)', o \in outputs : o <= y => o \in Shown(d)'
  <2>1. \A o \in outputs : o <= h.seq => o < h.seq \/ o = h.seq
    BY <1>7
  <2> QED  BY <1>1, <1>5, <1>6, <2>1
<1>9. ASSUME NEW k \in 1..(Len(q) - 1), Full(q[k + 1]), NEW o \in outputs, o < q[k + 1].seq
      PROVE  o \in Content(d, k - 1)'
  <2>1. k + 1 \in DOMAIN q /\ (k + 1) - 1 = k /\ k - 1 \in Nat /\ k - 1 < Len(q) /\ (k - 1) + 1 = k
    BY <1>4
  <2>2. Content(d, k - 1)' = Content(d, (k - 1) + 1)
    BY <1>1, <2>1
  <2>3. o \in Content(d, (k + 1) - 1)
    BY <1>5, <1>9, <2>1
  <2> QED  BY <2>1, <2>2, <2>3
<1>10. StartOf(d)'
  BY <1>0, <1>1, <1>2, <1>3, <1>4, <1>5, <1>8, <1>9 DEF StartOf
<1>11. Brought(d)' = Brought(d) /\ (Resetting(d)' <=> Resetting(d))
  BY <1>2 DEF Brought, Resetting
<1> QED  BY <1>1, <1>2, <1>10, <1>11 DEF SupplyOf

LEMMA StartStep ==
  ASSUME ~CheckpointReplay, TypeOK, StreamInv, LinkInv, CreditInv, NoCheckpoints, QueueInv, ScreenInv,
         Undisturbed, StartInv, [Next]_vars
  PROVE  StartInv'
<1> SUFFICES ASSUME NEW d \in Terminals
             PROVE  StartOf(d)' /\ SupplyOf(d)'
  BY DEF StartInv
<1>1. d \in Clients
  BY ClientsAssumption
<1>2. /\ QueueOf(d) /\ KnownOf(d) /\ (attached[d] => SentOf(d)) /\ Grown /\ Event(d)
      /\ checkpoint = NoCheckpoint /\ outputs \subseteq retained /\ drops[d] <= 1
      /\ AgreeOf(d) /\ ScreenOf(d) /\ DrawnOf(d) /\ BodiesOf(d) /\ StartOf(d) /\ SupplyOf(d)
  BY <1>1, ClientEvent, GrownStep
     DEF QueueInv, QueueOf, CreditInv, CreditOf, WindowOf, NoCheckpoints, StartInv, ScreenInv, ScreenOf,
         Undisturbed
<1>3. UNCHANGED <<rendered[d], inbox[d], screen[d]>> =>
        StartOf(d)' /\ Points(d)' = Points(d) /\ Eventual(d)' = Eventual(d)
  BY <1>1, <1>2, StartSame
<1>4. CASE Rested(d) \/ Served(d)
  <2>1. UNCHANGED <<rendered[d], inbox[d], screen[d], attached[d], lastSent[d], Coming(d)>>
    BY <1>4 DEF Rested, Served, Handle, Viewer
  <2> QED  BY <1>1, <1>2, <1>3, <2>1, SupplySame
<1>5. CASE Fed(d)
  <2>1. UNCHANGED <<rendered[d], inbox[d], screen[d]>>
    BY <1>5 DEF Fed, Viewer
  <2> QED  BY <1>1, <1>2, <1>3, <1>5, <2>1, SupplyFed
<1>6. CASE Joined(d)
  <2>1. UNCHANGED <<rendered[d], inbox[d], screen[d]>>
    BY <1>6 DEF Joined, Viewer
  <2> QED  BY <1>1, <1>2, <1>3, <1>6, <2>1, SupplyJoined
<1>7. CASE Cut(d) \/ Reached(d)
  <2>1. UNCHANGED <<rendered[d], inbox[d], screen[d]>> /\ ~attached'[d]
    BY <1>7 DEF Cut, Reached, Viewer, Handle
  <2> QED  BY <1>3, <2>1 DEF SupplyOf
<1>8. CASE Delivered(d)
  <2>1. attached[d]
    BY <1>8 DEF Delivered
  <2> QED  BY <1>1, <1>2, <1>8, <2>1, StartDelivered
<1>9. CASE Wrote(d)
  BY <1>1, <1>2, <1>9, StartWrote
<1>10. CASE Uploaded(d)
  BY <1>10 DEF Uploaded
<1> QED  BY <1>2, <1>4, <1>5, <1>6, <1>7, <1>8, <1>9, <1>10 DEF Event

LEMMA StartInit == Init => StartInv
<1> SUFFICES ASSUME Init, NEW d \in Terminals
             PROVE  StartOf(d) /\ SupplyOf(d)
  BY DEF StartInv
<1> QED  BY DEF Init, StartOf, SupplyOf

\* The i-th element of the list has i elements up to it.
LEMMA SortedRank ==
  ASSUME NEW n \in Nat, NEW S \in SUBSET (1..n)
  PROVE  /\ Cardinality(S) \in Nat /\ Len(Sorted(S)) = Cardinality(S)
         /\ DOMAIN Sorted(S) = 1..Cardinality(S)
         /\ \A i \in 1..Cardinality(S) : Sorted(S)[i] \in S /\ Cardinality(UpTo(S, Sorted(S)[i])) = i
<1> DEFINE k == Cardinality(S)
           q == Sorted(S)
<1>1. k \in Nat /\ q \in Seq(S)
  BY BoundedFinite, SortedType
<1>2. /\ DOMAIN q = 1..k
      /\ \A i \in 1..k : q[i] = CHOOSE s \in S : Cardinality(UpTo(S, s)) = i
  BY DEF Sorted
<1>3. \A i \in 1..k : q[i] \in S /\ Cardinality(UpTo(S, q[i])) = i
  BY <1>2, RankExists
<1> HIDE DEF k, q
<1>4. Len(q) = k
  BY <1>1, <1>2, LenProperties
<1> QED  BY <1>1, <1>2, <1>3, <1>4 DEF k, q

\* Equal up to the end of the first, which is not longer.
LEMMA PrefixBy ==
  ASSUME NEW T, NEW p \in Seq(T), NEW q \in Seq(T), Len(p) <= Len(q),
         \A i \in 1..Len(p) : p[i] = q[i]
  PROVE  IsPrefix(p, q)
<1> DEFINE n == Len(p)
<1>1. n \in Nat /\ Len(q) \in Nat
  BY LenProperties
<1>2. SubSeq(p, 1, n) = [i \in 1..n |-> p[i]] /\ SubSeq(q, 1, n) = [i \in 1..n |-> q[i]]
  BY <1>1
<1> HIDE DEF n
<1>3. [i \in 1..n |-> p[i]] = [i \in 1..n |-> q[i]]
  BY DEF n
<1> QED  BY <1>2, <1>3 DEF IsPrefix, n

\* A rising list that leaves nothing out before its last is a prefix.
LEMMA PrefixOf ==
  ASSUME NEW n \in Nat, NEW S \in SUBSET (1..n), NEW q \in Seq(S),
         \A i, j \in DOMAIN q : i < j => q[i] < q[j],
         \A x \in Range(q), s \in S : s <= x => s \in Range(q)
  PROVE  IsPrefix(q, Sorted(S))
<1> DEFINE T == Range(q)
           k == Cardinality(S)
           L == Sorted(S)
<1>1. /\ Len(q) \in Nat /\ DOMAIN q = 1..Len(q)
      /\ T \in SUBSET S /\ T \in SUBSET (1..n) /\ \A i \in 1..Len(q) : q[i] \in T
  BY LenProperties, RangeOf
<1>2. q = Sorted(T)
  <2> HIDE DEF T
  <2>1. q \in Seq(T)
    BY <1>1, SeqDef, LenProperties
  <2>2. Range(q) = T
    BY DEF T
  <2> QED  BY <1>1, <2>1, <2>2, SortedUnique
<1>3. /\ k \in Nat /\ Len(L) = k /\ DOMAIN L = 1..k /\ L \in Seq(S)
      /\ \A i \in 1..k : L[i] \in S /\ Cardinality(UpTo(S, L[i])) = i
  BY SortedRank, SortedType
<1> HIDE DEF T, k, L
<1>4. ASSUME NEW i \in 1..Len(q)
      PROVE  i \in 1..k /\ q[i] = L[i]
  <2>1. Cardinality(UpTo(T, q[i])) = i /\ q[i] \in S
    <3>1. /\ Len(Sorted(T)) = Cardinality(T)
          /\ \A m \in 1..Cardinality(T) : Cardinality(UpTo(T, Sorted(T)[m])) = m
      BY <1>1, SortedRank
    <3> QED  BY <1>1, <1>2, <3>1
  <2>2. UpTo(S, q[i]) = UpTo(T, q[i])
    <3>1. \A s \in S : s <= q[i] => s \in T
      BY <1>1 DEF T
    <3> QED  BY <1>1, <3>1 DEF UpTo
  <2>3. Cardinality(UpTo(S, q[i])) = i
    BY <2>1, <2>2
  <2>4. i <= k
    <3>1. UpTo(S, q[i]) \in SUBSET S /\ IsFiniteSet(S)
      BY BoundedFinite DEF UpTo
    <3>2. Cardinality(UpTo(S, q[i])) <= Cardinality(S)
      BY <3>1, FS_Subset
    <3> QED  BY <2>3, <3>2 DEF k
  <2>5. i \in 1..k
    BY <1>1, <1>3, <2>4
  <2> QED  BY <1>3, <2>1, <2>3, <2>5, RankInjective
<1>5. Len(q) <= Len(L)
  <2>1. CASE Len(q) = 0
    BY <1>1, <1>3, <2>1
  <2>2. CASE Len(q) # 0
    <3>1. Len(q) \in 1..Len(q)
      BY <1>1, <2>2
    <3> QED  BY <1>3, <1>4, <3>1
  <2> QED  BY <2>1, <2>2
<1> QED  BY <1>3, <1>4, <1>5, PrefixBy DEF L

\* New output extends the log.
LEMMA LogGrows ==
  ASSUME NEW n \in Nat, NEW S \in SUBSET (1..n)
  PROVE  IsStrictPrefix(Sorted(S), Sorted(S \cup {n + 1}))
<1> DEFINE q == Sorted(S)
           R == S \cup {n + 1}
<1>1. /\ q \in Seq(S) /\ Range(q) = S
      /\ \A x, y : Precedes(q, x, y) => x \in S /\ y \in S /\ x < y
  BY SortedLists
<1>2. /\ n + 1 \in Nat /\ R \in SUBSET (1..(n + 1)) /\ n + 1 \notin S /\ S \subseteq R
      /\ \A x \in S : x \in Nat /\ x < n + 1
  OBVIOUS
<1>3. Range(Sorted(R)) = R
  BY <1>2, SortedLists
<1>4. \A x \in S, s \in R : s <= x => s \in S
  BY <1>2
<1> HIDE DEF q, R
<1>5. q \in Seq(R)
  <2>1. Len(q) \in Nat /\ q \in [1..Len(q) -> S]
    BY <1>1, LenProperties
  <2>2. q \in [1..Len(q) -> R]
    BY <1>2, <2>1
  <2> QED  BY <2>1, <2>2, SeqDef
<1>6. \A i, j \in DOMAIN q : i < j => q[i] < q[j]
  BY <1>1 DEF Precedes
<1>7. IsPrefix(q, Sorted(R))
  BY <1>1, <1>2, <1>4, <1>5, <1>6, PrefixOf
<1>8. q # Sorted(R)
  BY <1>1, <1>2, <1>3 DEF R
<1> QED  BY <1>7, <1>8 DEF IsStrictPrefix, q, R

\* So does what is written.
LEMMA ConcatPrefix ==
  ASSUME NEW T, NEW p \in Seq(T), NEW q \in Seq(T), q # <<>>
  PROVE  IsStrictPrefix(p, p \o q)
<1>1. /\ p \o q \in Seq(T) /\ Len(p \o q) = Len(p) + Len(q)
      /\ \A i \in 1..Len(p) + Len(q) : (p \o q)[i] = IF i <= Len(p) THEN p[i] ELSE q[i - Len(p)]
  BY ConcatProperties
<1>2. Len(p) \in Nat /\ Len(q) \in Nat /\ Len(q) # 0
  BY LenProperties, EmptySeq
<1>3. Len(p) <= Len(p \o q) /\ Len(p) # Len(p \o q)
  BY <1>1, <1>2
<1>4. \A i \in 1..Len(p) : p[i] = (p \o q)[i]
  BY <1>1, <1>2
<1> QED  BY <1>1, <1>3, <1>4, PrefixBy DEF IsStrictPrefix

\* A list of numbers that is rising and complete from the beginning is one.
LEMMA RisingPrefix ==
  ASSUME NEW n \in Nat, NEW S \in SUBSET (1..n), NEW q \in Seq(Nat),
         \A i, j \in DOMAIN q : i < j => q[i] < q[j],
         Range(q) \subseteq S,
         \A x \in Range(q), s \in S : s <= x => s \in Range(q)
  PROVE  IsPrefix(q, Sorted(S))
<1>1. q \in Seq(S)
  <2>1. \A i \in 1..Len(q) : q[i] \in S
    BY LenProperties, RangeOf
  <2> QED  BY <2>1, SeqDef, LenProperties
<1> QED  BY <1>1, PrefixOf

\* What a step does to the log and the views.
LEMMA LogStep ==
  ASSUME TypeOK, [Next]_vars
  PROVE  \/ Emit
         \/ UNCHANGED <<outputs, screen>>
         \/ \E c \in Clients : Commit(c) /\ UNCHANGED outputs
<1> USE DEF session, viewers
<1>1. CASE Resize \/ UNCHANGED vars
  BY <1>1 DEF Resize, vars
<1>2. ASSUME NEW c \in Clients, DaemonStep(c)
      PROVE  UNCHANGED <<outputs, screen>>
  BY <1>2 DEF DaemonStep, HandleAttach, AttachReply, CompleteAttach, HandleAck, FlushSend, FlushEnd,
              HandleCheckpoint
<1>3. ASSUME NEW c \in Clients, ClientStep(c) \/ Checkpointing(c) \/ Drop(c)
      PROVE  UNCHANGED <<outputs, screen>> \/ (Commit(c) /\ UNCHANGED outputs)
  BY <1>3 DEF ClientStep, Deliver, Commit, NoticeClose, Connect, SendAttach,
         Checkpointing, Serialize, SendCheckpoint, Drop
<1> QED  BY <1>1, <1>2, <1>3 DEF Next

View == [c \in Terminals |-> screen[c]]

LEMMA ReaderInit == Init => Reader!Init
<1> SUFFICES ASSUME Init
             PROVE  Sorted(outputs) = <<>> /\ View = [r \in Terminals |-> <<>>]
  BY DEF Reader!Init, View
<1>1. Sorted({}) = <<>>
  <2>1. {} \in SUBSET (1..0) /\ 0 \in Nat
    OBVIOUS
  <2>2. Sorted({}) \in Seq({}) /\ Len(Sorted({})) = Cardinality({})
    BY <2>1, SortedRank, SortedType
  <2> QED  BY <2>2, FS_EmptySet, EmptySeq
<1> QED  BY <1>1, ClientsAssumption DEF Init, View

\* The abstract module has the same prefixes.
LEMMA SamePrefix ==
  \A p, q : /\ Reader!IsPrefix(p, q) <=> IsPrefix(p, q)
            /\ Reader!IsStrictPrefix(p, q) <=> IsStrictPrefix(p, q)
BY DEF IsPrefix, IsStrictPrefix, Reader!IsPrefix, Reader!IsStrictPrefix

LEMMA ReaderStep ==
  ASSUME TypeOK, TypeOK', ScreenInv', StartInv', Undisturbed', [Next]_vars
  PROVE  [Reader!Next]_<<Sorted(outputs), View>>
<1>1. CASE Emit
  <2>1. LatestSeq \in Nat /\ outputs \in SUBSET (1..LatestSeq) /\ nextSeq = LatestSeq + 1
    BY DEF TypeOK, SessionTypeOK, LatestSeq
  <2>2. outputs' = outputs \cup {LatestSeq + 1} /\ screen' = screen
    BY <1>1, <2>1 DEF Emit, viewers
  <2> HIDE DEF LatestSeq
  <2>3. IsStrictPrefix(Sorted(outputs), Sorted(outputs'))
    BY <2>1, <2>2, LogGrows
  <2>4. View' = View
    BY <2>2 DEF View
  <2> QED  BY <2>3, <2>4, SamePrefix DEF Reader!Next, Reader!Produce, View
<1>2. CASE UNCHANGED <<outputs, screen>>
  BY <1>2 DEF View
<1>3. ASSUME NEW c \in Clients, Commit(c), UNCHANGED outputs
      PROVE  [Reader!Next]_<<Sorted(outputs), View>>
  <2> DEFINE h == Head(inbox[c])
             s == screen[c]
  <2>1. /\ screen' = [screen EXCEPT ![c] = IF h.kind = "reset" THEN <<>> ELSE s \o h.body]
        /\ inbox[c] # <<>>
    BY <1>3 DEF Commit
  <2>2. s \in Seq(Nat) /\ h \in Frames /\ h.body \in Seq(Nat) /\ screen \in [Clients -> Seq(Nat)]
    <3>1. inbox[c] \in Seq(Frames) /\ s \in Seq(Nat) /\ screen \in [Clients -> Seq(Nat)]
      BY DEF TypeOK, ChannelsTypeOK, ViewersTypeOK
    <3>2. h \in Frames
      BY <2>1, <3>1
    <3> QED  BY <3>1, <3>2 DEF Frames
  <2> HIDE DEF h, s
  <2>3. /\ screen'[c] = IF h.kind = "reset" THEN <<>> ELSE s \o h.body
        /\ \A d \in Clients : d # c => screen'[d] = screen[d]
    BY <2>1, <2>2
  <2>4. Terminals \subseteq Clients
    BY ClientsAssumption
  <2>5. CASE c \notin Terminals
    <3>1. View' = View
      BY <2>3, <2>4, <2>5 DEF View
    <3> QED  BY <1>3, <3>1
  <2>6. CASE c \in Terminals
    <3>1. View' = [View EXCEPT ![c] = screen'[c]] /\ View[c] = s /\ View'[c] = screen'[c]
      BY <2>3, <2>4, <2>6 DEF View, s
    <3>2. CASE h.kind = "reset"
      <4>1. View' = [View EXCEPT ![c] = <<>>]
        BY <2>3, <3>1, <3>2
      <4> QED  BY <1>3, <2>6, <4>1 DEF Reader!Next, Reader!Rebuild, View
    <3>3. CASE h.kind # "reset" /\ h.body = <<>>
      <4>1. screen'[c] = s
        BY <2>2, <2>3, <3>3, ConcatEmptySeq
      <4>2. View' = View
        BY <3>1, <4>1 DEF View
      <4> QED  BY <1>3, <4>2
    <3>4. CASE h.kind # "reset" /\ h.body # <<>>
      <4>1. IsStrictPrefix(s, screen'[c])
        BY <2>2, <2>3, <3>4, ConcatPrefix
      <4>2. DrawnOf(c)' /\ StartOf(c)'
        BY <2>6 DEF ScreenInv, ScreenOf, StartInv, Undisturbed
      <4>3. IsPrefix(screen'[c], Sorted(outputs'))
        <5>1. LatestSeq' \in Nat /\ outputs' \in SUBSET (1..LatestSeq') /\ screen'[c] \in Seq(Nat)
          <6>1. LatestSeq' \in Nat
            BY OutputGrows
          <6>2. outputs' \subseteq 1..LatestSeq'
            BY DEF TypeOK, SessionTypeOK
          <6>3. screen' \in [Clients -> Seq(Nat)]
            BY DEF TypeOK, ViewersTypeOK
          <6> QED  BY <6>1, <6>2, <6>3
        <5>2. /\ \A i, j \in DOMAIN screen'[c] : i < j => screen'[c][i] < screen'[c][j]
              /\ Range(screen'[c]) \subseteq outputs'
              /\ \A x \in Range(screen'[c]), o \in outputs' : o <= x => o \in Range(screen'[c])
          BY <4>2 DEF DrawnOf, StartOf, Shown
        <5> QED  BY <5>1, <5>2, RisingPrefix
      <4>4. IsPrefix(screen'[c], Sorted(outputs))
        BY <1>3, <4>3
      <4>5. /\ IsStrictPrefix(View[c], View'[c]) /\ IsPrefix(View'[c], Sorted(outputs))
            /\ View' = [View EXCEPT ![c] = View'[c]]
        BY <3>1, <4>1, <4>4
      <4> QED  BY <1>3, <2>6, <4>5, SamePrefix DEF Reader!Next, Reader!Advance, View
    <3> QED  BY <3>2, <3>3, <3>4
  <2> QED  BY <2>5, <2>6
<1> QED  BY <1>1, <1>2, <1>3, LogStep

\* Without checkpoints, and while nothing is evicted and no terminal loses a
\* second connection, terminals only ever read the log of the output in its
\* order, or begin again.
THEOREM ReadsLog ==
  ASSUME ~CheckpointReplay
  PROVE  Spec /\ []Undisturbed => Reader!Safety
<1> DEFINE Inv == /\ TypeOK /\ StreamInv /\ LinkInv /\ CreditInv
                  /\ NoCheckpoints /\ QueueInv /\ ScreenInv /\ StartInv
<1>1. Init => NoCheckpoints
  BY DEF Init, NoCheckpoints
<1>2. Init => Inv
  BY <1>1, TypeInit, StreamInvInit, LinkInit, CreditInit, QueueInit, ScreenInit, StartInit
<1>3. Inv /\ Undisturbed /\ [Next]_vars => Inv'
  BY TypeStep, StreamInvStep, LinkStep, CreditStep, RequestsStep, QueueStep, ScreenStep, StartStep
<1>4. Inv /\ Inv' /\ Undisturbed' /\ [Next]_vars => [Reader!Next]_<<Sorted(outputs), View>>
  BY ReaderStep
<1>5. Init => Reader!Init
  BY ReaderInit
<1> QED  BY <1>2, <1>3, <1>4, <1>5, PTL DEF Spec, Reader!Safety, View

(***************************************************************************)
(* The checkpoint and what is retained rebuild the output.                 *)
(***************************************************************************)

\* Two lists, one entirely below the other, make one.
LEMMA SortedConcat ==
  ASSUME NEW n \in Nat, NEW A \in SUBSET (1..n), NEW B \in SUBSET (1..n),
         \A a \in A, b \in B : a < b
  PROVE  Sorted(A) \o Sorted(B) = Sorted(A \cup B)
<1> DEFINE p == Sorted(A)
           q == Sorted(B)
           S == A \cup B
<1>1. /\ p \in Seq(A) /\ Range(p) = A /\ \A x, y : Precedes(p, x, y) => x < y
      /\ q \in Seq(B) /\ Range(q) = B /\ \A x, y : Precedes(q, x, y) => x < y
  BY SortedLists
<1>2. S \in SUBSET (1..n) /\ A \subseteq S /\ B \subseteq S
  OBVIOUS
<1> HIDE DEF p, q, S
<1>3. p \in Seq(S) /\ q \in Seq(S)
  <2>1. p \in [1..Len(p) -> S] /\ q \in [1..Len(q) -> S] /\ Len(p) \in Nat /\ Len(q) \in Nat
    BY <1>1, <1>2, LenProperties
  <2> QED  BY <2>1, SeqDef
<1>4. /\ p \o q \in Seq(S) /\ Range(p \o q) = Range(p) \cup Range(q)
      /\ \A x, y : Precedes(p \o q, x, y) <=>
           (Precedes(p, x, y) \/ Precedes(q, x, y) \/ (x \in Range(p) /\ y \in Range(q)))
  BY <1>3, ConcatIn, ConcatProperties
<1> DEFINE r == p \o q
<1>5. r \in Seq(S) /\ Range(r) = S /\ \A x, y : Precedes(r, x, y) => x < y
  BY <1>1, <1>4 DEF S
<1> HIDE DEF r
<1>6. \A i, j \in DOMAIN r : i < j => r[i] < r[j]
  BY <1>5 DEF Precedes
<1>7. r = Sorted(S)
  BY <1>2, <1>5, <1>6, SortedUnique
<1> QED  BY <1>7 DEF r, p, q, S

LEMMA SortedOne ==
  ASSUME NEW s \in Nat \ {0}
  PROVE  Sorted({s}) = <<s>>
<1> DEFINE q == <<s>>
<1>1. q \in Seq({s}) /\ DOMAIN q = {1} /\ q[1] = s
  OBVIOUS
<1>2. Range(q) = {s}
  BY <1>1 DEF Range
<1>3. \A i, j \in DOMAIN q : i < j => q[i] < q[j]
  BY <1>1
<1>4. {s} \in SUBSET (1..s)
  OBVIOUS
<1> HIDE DEF q
<1>5. q = Sorted({s})
  BY <1>1, <1>2, <1>3, <1>4, SortedUnique
<1> QED  BY <1>5 DEF q

LEMMA SortedNone == Sorted({}) = <<>>
<1>1. {} \in SUBSET (1..0) /\ 0 \in Nat
  OBVIOUS
<1>2. Sorted({}) \in Seq({}) /\ Len(Sorted({})) = Cardinality({})
  BY <1>1, SortedRank, SortedType
<1> QED  BY <1>2, FS_EmptySet, EmptySeq

\* The output up to n; what is known of it does not change.
To(n) == {o \in outputs : o <= n}

LEMMA ToSame ==
  ASSUME TypeOK, Grown, NEW n \in Int, n <= LatestSeq
  PROVE  To(n)' = To(n)
<1>1. LatestSeq \in Nat /\ outputs \subseteq 1..LatestSeq
  BY CheckpointType DEF TypeOK, SessionTypeOK
<1>2. \A o \in outputs' : o <= n => o \in outputs
  BY <1>1 DEF Grown
<1> QED  BY <1>2 DEF Grown, To

\* The only terminal is the one that created the session.
OneTerminal == Terminals = {Creator}
\* Nothing was evicted and it never lost its connection.
Lossless == nextSeq <= Retain + 1 /\ drops[Creator] = 0

\* While a terminal has its first connection, what it has not written yet is
\* live output, in its order, and all there is between its screen and the last
\* frame sent; and its screen is all the output up to the last chunk written.
Numbers(d) == {f.seq : f \in Pending(d)}
OrderedOf(d) ==
  /\ \A f \in Pending(d) :
       f.kind = "output" /\ f.body = <<f.seq>> /\ f.seq \in outputs /\ rendered[d] < f.seq
  /\ \A f \in Range(Coming(d)) : received[d] < f.seq
  /\ \A f, g \in Pending(d) : Follows(d, f, g) => f.seq < g.seq
GaplessOf(d) ==
  /\ \A f \in Pending(d), o \in outputs : rendered[d] < o /\ o < f.seq => o \in Numbers(d)
  /\ attached[d] => \A o \in outputs : rendered[d] < o /\ o <= lastSent[d] => o \in Numbers(d)
FirstOf(d) ==
  /\ attached[d] \/ link[d] = "closing"
  /\ OrderedOf(d) /\ GaplessOf(d)
  /\ screen[d] = Sorted(To(rendered[d]))

\* A screen that has been serialized is all the output up to the last chunk
\* written, but for what was written since.
SnapshotOf(d) ==
  ~Idle(d) =>
    /\ Len(snapshot[d].body) <= Len(screen[d])
    /\ Late(d) \subseteq To(rendered[d])
    /\ snapshot[d].body = Sorted(To(rendered[d]) \ Late(d))

\* Its checkpoints say what they label, but for what was written behind them.
UploadsOf(d) ==
  \A r \in Range(requests[d]) : r.kind = "checkpoint" =>
    r.late \subseteq To(r.seq) /\ r.body = Sorted(To(r.seq) \ r.late)
\* Nobody else has uploaded one.
ObserversInv ==
  \A c \in Clients \ Terminals : \A r \in Range(requests[c]) : r.kind # "checkpoint"
\* The checkpoint is the output up to its number, but for what was written behind
\* it; the rest is retained.
CheckpointInv ==
  /\ \A o \in outputs : o <= checkpoint.seq \/ o \in retained
  /\ \A s \in retained : checkpoint.seq < s
  /\ checkpoint.late \subseteq To(checkpoint.seq)
  /\ checkpoint.body = Sorted(To(checkpoint.seq) \ checkpoint.late)
RebuildInv ==
  Lossless =>
    /\ FirstOf(Creator) /\ SnapshotOf(Creator)
    /\ CoveredOf(Creator) /\ UploadsOf(Creator) /\ CheckpointInv

\* What a step that leaves the queue and the screen alone leaves.
LEMMA FirstSame ==
  ASSUME TypeOK, NEW d \in Clients, KnownOf(d), Grown, FirstOf(d),
         UNCHANGED <<inbox[d], Coming(d), received[d], rendered[d], screen[d]>>,
         UNCHANGED <<attached[d], link[d], lastSent[d]>>
  PROVE  FirstOf(d)'
<1>0. /\ LatestSeq \in Nat /\ rendered[d] \in Nat /\ rendered[d] <= LatestSeq
      /\ lastSent[d] \in Nat /\ lastSent[d] <= LatestSeq
      /\ \A f \in Pending(d) : f.seq \in Nat /\ f.seq <= LatestSeq
  <2>1. lastSent[d] \in 0..LatestSeq
    BY DEF TypeOK, HandlesTypeOK
  <2> QED  BY <2>1, ClientTypes, SeqTypes DEF KnownOf
<1>1. /\ outputs \subseteq outputs' /\ \A o \in outputs' : o \in Nat /\ (o <= LatestSeq => o \in outputs)
  BY <1>0 DEF Grown
<1>2. Pending(d)' = Pending(d) /\ Numbers(d)' = Numbers(d) /\ \A f, g : Follows(d, f, g)' <=> Follows(d, f, g)
  BY DEF Pending, Numbers, Follows
<1>3. OrderedOf(d)'
  BY <1>1, <1>2 DEF FirstOf, OrderedOf
<1>4. GaplessOf(d)'
  BY <1>0, <1>1, <1>2 DEF FirstOf, GaplessOf
<1>5. To(rendered[d])' = To(rendered[d])
  <2> DEFINE n == rendered[d]
  <2>1. n' = n /\ n \in Int /\ n <= LatestSeq
    BY <1>0
  <2> HIDE DEF n
  <2>2. To(n)' = {o \in outputs' : o <= n}
    BY <2>1 DEF To
  <2>3. {o \in outputs' : o <= n} = To(n)
    BY <1>0, <1>1, <2>1 DEF To
  <2> QED  BY <2>2, <2>3 DEF n
<1> QED  BY <1>3, <1>4, <1>5 DEF FirstOf

\* The connection is closed: what the client has is still without a gap.
LEMMA FirstCut ==
  ASSUME TypeOK, NEW d \in Clients, KnownOf(d), Grown, FirstOf(d), Cut(d), drops'[d] = drops[d]
  PROVE  FirstOf(d)'
<1>0. /\ LatestSeq \in Nat /\ rendered[d] \in Nat /\ rendered[d] <= LatestSeq
      /\ \A f \in Pending(d) : f.seq \in Nat /\ f.seq <= LatestSeq
  BY ClientTypes, SeqTypes DEF KnownOf
<1>1. /\ outputs \subseteq outputs' /\ \A o \in outputs' : o \in Nat /\ (o <= LatestSeq => o \in outputs)
  BY <1>0 DEF Grown
<1>2. /\ ~attached'[d] /\ Coming(d)' = <<>> /\ link'[d] = "closing"
      /\ UNCHANGED <<inbox[d], received[d], rendered[d], screen[d]>>
  BY ClientTypes DEF Cut, Viewer
<1>3. /\ Range(Coming(d)') = {} /\ Pending(d)' = Range(inbox[d]) /\ Pending(d)' \subseteq Pending(d)
      /\ \A f, g : Follows(d, f, g)' => Follows(d, f, g)
  BY <1>2, NoneIn DEF Pending, Follows
<1>4. OrderedOf(d)'
  BY <1>1, <1>2, <1>3 DEF FirstOf, OrderedOf
<1>5. GaplessOf(d)'
  <2> SUFFICES ASSUME NEW f \in Range(inbox[d]), NEW o \in outputs', rendered[d] < o, o < f.seq
               PROVE  \E g \in Range(inbox[d]) : o = g.seq
    BY <1>2, <1>3 DEF GaplessOf, Numbers
  <2>1. f \in Pending(d) /\ o \in outputs /\ o \in Nat
    BY <1>0, <1>1, <1>3
  <2>2. PICK g \in Pending(d) : o = g.seq
    BY <2>1 DEF FirstOf, GaplessOf, Numbers
  <2>3. ASSUME g \in Range(Coming(d))
        PROVE  FALSE
    <3>1. Follows(d, f, g)
      BY <2>3 DEF Follows
    <3> QED  BY <1>0, <2>1, <2>2, <3>1 DEF FirstOf, OrderedOf
  <2> QED  BY <2>2, <2>3 DEF Pending
<1>6. To(rendered[d])' = To(rendered[d])
  <2>1. To(rendered[d])' = {o \in outputs' : o <= rendered[d]}
    BY <1>2 DEF To
  <2>2. {o \in outputs' : o <= rendered[d]} = To(rendered[d])
    BY <1>0, <1>1 DEF To
  <2> QED  BY <2>1, <2>2
<1> QED  BY <1>2, <1>4, <1>5, <1>6 DEF FirstOf

\* The next chunk is sent, and it is the next.
LEMMA FirstFed ==
  ASSUME TypeOK, NEW d \in Clients, KnownOf(d), attached[d] => SentOf(d), Grown, FirstOf(d),
         CoveredOf(d), Fed(d)
  PROVE  FirstOf(d)'
<1>1. PICK s \in outputs' :
        /\ attached[d] /\ s \in Nat /\ lastSent[d] < s /\ s <= LatestSeq'
        /\ \A o \in outputs' : o <= lastSent[d] \/ s <= o
        /\ Coming(d)' = Append(Coming(d), OutputFrame(s)) /\ lastSent'[d] = s
        /\ UNCHANGED <<attached[d], link[d], Viewer(d)>>
  BY DEF Fed, CoveredOf
<1> DEFINE e == OutputFrame(s)
<1>2. e \in Frames /\ e.seq = s /\ e.kind = "output" /\ e.body = <<s>>
  BY <1>1, FrameTypes DEF OutputFrame
<1>3. Coming(d)' = Append(Coming(d), e)
  BY <1>1
<1> HIDE DEF e
<1>4. /\ Range(Coming(d)') = Range(Coming(d)) \cup {e}
      /\ \A f, g : Precedes(Coming(d)', f, g) <=>
           (Precedes(Coming(d), f, g) \/ (f \in Range(Coming(d)) /\ g = e))
  <2>1. \A q \in Seq(Frames) :
          /\ Range(Append(q, e)) = Range(q) \cup {e}
          /\ \A f, g : Precedes(Append(q, e), f, g) <=>
               (Precedes(q, f, g) \/ (f \in Range(q) /\ g = e))
    BY <1>2, AppendIn
  <2> QED  BY <1>3, <2>1, ClientTypes
<1>5. UNCHANGED <<attached[d], link[d], inbox[d], received[d], rendered[d], screen[d]>>
  BY <1>1 DEF Viewer
<1>6. /\ Pending(d)' = Pending(d) \cup {e} /\ Range(Coming(d)) \subseteq Pending(d)
      /\ \A f, g : Follows(d, f, g)' => Follows(d, f, g) \/ (f \in Pending(d) /\ g = e)
  BY <1>4, <1>5 DEF Pending, Follows
<1>7. /\ LatestSeq \in Nat /\ lastSent[d] \in Nat /\ received[d] \in Nat /\ rendered[d] \in Nat
      /\ received[d] <= lastSent[d] /\ rendered[d] <= lastSent[d] /\ lastSent[d] <= LatestSeq
      /\ \A f \in Pending(d) : f.seq \in Nat /\ f.seq <= lastSent[d]
  <2>1. lastSent[d] \in 0..LatestSeq
    BY DEF TypeOK, HandlesTypeOK
  <2> QED  BY <1>1, <2>1, ClientTypes, SeqTypes DEF KnownOf, SentOf
<1>8. /\ outputs \subseteq outputs' /\ \A o \in outputs' : o \in Nat /\ (o <= lastSent[d] => o \in outputs)
  BY <1>7 DEF Grown
<1>9. Numbers(d)' = Numbers(d) \cup {s}
  BY <1>2, <1>6 DEF Numbers
<1>10. OrderedOf(d)'
  <2>1. \A f \in Pending(d)' :
          f.kind = "output" /\ f.body = <<f.seq>> /\ f.seq \in outputs' /\ rendered'[d] < f.seq
    BY <1>1, <1>2, <1>5, <1>6, <1>7, <1>8 DEF FirstOf, OrderedOf
  <2>2. \A f \in Range(Coming(d)') : received'[d] < f.seq
    BY <1>1, <1>2, <1>4, <1>5, <1>7 DEF FirstOf, OrderedOf
  <2>3. ASSUME NEW f \in Pending(d)', NEW g \in Pending(d)', Follows(d, f, g)'
        PROVE  f.seq < g.seq
    <3>1. CASE f \in Pending(d) /\ g = e
      BY <1>1, <1>2, <1>7, <3>1
    <3>2. CASE Follows(d, f, g)
      <4>1. f \in Pending(d) /\ g \in Pending(d)
        BY <3>2, PrecedesIn DEF Follows, Pending
      <4> QED  BY <3>2, <4>1 DEF FirstOf, OrderedOf
    <3> QED  BY <1>6, <2>3, <3>1, <3>2
  <2> QED  BY <2>1, <2>2, <2>3 DEF OrderedOf
<1>11. \A o \in outputs' : rendered[d] < o /\ o <= s => o \in Numbers(d)'
  <2> SUFFICES ASSUME NEW o \in outputs', rendered[d] < o, o <= s
               PROVE  o \in Numbers(d) \cup {s}
    BY <1>9
  <2>1. o <= lastSent[d] \/ o = s
    BY <1>1, <1>8
  <2> QED  BY <1>1, <1>8, <2>1 DEF FirstOf, GaplessOf
<1>12. GaplessOf(d)'
  <2>1. \A f \in Pending(d)' : f.seq \in Nat /\ f.seq <= s
    BY <1>1, <1>2, <1>6, <1>7
  <2>2. \A f \in Pending(d)', o \in outputs' : o < f.seq => o <= s
    BY <1>1, <1>8, <2>1
  <2> QED  BY <1>1, <1>5, <1>11, <2>2 DEF GaplessOf
<1>13. To(rendered[d])' = To(rendered[d])
  <2>1. To(rendered[d])' = {o \in outputs' : o <= rendered[d]}
    BY <1>5 DEF To
  <2>2. {o \in outputs' : o <= rendered[d]} = To(rendered[d])
    BY <1>7, <1>8 DEF To
  <2> QED  BY <2>1, <2>2
<1> QED  BY <1>5, <1>10, <1>12, <1>13 DEF FirstOf

\* A frame is received: the filters let it through.
LEMMA FirstDelivered ==
  ASSUME TypeOK, NEW d \in Clients, KnownOf(d), FirstOf(d), Delivered(d)
  PROVE  FirstOf(d)'
<1> DEFINE h == Head(Coming(d))
           fresh == h.kind # "output" \/ h.seq > received[d]
           shown == h.kind # "attached" /\ fresh /\ Takes(d, h)
<1>1. /\ attached[d] /\ Coming(d) # <<>> /\ Coming(d)' = Tail(Coming(d))
      /\ received'[d] = IF h.kind = "attached" \/ (h.kind = "output" /\ fresh) THEN h.seq ELSE received[d]
      /\ inbox'[d] = IF shown THEN Append(inbox[d], h) ELSE inbox[d]
      /\ rendered'[d] = IF h.kind = "reset" /\ d \in Terminals THEN 0 ELSE rendered[d]
      /\ UNCHANGED <<session, Handle(d), link[d], screen[d]>>
  BY DEF Delivered
<1>2. UNCHANGED <<attached[d], lastSent[d], outputs, link[d], screen[d]>>
  BY <1>1 DEF Handle, session
<1>3. /\ h \in Frames /\ Range(Coming(d)) = {h} \cup Range(Coming(d)')
      /\ \A f, g : Precedes(Coming(d), f, g) <=>
           (Precedes(Coming(d)', f, g) \/ (f = h /\ g \in Range(Coming(d)')))
      /\ Pending(d)' \subseteq Pending(d)
      /\ \A f, g : Follows(d, f, g)' => Follows(d, f, g)
  BY <1>1, DeliveredQueues
<1>4. h \in Pending(d) /\ h \in Range(Coming(d)) /\ h.seq \in Nat
  BY <1>3, SeqTypes DEF Pending
<1>5. h.kind = "output" /\ rendered[d] < h.seq /\ received[d] < h.seq
  BY <1>4 DEF FirstOf, OrderedOf
<1>6. \A f \in Range(inbox[d]) : f.seq < h.seq
  <2>1. \A f \in Range(inbox[d]) : f \in Pending(d) /\ Follows(d, f, h)
    BY <1>4 DEF Pending, Follows
  <2> QED  BY <1>4, <2>1 DEF FirstOf, OrderedOf
<1>7. shown
  <2>1. h.seq \notin Queued(d)
    BY <1>4, <1>6, NotQueued
  <2>2. rendered[d] \in Nat /\ received[d] \in Nat
    BY ClientTypes
  <2> QED  BY <1>4, <1>5, <2>1, <2>2 DEF Takes
<1>8. inbox'[d] = Append(inbox[d], h) /\ received'[d] = h.seq /\ rendered'[d] = rendered[d]
  BY <1>1, <1>5, <1>7
<1> HIDE DEF h, fresh, shown
<1>9. Range(inbox'[d]) = Range(inbox[d]) \cup {h}
  BY <1>3, <1>8, AppendIn, ClientTypes
<1>10. Pending(d)' = Pending(d) /\ Numbers(d)' = Numbers(d)
  <2>1. Pending(d)' = Pending(d)
    BY <1>3, <1>9 DEF Pending
  <2> QED  BY <2>1 DEF Numbers
<1>11. OrderedOf(d)'
  <2>1. ASSUME NEW f \in Range(Coming(d)')
        PROVE  h.seq < f.seq
    <3>1. Follows(d, h, f) /\ f \in Pending(d)
      BY <1>3 DEF Follows, Pending
    <3> QED  BY <1>4, <3>1 DEF FirstOf, OrderedOf
  <2> QED  BY <1>2, <1>3, <1>8, <1>10, <2>1 DEF FirstOf, OrderedOf
<1>12. GaplessOf(d)'
  BY <1>2, <1>8, <1>10 DEF FirstOf, GaplessOf
<1>13. To(rendered[d])' = To(rendered[d])
  BY <1>2, <1>8 DEF To
<1> QED  BY <1>1, <1>2, <1>8, <1>11, <1>12, <1>13 DEF FirstOf

\* The chunk that is written is the next of all the output.
LEMMA NextWritten ==
  ASSUME TypeOK, NEW d \in Clients, d \in Terminals, KnownOf(d), FirstOf(d), Wrote(d)
  PROVE  \E s \in outputs :
           /\ s = Head(inbox[d]).seq /\ s \in Nat \ {0} /\ rendered[d] < s
           /\ rendered'[d] = s /\ screen'[d] = screen[d] \o <<s>> /\ UNCHANGED outputs
           /\ To(s) = To(rendered[d]) \cup {s}
<1> DEFINE h == Head(inbox[d])
           t == Tail(inbox[d])
<1>1. /\ inbox[d] # <<>> /\ inbox'[d] = t
      /\ screen'[d] = IF h.kind = "reset" THEN <<>> ELSE screen[d] \o h.body
      /\ rendered'[d] = Advance(d, h, rendered[d])
      /\ UNCHANGED <<session, Handle(d), Coming(d), link[d], received[d]>>
  BY DEF Wrote
<1>2. UNCHANGED <<attached[d], lastSent[d], outputs, link[d], received[d]>>
  BY <1>1 DEF Handle, session
<1>3. /\ h \in Frames /\ t \in Seq(Frames) /\ Range(inbox[d]) = {h} \cup Range(t)
      /\ \A f, g : Precedes(inbox[d], f, g) <=> (Precedes(t, f, g) \/ (f = h /\ g \in Range(t)))
  BY <1>1, TailIn, ClientTypes
<1>4. /\ h \in Pending(d) /\ Pending(d)' \subseteq Pending(d) /\ Pending(d) = Pending(d)' \cup {h}
      /\ \A f \in Pending(d)' : Follows(d, h, f)
      /\ \A f, g : Follows(d, f, g)' => Follows(d, f, g)
  BY <1>1, <1>3 DEF Pending, Follows
<1>5. /\ h.kind = "output" /\ h.body = <<h.seq>> /\ h.seq \in outputs /\ rendered[d] < h.seq
      /\ rendered[d] \in Nat /\ h.seq \in Nat /\ LatestSeq \in Nat /\ h.seq <= LatestSeq
      /\ outputs \subseteq 1..LatestSeq
  <2>1. outputs \subseteq 1..LatestSeq
    BY DEF TypeOK, SessionTypeOK
  <2> QED  BY <1>4, <2>1, ClientTypes, SeqTypes DEF FirstOf, OrderedOf, KnownOf
<1>5o. \A o \in outputs : o \in Nat /\ (rendered[d] < o \/ o <= rendered[d])
  <2>1. \A o \in outputs : o \in Nat
    BY <1>5
  <2> QED  BY <1>5, <2>1
<1>6. ~Stale(d)
  <2>1. \A i \in DOMAIN inbox[d] : inbox[d][i].kind = "output"
    <3>1. \A i \in DOMAIN inbox[d] : inbox[d][i] \in Range(inbox[d])
      BY ClientTypes, RangeOf
    <3>2. \A f \in Range(inbox[d]) : f.kind = "output"
      BY DEF FirstOf, OrderedOf, Pending
    <3> QED  BY <3>1, <3>2
  <2>2. inbox[d] \in Seq(Frames)
    BY ClientTypes
  <2>3. DOMAIN inbox[d] = 1..Len(inbox[d]) /\ Len(inbox[d]) \in Nat
    BY <2>2, LenProperties
  <2> QED  BY <2>1, <2>3 DEF Stale
<1>7. rendered'[d] = h.seq /\ screen'[d] = screen[d] \o <<h.seq>>
  BY <1>1, <1>5, <1>6 DEF Advance, Commits
<1>8. \A f \in Pending(d)' : h.seq < f.seq
  BY <1>4 DEF FirstOf, OrderedOf
<1> HIDE DEF h, t
<1>9. \A o \in outputs : o <= h.seq => o <= rendered[d] \/ o = h.seq
  <2> SUFFICES ASSUME NEW o \in outputs, o <= h.seq, rendered[d] < o, o # h.seq
               PROVE  FALSE
    BY <1>5o
  <2>1. o < h.seq /\ o \in Nat
    BY <1>5, <1>5o
  <2>2. PICK g \in Pending(d) : o = g.seq
    BY <1>4, <2>1 DEF FirstOf, GaplessOf, Numbers
  <2>3. g # h /\ g \in Pending(d)'
    BY <1>4, <2>2
  <2> QED  BY <1>5, <1>8, <2>1, <2>2, <2>3
<1>10. To(h.seq) = To(rendered[d]) \cup {h.seq}
  <2>1. \A o \in outputs : o <= rendered[d] => o <= h.seq
    <3>1. \A m, n, o \in Nat : m < n /\ o <= m => o <= n
      OBVIOUS
    <3>2. rendered[d] \in Nat /\ h.seq \in Nat /\ rendered[d] < h.seq
      BY <1>5
    <3> QED  BY <1>5o, <3>1, <3>2, Zenon
  <2>2. h.seq <= h.seq
    BY <1>5
  <2> QED  BY <1>5, <1>9, <2>1, <2>2 DEF To
<1>11. h.seq \in Nat \ {0} /\ UNCHANGED outputs
  BY <1>2, <1>5
<1> QED  BY <1>5, <1>7, <1>10, <1>11 DEF h

\* A chunk is written: it is the next of all the output.
LEMMA FirstWrote ==
  ASSUME TypeOK, NEW d \in Clients, d \in Terminals, KnownOf(d), FirstOf(d), Wrote(d)
  PROVE  FirstOf(d)'
<1> DEFINE h == Head(inbox[d])
           t == Tail(inbox[d])
<1>1. /\ inbox[d] # <<>> /\ inbox'[d] = t
      /\ screen'[d] = IF h.kind = "reset" THEN <<>> ELSE screen[d] \o h.body
      /\ rendered'[d] = Advance(d, h, rendered[d])
      /\ UNCHANGED <<session, Handle(d), Coming(d), link[d], received[d]>>
  BY DEF Wrote
<1>2. UNCHANGED <<attached[d], lastSent[d], outputs, link[d], received[d]>>
  BY <1>1 DEF Handle, session
<1>3. /\ h \in Frames /\ t \in Seq(Frames) /\ Range(inbox[d]) = {h} \cup Range(t)
      /\ \A f, g : Precedes(inbox[d], f, g) <=> (Precedes(t, f, g) \/ (f = h /\ g \in Range(t)))
  BY <1>1, TailIn, ClientTypes
<1>4. /\ h \in Pending(d) /\ Pending(d)' \subseteq Pending(d) /\ Pending(d) = Pending(d)' \cup {h}
      /\ \A f \in Pending(d)' : Follows(d, h, f)
      /\ \A f, g : Follows(d, f, g)' => Follows(d, f, g)
  BY <1>1, <1>3 DEF Pending, Follows
<1>5. /\ h.kind = "output" /\ h.body = <<h.seq>> /\ h.seq \in outputs /\ rendered[d] < h.seq
      /\ rendered[d] \in Nat /\ h.seq \in Nat /\ LatestSeq \in Nat /\ h.seq <= LatestSeq
      /\ outputs \subseteq 1..LatestSeq
  <2>1. outputs \subseteq 1..LatestSeq
    BY DEF TypeOK, SessionTypeOK
  <2> QED  BY <1>4, <2>1, ClientTypes, SeqTypes DEF FirstOf, OrderedOf, KnownOf
<1>5o. \A o \in outputs : o \in Nat /\ (rendered[d] < o \/ o <= rendered[d])
  <2>1. \A o \in outputs : o \in Nat
    BY <1>5
  <2> QED  BY <1>5, <2>1
<1>7. /\ rendered'[d] = h.seq /\ screen'[d] = screen[d] \o <<h.seq>>
      /\ To(h.seq) = To(rendered[d]) \cup {h.seq}
  BY NextWritten
<1>8. \A f \in Pending(d)' : h.seq < f.seq
  BY <1>4 DEF FirstOf, OrderedOf
<1> HIDE DEF h, t
<1>9. OrderedOf(d)'
  <2>1. Range(Coming(d)') = Range(Coming(d))
    BY <1>1
  <2>2. \A f \in Range(Coming(d)') : received'[d] < f.seq
    BY <1>2, <2>1 DEF FirstOf, OrderedOf
  <2> QED  BY <1>2, <1>4, <1>7, <1>8, <2>2 DEF FirstOf, OrderedOf
<1>11. GaplessOf(d)'
  <2>1. ASSUME NEW o \in outputs, h.seq < o, o \in Numbers(d)
        PROVE  o \in Numbers(d)'
    <3>1. PICK g \in Pending(d) : o = g.seq
      BY <2>1 DEF Numbers
    <3>2. g \in Pending(d)'
      BY <1>4, <1>5, <2>1, <3>1
    <3> QED  BY <3>1, <3>2 DEF Numbers
  <2>2. \A o \in outputs : h.seq < o => rendered[d] < o
    BY <1>5
  <2>3. \A f \in Pending(d)', o \in outputs : h.seq < o /\ o < f.seq => o \in Numbers(d)'
    BY <1>4, <2>1, <2>2 DEF FirstOf, GaplessOf
  <2>4. attached[d] => \A o \in outputs : h.seq < o /\ o <= lastSent[d] => o \in Numbers(d)'
    BY <2>1, <2>2 DEF FirstOf, GaplessOf
  <2> QED  BY <1>2, <1>7, <2>3, <2>4 DEF GaplessOf
<1>12. screen'[d] = Sorted(To(h.seq))
  <2> DEFINE A == To(rendered[d])
             B == {h.seq}
  <2>1. A \in SUBSET (1..LatestSeq) /\ B \in SUBSET (1..LatestSeq) /\ \A a \in A, b \in B : a < b
    <3>1. A \subseteq outputs /\ B \subseteq outputs
      BY <1>5 DEF To
    <3>2. \A a \in A : a \in Nat /\ a <= rendered[d]
      BY <1>5o DEF To
    <3>3. \A b \in B : b = h.seq
      OBVIOUS
    <3> HIDE DEF A, B
    <3>4. \A a \in A, b \in B : a < b
      BY <1>5, <3>2, <3>3
    <3> QED  BY <1>5, <3>1, <3>4
  <2>2. A \cup B = To(h.seq)
    BY <1>7
  <2>3. h.seq \in Nat \ {0}
    BY <1>5
  <2>4. Sorted(B) = <<h.seq>>
    BY <2>3, SortedOne
  <2>5. screen[d] = Sorted(A)
    BY DEF FirstOf
  <2> HIDE DEF A, B
  <2>6. Sorted(A) \o Sorted(B) = Sorted(A \cup B)
    BY <1>5, <2>1, SortedConcat
  <2> QED  BY <1>7, <2>2, <2>4, <2>5, <2>6
<1>13. To(rendered[d])' = To(h.seq)
  BY <1>2, <1>7 DEF To
<1> QED  BY <1>2, <1>9, <1>11, <1>12, <1>13 DEF FirstOf

LEMMA FirstStep ==
  ASSUME TypeOK, NEW d \in Clients, d \in Terminals, KnownOf(d), attached[d] => SentOf(d), Grown,
         FirstOf(d), CoveredOf(d), Event(d), drops'[d] = drops[d]
  PROVE  FirstOf(d)'
<1>0. drops[d] \in Nat
  BY ClientTypes
<1>1. CASE Rested(d) \/ Served(d) \/ Uploaded(d)
  <2>1. /\ UNCHANGED <<inbox[d], Coming(d), received[d], rendered[d], screen[d]>>
        /\ UNCHANGED <<attached[d], link[d], lastSent[d]>>
    BY <1>1 DEF Rested, Served, Uploaded, Handle, Viewer
  <2> QED  BY <2>1, FirstSame
<1>2. CASE Joined(d)
  BY <1>2 DEF Joined, FirstOf
<1>3. CASE Reached(d)
  BY <1>0, <1>3 DEF Reached, FirstOf
<1> QED  BY <1>1, <1>2, <1>3, FirstCut, FirstFed, FirstDelivered, FirstWrote DEF Event

\* What a step does to the screen and to what is serialized of it.
LEMMA ScreenSteps ==
  ASSUME TypeOK, NEW d \in Clients, [Next]_vars
  PROVE  \/ UNCHANGED <<snapshot[d], screen[d], rendered[d]>>
         \/ Idle(d)' \/ Serialize(d) \/ Commit(d)
<1> USE DEF viewers
<1>1. CASE Emit \/ Resize \/ UNCHANGED vars
  BY <1>1 DEF Emit, Resize, vars
<1>2. ASSUME NEW c \in Clients, DaemonStep(c) \/ Drop(c)
      PROVE  UNCHANGED viewers
  BY <1>2 DEF DaemonStep, HandleAttach, AttachReply, CompleteAttach, HandleAck, FlushSend, FlushEnd,
              HandleCheckpoint, Drop
<1>3. ASSUME NEW c \in Clients, ClientStep(c) \/ Checkpointing(c), c # d
      PROVE  UNCHANGED <<snapshot[d], screen[d], rendered[d]>>
  BY <1>3 DEF ClientStep, Deliver, Commit, NoticeClose, Connect, SendAttach, Checkpointing, Serialize,
              SendCheckpoint, TypeOK, ViewersTypeOK
<1>4. CASE Deliver(d)
  BY <1>4 DEF Deliver, Idle
<1>5. CASE NoticeClose(d) \/ Connect(d) \/ SendAttach(d)
  BY <1>5 DEF NoticeClose, Connect, SendAttach
<1>6. CASE SendCheckpoint(d)
  BY <1>6 DEF SendCheckpoint, Idle, NoSnapshot, TypeOK, ViewersTypeOK
<1> QED  BY <1>1, <1>2, <1>3, <1>4, <1>5, <1>6 DEF Next, ClientStep, Checkpointing

\* What is written behind a mark on the screen.
Behind(p, n) == {p[i] : i \in {j \in DOMAIN p : j > n}}

LEMMA AppendBehind ==
  ASSUME NEW p \in Seq(Nat), NEW s \in Nat, NEW n \in Nat, n <= Len(p)
  PROVE  Behind(p \o <<s>>, n) = Behind(p, n) \cup {s}
<1> DEFINE q == p \o <<s>>
           m == Len(p)
<1>1. /\ q \in Seq(Nat) /\ DOMAIN q = 1..m + 1 /\ DOMAIN p = 1..m /\ m \in Nat
      /\ q[m + 1] = s /\ \A i \in 1..m : q[i] = p[i]
  BY AppendIsConcat, AppendProperties
<1> HIDE DEF q, m
<1>2. \A i \in DOMAIN q : i > n <=> (i \in DOMAIN p /\ i > n) \/ i = m + 1
  BY <1>1 DEF m
<1>3. {j \in DOMAIN q : j > n} = {j \in DOMAIN p : j > n} \cup {m + 1}
  <2>1. DOMAIN p \subseteq DOMAIN q /\ m + 1 \in DOMAIN q
    BY <1>1
  <2> QED  BY <1>2, <2>1
<1>4. \A i \in DOMAIN p : q[i] = p[i]
  BY <1>1
<1> QED  BY <1>1, <1>3, <1>4 DEF q, Behind

\* A chunk written behind the serialization is late.
LEMMA SnapshotWrote ==
  ASSUME TypeOK, NEW d \in Clients, d \in Terminals, KnownOf(d), FirstOf(d), SnapshotOf(d), Commit(d)
  PROVE  SnapshotOf(d)'
<1>1. PICK s \in outputs :
        /\ s \in Nat \ {0} /\ rendered[d] < s /\ rendered'[d] = s
        /\ screen'[d] = screen[d] \o <<s>> /\ UNCHANGED outputs
        /\ To(s) = To(rendered[d]) \cup {s}
  BY EventCommit, NextWritten
<1>2. Idle(d)' => Idle(d)
  BY DEF Commit, Idle, LoopWrites, TypeOK, ViewersTypeOK, Snapshots
<1>3. snapshot'[d].body = snapshot[d].body
  BY DEF Commit, TypeOK, ViewersTypeOK, Snapshots
<1> SUFFICES ASSUME ~Idle(d)
             PROVE  /\ Len(snapshot'[d].body) <= Len(screen'[d])
                    /\ Late(d)' \subseteq To(rendered[d])'
                    /\ snapshot'[d].body = Sorted(To(rendered[d])' \ Late(d)')
  <2>1. Idle(d) => Idle(d)'
    BY DEF Commit, Idle, TypeOK, ViewersTypeOK, Snapshots
  <2> QED  BY <2>1 DEF SnapshotOf
<1> DEFINE p == screen[d]
           n == Len(snapshot[d].body)
<1>4. p \in Seq(Nat) /\ n \in Nat /\ n <= Len(p)
  BY DEF SnapshotOf, TypeOK, ViewersTypeOK, Snapshots
<1>5. Late(d) = Behind(p, n)
  BY DEF Late, Behind
<1>6. Late(d)' = Behind(p \o <<s>>, n)
  BY <1>1, <1>3 DEF Late, Behind
<1>7. Len(p \o <<s>>) = Len(p) + 1
  BY <1>1, <1>4
<1> HIDE DEF p, n
<1>8. Late(d)' = Late(d) \cup {s}
  BY <1>1, <1>4, <1>5, <1>6, AppendBehind
<1>9. To(rendered[d])' = To(rendered[d]) \cup {s}
  BY <1>1 DEF To
<1>10. s \notin To(rendered[d])
  <2>1. rendered[d] \in Nat
    BY ClientTypes
  <2> QED  BY <1>1, <2>1 DEF To
<1>11. To(rendered[d])' \ Late(d)' = To(rendered[d]) \ Late(d)
  BY <1>8, <1>9, <1>10
<1>12. Len(snapshot'[d].body) <= Len(screen'[d])
  BY <1>1, <1>3, <1>4, <1>7, LenProperties DEF p, n
<1> QED  BY <1>3, <1>8, <1>9, <1>11, <1>12 DEF SnapshotOf

LEMMA SnapshotStep ==
  ASSUME TypeOK, NEW d \in Clients, d \in Terminals, KnownOf(d), Grown, FirstOf(d), SnapshotOf(d),
         [Next]_vars
  PROVE  SnapshotOf(d)'
<1>1. PICK n \in Int : n = rendered[d] /\ n <= LatestSeq
  BY ClientTypes DEF KnownOf
<1>2. To(n)' = To(n)
  BY <1>1, ToSame
<1>3. CASE UNCHANGED <<snapshot[d], screen[d], rendered[d]>>
  <2>1. Late(d)' = Late(d) /\ (Idle(d)' <=> Idle(d))
    BY <1>3 DEF Late, Idle
  <2>2. To(rendered[d])' = To(rendered[d])
    BY <1>1, <1>2, <1>3 DEF To
  <2> QED  BY <1>3, <2>1, <2>2 DEF SnapshotOf
<1>4. CASE Idle(d)'
  BY <1>4 DEF SnapshotOf
<1>5. CASE Serialize(d)
  <2>1. /\ snapshot'[d].body = screen[d] /\ UNCHANGED <<screen, rendered, outputs>>
        /\ screen[d] \in Seq(Nat)
    BY <1>5 DEF Serialize, session, TypeOK, ViewersTypeOK
  <2>2. Late(d)' = {}
    BY <2>1 DEF Late
  <2>3. To(rendered[d])' = To(rendered[d])
    BY <2>1 DEF To
  <2>4. To(rendered[d]) \ {} = To(rendered[d])
    OBVIOUS
  <2>5. snapshot'[d].body = Sorted(To(rendered[d])' \ Late(d)')
    BY <2>1, <2>2, <2>3, <2>4 DEF FirstOf
  <2>6. Len(snapshot'[d].body) <= Len(screen'[d])
    BY <2>1
  <2> QED  BY <2>2, <2>5, <2>6 DEF SnapshotOf
<1> QED  BY <1>3, <1>4, <1>5, ScreenSteps, SnapshotWrote

\* What a step does to the store.
LEMMA StoreStep ==
  ASSUME TypeOK, [Next]_vars
  PROVE  \/ UNCHANGED <<outputs, retained, checkpoint>>
         \/ Emit \/ Resize
         \/ \E c \in Clients :
              LET r == Head(requests[c])
              IN /\ requests[c] # <<>> /\ r.kind = "checkpoint"
                 /\ checkpoint' = [seq |-> r.seq, body |-> r.body, late |-> r.late] /\ checkpoint.seq < r.seq
                 /\ retained' = Uncovered(r.seq) /\ UNCHANGED outputs
<1> USE DEF session
<1>1. ASSUME NEW c \in Clients, HandleCheckpoint(c)
      PROVE  \/ UNCHANGED <<outputs, retained, checkpoint>>
             \/ LET r == Head(requests[c])
                IN /\ requests[c] # <<>> /\ r.kind = "checkpoint"
                   /\ checkpoint' = [seq |-> r.seq, body |-> r.body, late |-> r.late] /\ checkpoint.seq < r.seq
                   /\ retained' = Uncovered(r.seq) /\ UNCHANGED outputs
  <2>1. requests[c] # <<>> /\ Head(requests[c]).kind = "checkpoint" /\ UNCHANGED outputs
    BY <1>1 DEF HandleCheckpoint, Handles
  <2> QED  BY <1>1, <2>1 DEF HandleCheckpoint
<1>2. ASSUME NEW c \in Clients, DaemonStep(c), ~HandleCheckpoint(c)
      PROVE  UNCHANGED <<outputs, retained, checkpoint>>
  BY <1>2 DEF DaemonStep, HandleAttach, AttachReply, CompleteAttach, HandleAck, FlushSend, FlushEnd
<1>3. ASSUME NEW c \in Clients, ClientStep(c) \/ Checkpointing(c) \/ Drop(c)
      PROVE  UNCHANGED <<outputs, retained, checkpoint>>
  BY <1>3 DEF ClientStep, Deliver, Commit, NoticeClose, Connect, SendAttach,
         Checkpointing, Serialize, SendCheckpoint, Drop
<1>4. CASE UNCHANGED vars
  BY <1>4 DEF vars
<1> QED  BY <1>1, <1>2, <1>3, <1>4 DEF Next

\* A frame, or a request, taken by the daemon or put in by a client.
LEMMA RequestsOf ==
  ASSUME TypeOK, NEW d \in Clients, Event(d)
  PROVE  \A r \in Range(requests'[d]) :
           \/ r \in Range(requests[d])
           \/ r.kind \in {"ack", "attach"}
           \/ /\ d \in Terminals /\ ~Idle(d) /\ UNCHANGED session
              /\ r = CheckpointRequest(rendered[d], snapshot[d].body, Late(d))
<1> DEFINE q == requests[d]
<1>0. /\ q \in Seq(Requests) /\ rendered[d] \in Nat /\ committed[d] \in Nat /\ screen[d] \in Seq(Nat)
      /\ inbox[d] \in Seq(Frames)
  BY ClientTypes
<1>1. /\ q # <<>> => Head(q) \in Range(q) /\ Range(Tail(q)) \subseteq Range(q)
      /\ \A r \in Requests : Range(Append(q, r)) = Range(q) \cup {r}
  <2> HIDE DEF q
  <2> QED  BY <1>0, AskedIn
<1>2. CASE requests'[d] = <<>>
  BY <1>2, NoneIn
<1>3. CASE q # <<>> /\ requests'[d] = Tail(q)
  BY <1>1, <1>3
<1>4. CASE requests'[d] = q
  BY <1>4
<1>5. CASE Wrote(d)
  <2> DEFINE n == Head(inbox[d]).seq
  <2>1. inbox[d] # <<>> /\ (requests'[d] = q \/ requests'[d] = Append(q, AckRequest(n)))
    BY <1>5 DEF Wrote
  <2>2. n \in Nat
    <3>1. Head(inbox[d]) \in Frames
      <4> DEFINE x == inbox[d]
      <4> HIDE DEF x
      <4>1. x \in Seq(Frames) /\ x # <<>> => Head(x) \in Frames
        BY TailIn
      <4> QED  BY <1>0, <2>1, <4>1 DEF x
    <3> QED  BY <3>1 DEF Frames
  <2> HIDE DEF n
  <2>3. AckRequest(n) \in Requests /\ AckRequest(n).kind = "ack"
    BY <2>2, RequestTypes DEF AckRequest
  <2> QED  BY <1>1, <1>4, <2>1, <2>3
<1>6. CASE Uploaded(d)
  <2> DEFINE k == CheckpointRequest(rendered[d], snapshot[d].body, Late(d))
  <2>1. d \in Terminals /\ ~Idle(d) /\ requests'[d] = Append(q, k) /\ UNCHANGED session
    BY <1>6 DEF Uploaded
  <2>2. k \in Requests
    BY UploadType
  <2> HIDE DEF k
  <2>3. \A r \in Range(requests'[d]) : r \in Range(q) \/ r = k
    BY <1>1, <2>1, <2>2
  <2> QED  BY <2>1, <2>3 DEF k
<1>7. CASE Reached(d)
  <2>1. requests'[d] = q \/ requests'[d] = Append(q, AttachRequest(committed[d]))
    BY <1>7 DEF Reached
  <2>2. AttachRequest(committed[d]) \in Requests /\ AttachRequest(committed[d]).kind = "attach"
    BY <1>0, RequestTypes DEF AttachRequest
  <2> QED  BY <1>1, <1>4, <2>1, <2>2
<1>8. CASE Rested(d) \/ Fed(d) \/ Joined(d) \/ Cut(d) \/ Served(d) \/ Delivered(d)
  <2>1. requests'[d] = <<>> \/ (q # <<>> /\ requests'[d] = Tail(q)) \/ requests'[d] = q
    BY <1>8 DEF Rested, Fed, Joined, Cut, Served, Delivered
  <2> QED  BY <1>2, <1>3, <1>4, <2>1
<1> QED  BY <1>5, <1>6, <1>7, <1>8 DEF Event

LEMMA ObserversStep ==
  ASSUME TypeOK, StreamInv, LinkInv, ObserversInv, [Next]_vars
  PROVE  ObserversInv'
<1> SUFFICES ASSUME NEW c \in Clients \ Terminals, NEW r \in Range(requests'[c])
             PROVE  r.kind # "checkpoint"
  BY DEF ObserversInv
<1>1. Event(c)
  BY ClientEvent
<1>2. \/ r \in Range(requests[c])
      \/ r.kind \in {"ack", "attach"}
  BY <1>1, RequestsOf
<1> QED  BY <1>2 DEF ObserversInv

LEMMA UploadsStep ==
  ASSUME TypeOK, NEW d \in Clients, KnownOf(d), Grown, SnapshotOf(d), UploadsOf(d), Event(d)
  PROVE  UploadsOf(d)'
<1> SUFFICES ASSUME NEW r \in Range(requests'[d]), r.kind = "checkpoint"
             PROVE  r.late \subseteq To(r.seq)' /\ r.body = Sorted(To(r.seq)' \ r.late)
  BY DEF UploadsOf
<1>1. CASE r \in Range(requests[d])
  <2>1. r.seq \in Nat /\ r.seq <= LatestSeq
    BY <1>1, SeqTypes DEF KnownOf
  <2> DEFINE n == r.seq
  <2> HIDE DEF n
  <2>2. n \in Int /\ n <= LatestSeq
    BY <2>1 DEF n
  <2>3. To(n)' = To(n)
    BY <2>2, ToSame
  <2> QED  BY <1>1, <2>3 DEF UploadsOf, n
<1>2. CASE r = CheckpointRequest(rendered[d], snapshot[d].body, Late(d)) /\ ~Idle(d) /\ UNCHANGED session
  <2>1. r.seq = rendered[d] /\ r.body = snapshot[d].body /\ r.late = Late(d) /\ UNCHANGED outputs
    BY <1>2 DEF CheckpointRequest, session
  <2>2. To(r.seq)' = To(r.seq)
    BY <2>1 DEF To
  <2> QED  BY <1>2, <2>1, <2>2 DEF SnapshotOf
<1> QED  BY <1>1, <1>2, RequestsOf

\* Nothing is given up while everything fits.
LEMMA NewestAll ==
  ASSUME NEW n \in Nat, NEW S \in SUBSET (1..n), NEW k \in Nat, n <= k
  PROVE  Newest(k, S) = S
<1> SUFFICES ASSUME NEW s \in S
             PROVE  Cardinality({r \in S : r > s}) < k
  BY DEF Newest
<1> DEFINE above == {r \in S : r > s}
           all == 1..n
<1>1. above \in SUBSET all /\ s \in all /\ s \notin above
  <2>1. \A r \in S : r \in all
    OBVIOUS
  <2>2. s \in Nat /\ ~ (s > s)
    OBVIOUS
  <2> HIDE DEF all
  <2> QED  BY <2>1, <2>2
<1>2. IsFiniteSet(all) /\ Cardinality(all) = n
  BY FS_Interval
<1> HIDE DEF above, all
<1>3. Cardinality(above) <= Cardinality(all) /\ Cardinality(above) # Cardinality(all) /\ IsFiniteSet(above)
  BY <1>1, <1>2, FS_Subset
<1>4. Cardinality(above) \in Nat
  BY <1>3, FS_CardinalityType
<1>5. Cardinality(above) < k
  BY <1>2, <1>3, <1>4
<1> QED  BY <1>5 DEF above

LEMMA CheckpointStep ==
  ASSUME OneTerminal, TypeOK, ObserversInv, Grown, UploadsOf(Creator), CheckpointInv,
         nextSeq' <= Retain + 1, [Next]_vars
  PROVE  CheckpointInv'
<1>0. /\ nextSeq \in Nat \ {0} /\ LatestSeq = nextSeq - 1 /\ Retain \in Nat
      /\ outputs \subseteq 1..nextSeq - 1 /\ retained \subseteq 1..nextSeq - 1
  BY LimitsAssumption DEF TypeOK, SessionTypeOK, LatestSeq
<1>1. PICK n \in Int : n = checkpoint.seq /\ n <= LatestSeq
  BY CheckpointType
<1>2. To(n)' = To(n)
  BY <1>1, ToSame
<1>3. /\ \A o \in outputs : o <= n \/ o \in retained
      /\ \A s \in retained : n < s
      /\ checkpoint.late \subseteq To(n) /\ checkpoint.body = Sorted(To(n) \ checkpoint.late)
  BY <1>1 DEF CheckpointInv
<1>4. ASSUME checkpoint' = checkpoint
      PROVE  /\ checkpoint'.seq = n /\ checkpoint'.late \subseteq To(n)'
             /\ checkpoint'.body = Sorted(To(n)' \ checkpoint'.late)
  BY <1>1, <1>2, <1>3, <1>4
<1>5. CASE UNCHANGED <<outputs, retained, checkpoint>>
  BY <1>3, <1>4, <1>5 DEF CheckpointInv, To
<1>6. CASE Emit
  <2> DEFINE S == retained \cup {nextSeq}
  <2>1. /\ outputs' = outputs \cup {nextSeq} /\ UNCHANGED checkpoint /\ retained' = Newest(Retain, S)
        /\ nextSeq' = nextSeq + 1
    BY <1>6 DEF Emit, PushOutput, session
  <2>2. S \in SUBSET (1..nextSeq) /\ nextSeq <= Retain /\ nextSeq \in Nat
    BY <1>0, <2>1
  <2> HIDE DEF S
  <2>3. retained' = S
    BY <1>0, <2>1, <2>2, NewestAll
  <2>4. n < nextSeq
    BY <1>0, <1>1
  <2>5. \A o \in outputs' : o <= n \/ o \in retained'
    BY <1>3, <2>1, <2>3 DEF S
  <2>6. \A s \in retained' : n < s
    BY <1>3, <2>3, <2>4 DEF S
  <2>7. /\ checkpoint'.seq = n /\ checkpoint'.late \subseteq To(n)'
        /\ checkpoint'.body = Sorted(To(n)' \ checkpoint'.late)
    BY <1>4, <2>1
  <2> QED  BY <2>5, <2>6, <2>7 DEF CheckpointInv, To
<1>7. CASE Resize
  <2>1. /\ UNCHANGED <<outputs, checkpoint>> /\ retained' \subseteq retained \cup {nextSeq}
        /\ \A o \in outputs : o \in retained => o \in retained'
    BY <1>7, Zenon DEF Resize
  <2>2. n < nextSeq
    BY <1>0, <1>1
  <2>3. /\ checkpoint'.seq = n /\ checkpoint'.late \subseteq To(n)'
        /\ checkpoint'.body = Sorted(To(n)' \ checkpoint'.late)
    BY <1>4, <2>1
  <2> QED  BY <1>3, <2>1, <2>2, <2>3 DEF CheckpointInv, To
<1>8. ASSUME NEW c \in Clients, requests[c] # <<>>, Head(requests[c]).kind = "checkpoint",
             checkpoint' = [seq |-> Head(requests[c]).seq, body |-> Head(requests[c]).body,
                            late |-> Head(requests[c]).late],
             checkpoint.seq < Head(requests[c]).seq,
             retained' = Uncovered(Head(requests[c]).seq), UNCHANGED outputs
      PROVE  CheckpointInv'
  <2> DEFINE r == Head(requests[c])
             q == requests[c]
  <2>1. r \in Range(q) /\ q \in Seq(Requests)
    <3>1. q \in Seq(Requests) /\ q # <<>>
      BY <1>8, ClientTypes
    <3> HIDE DEF q
    <3>2. Head(q) \in Range(q)
      BY <3>1, AskedIn
    <3> QED  BY <3>1, <3>2 DEF q
  <2>2. c = Creator
    BY <1>8, <2>1 DEF ObserversInv, OneTerminal
  <2>3. r.late \subseteq To(r.seq) /\ r.body = Sorted(To(r.seq) \ r.late) /\ r.seq \in Nat
    <3>1. r.late \subseteq To(r.seq) /\ r.body = Sorted(To(r.seq) \ r.late)
      BY <1>8, <2>1, <2>2 DEF UploadsOf
    <3> QED  BY <2>1, <3>1, SeqTypes
  <2>4. /\ checkpoint'.seq = r.seq /\ checkpoint'.body = r.body /\ checkpoint'.late = r.late
        /\ n < r.seq
        /\ \A s : s \in retained' <=> s \in retained /\ s > r.seq
    BY <1>1, <1>8 DEF Uncovered
  <2> HIDE DEF r, q
  <2>5. ASSUME NEW o \in outputs
        PROVE  o <= r.seq \/ o \in retained'
    <3>1. o \in Nat
      BY <1>0
    <3> QED  BY <1>1, <1>3, <2>3, <2>4, <3>1
  <2>6. \A s \in retained' : r.seq < s
    <3>1. \A s \in retained : s \in Nat
      BY <1>0
    <3> QED  BY <2>3, <2>4, <3>1
  <2>7. To(r.seq) = {o \in outputs' : o <= checkpoint'.seq}
    BY <1>8, <2>4 DEF To
  <2> QED  BY <1>8, <2>3, <2>4, <2>5, <2>6, <2>7 DEF CheckpointInv, To
<1> QED  BY <1>5, <1>6, <1>7, <1>8, StoreStep

LEMMA RebuildStep ==
  ASSUME OneTerminal, TypeOK, StreamInv, LinkInv, CreditInv, ObserversInv, RebuildInv, [Next]_vars
  PROVE  RebuildInv'
<1> DEFINE d == Creator
<1>0. d \in Clients /\ d \in Terminals
  BY ClientsAssumption
<1> HIDE DEF d
<1>1. Event(d) /\ Grown /\ KnownOf(d) /\ CreditOf(d) /\ (attached[d] => SentOf(d))
  BY <1>0, ClientEvent, GrownStep DEF CreditInv, CreditOf, WindowOf
<1> SUFFICES ASSUME Lossless'
             PROVE  FirstOf(d)' /\ SnapshotOf(d)' /\ CoveredOf(d)' /\ UploadsOf(d)' /\ CheckpointInv'
  BY DEF RebuildInv, d
<1>2. Lossless /\ drops'[d] = drops[d] /\ nextSeq' <= Retain + 1
  <2>1. nextSeq' <= Retain + 1 /\ drops'[d] = 0
    BY DEF Lossless, d
  <2>2. nextSeq \in Nat /\ nextSeq' \in Nat /\ nextSeq <= nextSeq' /\ Retain \in Nat
    <3>1. TypeOK'
      BY TypeStep
    <3>2. nextSeq \in Nat /\ nextSeq' \in Nat
      BY <3>1 DEF TypeOK, SessionTypeOK
    <3> DEFINE m == LatestSeq
               n == LatestSeq'
    <3>3. m \in Nat /\ n \in Nat /\ m <= n
      BY OutputGrows
    <3>4. m = nextSeq - 1 /\ n = nextSeq' - 1
      BY DEF LatestSeq
    <3> HIDE DEF m, n
    <3>5. \A a, b \in Nat : m = a - 1 /\ n = b - 1 => a <= b
      BY <3>3
    <3>6. nextSeq <= nextSeq'
      BY <3>2, <3>4, <3>5
    <3> QED  BY <3>2, <3>6, LimitsAssumption
  <2>3. drops[d] = 0
    BY <1>0, <1>1, <2>1, DropsGrow, ClientTypes
  <2> QED  BY <2>1, <2>2, <2>3 DEF Lossless, d
<1>3. FirstOf(d) /\ SnapshotOf(d) /\ CoveredOf(d) /\ UploadsOf(d) /\ CheckpointInv
  BY <1>2 DEF RebuildInv, d
<1>4. FirstOf(d)'
  BY <1>0, <1>1, <1>2, <1>3, FirstStep
<1>5. UploadsOf(d)'
  BY <1>0, <1>1, <1>3, UploadsStep
<1>6. CheckpointInv'
  BY <1>1, <1>2, <1>3, CheckpointStep DEF d
<1>7. \/ checkpoint' = checkpoint
      \/ requests[d] # <<>> /\ checkpoint'.seq = Head(requests[d]).seq
  <2>1. CASE Emit \/ Resize
    BY <2>1 DEF Emit, Resize
  <2>2. ASSUME NEW c \in Clients, requests[c] # <<>>, Head(requests[c]).kind = "checkpoint",
               checkpoint'.seq = Head(requests[c]).seq
        PROVE  requests[d] # <<>> /\ checkpoint'.seq = Head(requests[d]).seq
    <3> DEFINE q == requests[c]
    <3>1. q \in Seq(Requests) /\ q # <<>>
      BY <2>2, ClientTypes
    <3> HIDE DEF q
    <3>2. Head(q) \in Range(q)
      BY <3>1, AskedIn
    <3>3. c = d
      BY <2>2, <3>2 DEF ObserversInv, OneTerminal, d, q
    <3> QED  BY <2>2, <3>3
  <2> QED  BY <2>1, <2>2, StoreStep
<1>8. CoveredOf(d)'
  BY <1>0, <1>1, <1>3, <1>7, CoveredClient
<1>9. SnapshotOf(d)'
  BY <1>0, <1>1, <1>3, SnapshotStep
<1> QED  BY <1>4, <1>5, <1>6, <1>8, <1>9

LEMMA RebuildInit == Init => ObserversInv /\ RebuildInv
<1> SUFFICES ASSUME Init
             PROVE  ObserversInv /\ RebuildInv
  OBVIOUS
<1>1. \A c \in Clients : requests[c] = <<>> /\ Range(requests[c]) = {}
  BY NoneIn DEF Init
<1>2. Creator \in Clients
  BY ClientsAssumption
<1>3. /\ inbox[Creator] = <<>> /\ Coming(Creator) = <<>> /\ attached[Creator] /\ screen[Creator] = <<>>
      /\ lastSent[Creator] = 0 /\ outputs = {} /\ retained = {} /\ checkpoint = NoCheckpoint
      /\ checkpoint.seq = -1 /\ checkpoint.body = <<>> /\ checkpoint.late = {}
  <2>1. /\ inbox[Creator] = <<>> /\ attached[Creator] /\ screen[Creator] = <<>>
        /\ lastSent[Creator] = 0 /\ outputs = {} /\ retained = {} /\ checkpoint = NoCheckpoint
    BY <1>2 DEF Init
  <2>2. out[Creator] = <<>> /\ reply[Creator] = <<>> /\ held[Creator] = <<>>
    BY <1>2 DEF Init
  <2>3. Coming(Creator) = <<>>
    BY <2>2 DEF Coming
  <2> QED  BY <2>1, <2>3 DEF NoCheckpoint
<1>4. /\ Pending(Creator) = {} /\ Range(Coming(Creator)) = {}
  BY <1>3, NoneIn DEF Pending
<1>5. \A n \in Int : To(n) = {}
  BY <1>3 DEF To
<1>6. FirstOf(Creator)
  <2>1. To(rendered[Creator]) = {}
    BY <1>3 DEF To
  <2> QED  BY <1>3, <1>4, <2>1, SortedNone DEF FirstOf, OrderedOf, GaplessOf
<1>7. CheckpointInv
  <2>1. To(checkpoint.seq) = {}
    BY <1>3 DEF To
  <2>2. To(checkpoint.seq) \ checkpoint.late = {}
    BY <2>1
  <2> QED  BY <1>3, <2>1, <2>2, SortedNone DEF CheckpointInv
<1>8. CoveredOf(Creator) /\ UploadsOf(Creator)
  <2>1. UploadsOf(Creator)
    BY <1>1, <1>2 DEF UploadsOf
  <2>2. checkpoint.seq <= lastSent[Creator]
    <3>1. -1 <= 0
      OBVIOUS
    <3> QED  BY <1>3, <3>1
  <2>3. \A r \in Range(requests[Creator]) : r.seq <= lastSent[Creator]
    BY <1>1, <1>2
  <2> QED  BY <2>1, <2>2, <2>3 DEF CoveredOf
<1>9. SnapshotOf(Creator)
  BY <1>2 DEF Init, SnapshotOf, Idle, NoSnapshot
<1> QED  BY <1>1, <1>6, <1>7, <1>8, <1>9 DEF ObserversInv, RebuildInv

\* When one terminal watches the session, with any number of observers, and it
\* has not lost its connection and nothing was evicted, the checkpoint and the
\* retained frames rebuild all of the output, but for the chunks written between
\* the serialization of the checkpoint and its numbering.
THEOREM RebuildAlways ==
  ASSUME OneTerminal
  PROVE  Spec => []RebuildComplete
<1> DEFINE Inv == /\ TypeOK /\ StreamInv /\ LinkInv /\ CreditInv /\ ReplyInv
                  /\ ObserversInv /\ RebuildInv
<1>1. Init => Inv
  BY TypeInit, StreamInvInit, LinkInit, CreditInit, RebuildInit
<1>2. Inv /\ [Next]_vars => Inv'
  BY TypeStep, StreamInvStep, LinkStep, CreditStep, ReplyStep, ObserversStep, RebuildStep
<1>3. Inv => RebuildComplete
  <2> SUFFICES ASSUME Inv, nextSeq <= Retain + 1, \A c \in Terminals : drops[c] = 0
               PROVE  checkpoint.body \o Sorted(retained \cap outputs)
                        = Sorted(outputs \ checkpoint.late)
    BY DEF RebuildComplete
  <2>1. CheckpointInv
    BY ClientsAssumption DEF Lossless, RebuildInv
  <2>2. LatestSeq \in Nat /\ outputs \in SUBSET (1..LatestSeq) /\ checkpoint.seq \in Int
    BY CheckpointType DEF TypeOK, SessionTypeOK
  <2> DEFINE A == To(checkpoint.seq) \ checkpoint.late
             B == retained \cap outputs
  <2>0. \A o \in outputs : o \in retained => o \notin To(checkpoint.seq)
    <3>1. \A o \in outputs : o \in Nat
      BY <2>2
    <3> QED  BY <2>1, <2>2, <3>1 DEF CheckpointInv, To
  <2>3. /\ A \in SUBSET (1..LatestSeq) /\ B \in SUBSET (1..LatestSeq)
        /\ A \cup B = outputs \ checkpoint.late
    BY <2>0, <2>1, <2>2 DEF CheckpointInv, To
  <2>4. \A a \in A, b \in B : a < b
    <3>1. \A a \in A : a \in Nat /\ a <= checkpoint.seq
      BY <2>2 DEF To
    <3>2. \A b \in B : b \in Nat /\ checkpoint.seq < b
      <4>0. \A o \in outputs : o \in Nat
        BY <2>2
      <4>1. \A b \in B : b \in Nat
        BY <4>0
      <4>2. \A b \in B : checkpoint.seq < b
        BY <2>1 DEF CheckpointInv
      <4> QED  BY <4>1, <4>2
    <3> HIDE DEF A, B
    <3> QED  BY <2>2, <3>1, <3>2
  <2>5. checkpoint.body = Sorted(A)
    BY <2>1 DEF CheckpointInv
  <2> HIDE DEF A
  <2>6. Sorted(A) \o Sorted(B) = Sorted(A \cup B)
    BY <2>2, <2>3, <2>4, SortedConcat
  <2> QED  BY <2>3, <2>5, <2>6
<1> QED  BY <1>1, <1>2, <1>3, PTL DEF Spec

=============================================================================
