------------------------ MODULE SessionLifecycleProofs ------------------------
(***************************************************************************)
(* Theorems about SessionLifecycle: its types, that an exit is reported    *)
(* after the last output, that no process is left without an entry, and    *)
(* that a tab tells the truth about its creation.                          *)
(***************************************************************************)
EXTENDS SessionLifecycle, SequenceTheorems, TLAPS

(* Queues: what is in one, and what is in it more than once. *)

In(x, q) == \E i \in DOMAIN q : q[i] = x
Once(X, q) == \A i, j \in DOMAIN q : q[i] \in X /\ q[j] \in X => i = j

\* Nothing is in an empty queue.
LEMMA EmptyQueue == \A x : ~In(x, <<>>) /\ Once(x, <<>>)
  BY DEF In, Once

\* A message put at the end is in the queue with those that were in it.
LEMMA Appended ==
  ASSUME NEW S, NEW q \in Seq(S), NEW m \in S
  PROVE  /\ Append(q, m) \in Seq(S)
         /\ \A x : In(x, Append(q, m)) <=> In(x, q) \/ x = m
         /\ \A X : Once(X, q) /\ (m \in X => \A x \in X : ~In(x, q)) => Once(X, Append(q, m))
<1> DEFINE n == Len(q)  a == Append(q, m)
<1>1. a \in Seq(S) /\ Len(a) = n + 1 /\ n \in Nat /\ \A i \in 1..n : a[i] = q[i]
  BY AppendProperties
<1>2. a[n + 1] = m /\ DOMAIN a = 1..(n + 1) /\ DOMAIN q = 1..n
  BY <1>1, AppendProperties, LenProperties
<1>3. ASSUME NEW x PROVE In(x, a) <=> In(x, q) \/ x = m
  <2>1. ASSUME In(x, a) PROVE In(x, q) \/ x = m
    <3>1. PICK i \in DOMAIN a : a[i] = x
      BY <2>1 DEF In
    <3>2. CASE i = n + 1
      BY <3>1, <3>2, <1>2
    <3>3. CASE i # n + 1
      <4>1. i \in 1..n
        BY <3>3, <1>1, <1>2
      <4> QED  BY <4>1, <3>1, <1>1, <1>2 DEF In
    <3> QED  BY <3>2, <3>3
  <2>2. ASSUME In(x, q) PROVE In(x, a)
    <3>1. PICK i \in 1..n : q[i] = x
      BY <2>2, <1>2 DEF In
    <3>2. i \in DOMAIN a /\ a[i] = x
      BY <3>1, <1>1, <1>2
    <3> QED  BY <3>2 DEF In
  <2>3. ASSUME x = m PROVE In(x, a)
    <3>1. n + 1 \in DOMAIN a
      BY <1>1, <1>2
    <3> QED  BY <3>1, <2>3, <1>2 DEF In
  <2> QED  BY <2>1, <2>2, <2>3
<1>4. ASSUME NEW X, Once(X, q), m \in X => \A x \in X : ~In(x, q)
      PROVE  Once(X, a)
  <2>1. SUFFICES ASSUME NEW i \in DOMAIN a, NEW j \in DOMAIN a, a[i] \in X, a[j] \in X
                 PROVE  i = j
    BY DEF Once
  <2>2. ASSUME NEW k \in 1..n, a[k] \in X PROVE m \notin X
    BY <2>2, <1>1, <1>2, <1>4 DEF In
  <2>3. \A k \in DOMAIN a : k \in 1..n \/ k = n + 1
    BY <1>1, <1>2
  <2>4. CASE i \in 1..n /\ j \in 1..n
    BY <2>1, <2>4, <1>1, <1>2, <1>4 DEF Once
  <2>5. CASE i = n + 1 \/ j = n + 1
    BY <2>1, <2>2, <2>3, <2>5, <1>2
  <2> QED  BY <2>3, <2>4, <2>5
<1> QED  BY <1>1, <1>3, <1>4

\* Taking the first message leaves the others.
LEMMA Taken ==
  ASSUME NEW S, NEW q \in Seq(S), q # <<>>
  PROVE  /\ Tail(q) \in Seq(S) /\ Head(q) \in S /\ In(Head(q), q)
         /\ \A x : In(x, Tail(q)) => In(x, q)
         /\ \A X : Once(X, q) => /\ Once(X, Tail(q))
                                 /\ Head(q) \in X => \A x \in X : ~In(x, Tail(q))
<1> DEFINE n == Len(q)  t == Tail(q)
<1>1. t \in Seq(S) /\ Len(t) = n - 1 /\ \A i \in 1..Len(t) : t[i] = q[i + 1]
  BY HeadTailProperties
<1>2. n \in Nat /\ n # 0 /\ DOMAIN q = 1..n /\ DOMAIN t = 1..(n - 1) /\ Head(q) = q[1] /\ Head(q) \in S
  BY <1>1, EmptySeq, LenProperties, HeadTailProperties
<1>3. 1 \in DOMAIN q /\ \A i \in DOMAIN t : i + 1 \in DOMAIN q /\ i + 1 # 1 /\ t[i] = q[i + 1]
  BY <1>1, <1>2
<1>4. In(Head(q), q) /\ \A x : In(x, t) => In(x, q)
  BY <1>2, <1>3 DEF In
<1>5. ASSUME NEW X, Once(X, q) PROVE Once(X, t)
  <2>1. SUFFICES ASSUME NEW i \in DOMAIN t, NEW j \in DOMAIN t, t[i] \in X, t[j] \in X
                 PROVE  i = j
    BY DEF Once
  <2>2. i + 1 = j + 1
    BY <2>1, <1>3, <1>5 DEF Once
  <2> QED  BY <2>2, <1>2
<1>6. ASSUME NEW X, Once(X, q), Head(q) \in X, NEW x \in X PROVE ~In(x, t)
  BY <1>2, <1>3, <1>6 DEF In, Once
<1> QED  BY <1>1, <1>2, <1>4, <1>5, <1>6

\* What is left of a queue that is cut off was in it.
LEMMA CutOff ==
  ASSUME NEW S, NEW q \in Seq(S), NEW n \in 0..Len(q)
  PROVE  /\ SubSeq(q, 1, n) \in Seq(S)
         /\ \A x : In(x, SubSeq(q, 1, n)) => In(x, q)
         /\ \A X : Once(X, q) => Once(X, SubSeq(q, 1, n))
<1> DEFINE t == SubSeq(q, 1, n)
<1>1. Len(q) \in Nat /\ DOMAIN q = 1..Len(q)
  BY LenProperties
<1>2. \A i \in 1..n : q[i] \in S
  BY <1>1, ElementOfSeq
<1>3. t \in Seq(S) /\ Len(t) = n /\ \A i \in 1..n : t[i] = q[i]
  BY <1>1, <1>2, SubSeqProperties
<1>4. DOMAIN t = 1..n /\ 1..n \subseteq DOMAIN q
  BY <1>1, <1>3, LenProperties
<1>5. \A x : In(x, t) => In(x, q)
  BY <1>3, <1>4 DEF In
<1>6. \A X : Once(X, q) => Once(X, t)
  BY <1>3, <1>4 DEF Once
<1> QED  BY <1>3, <1>5, <1>6

-----------------------------------------------------------------------------
(* Types, by what the variables belong to. *)

Steps == {"idle", "reserved", "spawned", "attaching", "joining", "closing", "gone"}
ThreadsOK ==
  /\ thread \in [Conns -> [step : Steps, s : Sessions \union {"none"}, exit : BOOLEAN]]
  /\ \A c \in Conns : thread[c].step \notin {"idle", "gone"} => thread[c].s \in Sessions

DaemonOK ==
  /\ entry \in [Sessions -> {"none", "alive", "exited"}] /\ born \in [Sessions -> Nat]
  /\ pty \subseteq Sessions /\ kept \in [Sessions -> Nat]
  /\ subscribed \in [Conns -> SUBSET Sessions]

ProcessOK ==
  /\ proc \in [Sessions -> {"none", "running", "dead"}]
  /\ made \in [Sessions -> 0..MaxOut] /\ unread \in [Sessions -> Nat]
  /\ reader \in [Sessions -> {"none", "reading", "done"}]
  /\ chan \in [Sessions -> {<<>>, <<"output">>, <<"status">>}]
  /\ sink \in [Sessions -> [held : 0..2, status : BOOLEAN, ended : BOOLEAN]]

QueuesOK ==
  /\ inbox \in [Conns -> Seq(Requests)]
  /\ control \in [Conns -> Seq(Frames)] /\ output \in [Conns -> Seq(Frames)]

ClientOK ==
  /\ opened \in 0..MaxConns /\ conn \in {0, opened}
  /\ todo \subseteq Requests /\ waiting \subseteq Requests
  /\ attached \subseteq Sessions /\ closed \subseteq Sessions
  /\ pendingStatus \subseteq Sessions /\ retry \in BOOLEAN /\ probed \subseteq Sessions
  /\ tab \in [Sessions -> {"none", "creating", "open", "failed", "closed", "saved", "forgotten"}]
  /\ shown \in [Sessions -> {"none", "running", "exited"}]
  /\ restarts \in 0..MaxRestarts

\* Some session is the youngest: what Max is asked for in Reserve exists.
Youngest == Sessions # {} => \E s \in Sessions : \A r \in Sessions : born[r] <= born[s]

TypeInv ==
  /\ ThreadsOK /\ DaemonOK /\ ProcessOK /\ QueuesOK /\ ClientOK
  /\ crashes \in 0..MaxCrashes /\ Youngest

\* A part whose variables do not change keeps its types.
LEMMA Kept ==
  ASSUME TypeInv
  PROVE  /\ UNCHANGED thread => ThreadsOK'
         /\ UNCHANGED daemon => DaemonOK' /\ Youngest'
         /\ UNCHANGED process => ProcessOK'
         /\ UNCHANGED <<inbox, control, output>> => QueuesOK'
         /\ UNCHANGED client => ClientOK'
         /\ UNCHANGED born => Youngest'
         /\ UNCHANGED crashes => crashes' \in 0..MaxCrashes
<1>1. UNCHANGED thread => ThreadsOK'
  BY DEF TypeInv, ThreadsOK
<1>2. UNCHANGED daemon => DaemonOK' /\ Youngest'
  BY DEF TypeInv, DaemonOK, Youngest, daemon
<1>3. UNCHANGED process => ProcessOK'
  BY DEF TypeInv, ProcessOK, process
<1>4. UNCHANGED <<inbox, control, output>> => QueuesOK'
  BY DEF TypeInv, QueuesOK
<1>5. UNCHANGED client => ClientOK'
  BY DEF TypeInv, ClientOK, client
<1>6. UNCHANGED born => Youngest'
  BY DEF TypeInv, Youngest
<1>7. UNCHANGED crashes => crashes' \in 0..MaxCrashes
  BY DEF TypeInv
<1> QED  BY <1>1, <1>2, <1>3, <1>4, <1>5, <1>6, <1>7

\* The largest of the numbers in born is one of them.
LEMMA OldestFirst ==
  ASSUME TypeInv, NEW s \in Sessions
  PROVE  LET m == Max({born[r] : r \in Sessions})
         IN  m \in Nat /\ \A r \in Sessions : born[r] <= m
<1> DEFINE B == {born[r] : r \in Sessions}
<1>1. PICK t \in Sessions : \A r \in Sessions : born[r] <= born[t]
  BY DEF TypeInv, Youngest
<1>2. B \subseteq Nat /\ born[t] \in B /\ \A x \in B : born[t] >= x
  BY <1>1 DEF TypeInv, DaemonOK
<1>3. Max(B) \in B /\ \A x \in B : Max(B) >= x
  BY <1>2 DEF Max
<1> QED  BY <1>2, <1>3

\* Frames are frames, and tell apart what they answer.
LEMMA FrameType ==
  /\ \A r \in Requests : Ok(r) \in Frames /\ Err(r) \in Frames
  /\ \A s \in Sessions : [k |-> "exit", s |-> s] \in Frames
  /\ \A s \in Sessions, op \in {"create", "close"} \union Attaching :
       Request(op, s) \in Requests /\ Creation(s) = Request("create", s)
  BY DEF Requests, Frames, Ok, Err, Request, Creation

\* A reply is put behind the others, on the client's connection only.
LEMMA ReplyEffect ==
  ASSUME NEW queue \in [Conns -> Seq(Frames)], NEW c \in Conns, NEW f \in Frames
  PROVE  /\ Reply(queue, c, f) \in [Conns -> Seq(Frames)]
         /\ \A d \in Conns : Reply(queue, c, f)[d]
                               = IF d = c /\ c = conn THEN Append(queue[d], f) ELSE queue[d]
<1>1. Append(queue[c], f) \in Seq(Frames)
  BY Appended
<1> QED  BY <1>1 DEF Reply

\* What is busy is busy with a session.
LEMMA BusyType ==
  ASSUME TypeInv, NEW c \in Conns, NEW s \in Sessions, NEW step \in Steps, Busy(c, step, s)
  PROVE  ThreadsOK'
<1> DEFINE t == [step |-> step, s |-> s, exit |-> FALSE]
<1>1. t \in [step : Steps, s : Sessions \union {"none"}, exit : BOOLEAN]
  OBVIOUS
<1>2. thread' = [thread EXCEPT ![c] = t]
  BY DEF Busy
<1> HIDE DEF t
<1>3. thread' \in [Conns -> [step : Steps, s : Sessions \union {"none"}, exit : BOOLEAN]]
  BY <1>1, <1>2 DEF TypeInv, ThreadsOK
<1>4. t.s \in Sessions
  BY DEF t
<1> QED  BY <1>2, <1>3, <1>4 DEF TypeInv, ThreadsOK

\* A thread that has nothing to do, and one that has ended, hold no exit.
LEMMA IdleType ==
  /\ Idle \in [step : Steps, s : Sessions \union {"none"}, exit : BOOLEAN]
  /\ Gone \in [step : Steps, s : Sessions \union {"none"}, exit : BOOLEAN]
  /\ Idle.step = "idle" /\ ~Idle.exit /\ Gone.step = "gone" /\ ~Gone.exit
<1>1. Idle \in [step : Steps, s : Sessions \union {"none"}, exit : BOOLEAN]
  BY DEF Idle, Steps
<1>2. Idle.step = "idle" /\ Idle.exit = FALSE
  BY DEF Idle
<1>3. "gone" \in Steps
  BY DEF Steps
<1>4. Gone \in [step : Steps, s : Sessions \union {"none"}, exit : BOOLEAN]
  BY <1>1, <1>3 DEF Gone
<1>5. Gone.step = "gone" /\ Gone.exit = Idle.exit
  BY <1>1, <1>3 DEF Gone
<1> QED  BY <1>1, <1>2, <1>4, <1>5

\* A thread that is done, or gone, keeps the threads' types.
LEMMA DoneType ==
  ASSUME TypeInv, NEW c \in Conns, Done(c) \/ thread' = [thread EXCEPT ![c] = Gone]
  PROVE  ThreadsOK'
<1>1. PICK t \in {Idle, Gone} : thread' = [thread EXCEPT ![c] = t]
  BY DEF Done
<1>2. /\ t \in [step : Steps, s : Sessions \union {"none"}, exit : BOOLEAN]
      /\ t.step \in {"idle", "gone"}
  BY IdleType
<1>3. thread' \in [Conns -> [step : Steps, s : Sessions \union {"none"}, exit : BOOLEAN]]
  BY <1>1, <1>2 DEF TypeInv, ThreadsOK
<1> QED  BY <1>1, <1>2, <1>3 DEF TypeInv, ThreadsOK

\* The types hold at the start ...
LEMMA TypeInit == Init => TypeInv
<1> SUFFICES ASSUME Init PROVE TypeInv
  OBVIOUS
<1>1. ThreadsOK
  <2>1. thread = [c \in Conns |-> Gone]
    BY DEF Init
  <2> QED  BY <2>1, IdleType DEF ThreadsOK
<1>2. 0 \in 0..MaxOut /\ 0 \in 0..MaxConns /\ 0 \in 0..MaxRestarts /\ 0 \in 0..MaxCrashes
  BY LifecycleAssumption
<1>3. DaemonOK /\ Youngest
  BY <1>2 DEF Init, DaemonOK, Youngest
<1>4. Sleeping \in [held : 0..2, status : BOOLEAN, ended : BOOLEAN]
  BY DEF Sleeping
<1>5. ProcessOK
  BY <1>2, <1>4 DEF Init, ProcessOK
<1>6. <<>> \in Seq(Requests) /\ <<>> \in Seq(Frames)
  OBVIOUS
<1>7. QueuesOK
  BY <1>6 DEF Init, QueuesOK
<1>8. ClientOK
  BY <1>2 DEF Init, ClientOK
<1>9. crashes \in 0..MaxCrashes
  BY <1>2 DEF Init
<1> QED  BY <1>1, <1>3, <1>5, <1>7, <1>8, <1>9 DEF TypeInv

\* ... after a step of a process, of its reader, or of its event thread ...
LEMMA TypeProcess ==
  ASSUME TypeInv, NEW s \in Sessions, Write(s) \/ Exit(s) \/ Read(s) \/ TakeEvent(s)
  PROVE  TypeInv'
<1>1. UNCHANGED <<daemon, client, thread, inbox, control, output, crashes>>
  BY DEF Write, Exit, Read, TakeEvent
<1>2. ProcessOK'
  <2>1. ProcessOK /\ MaxOut \in Nat
    BY LifecycleAssumption DEF TypeInv
  <2>2. CASE Write(s)
    <3>1. made[s] + 1 \in 0..MaxOut /\ unread[s] + 1 \in Nat
      BY <2>1, <2>2 DEF Write, ProcessOK
    <3>2. /\ made' = [made EXCEPT ![s] = made[s] + 1]
          /\ unread' = [unread EXCEPT ![s] = unread[s] + 1]
          /\ UNCHANGED <<proc, reader, chan, sink>>
      BY <2>2 DEF Write
    <3> QED  BY <2>1, <3>1, <3>2 DEF ProcessOK
  <2>3. CASE Exit(s)
    BY <2>1, <2>3 DEF Exit, ProcessOK
  <2>4. CASE Read(s)
    <3>1. UNCHANGED <<proc, made, sink>>
      BY <2>4 DEF Read
    <3>2. unread' \in [Sessions -> Nat]
      <4>1. CASE unread[s] > 0 /\ unread' = [unread EXCEPT ![s] = @ - 1]
        BY <2>1, <4>1 DEF ProcessOK
      <4>2. CASE UNCHANGED unread
        BY <2>1, <4>2 DEF ProcessOK
      <4> QED  BY <2>4, <4>1, <4>2 DEF Read
    <3>3. chan' \in [Sessions -> {<<>>, <<"output">>, <<"status">>}]
      <4>1. PICK m \in {<<"output">>, <<"status">>} : chan' = [chan EXCEPT ![s] = m]
        BY <2>4 DEF Read
      <4> QED  BY <2>1, <4>1 DEF ProcessOK
    <3>4. reader' \in [Sessions -> {"none", "reading", "done"}]
      BY <2>1, <2>4 DEF Read, ProcessOK
    <3> QED  BY <2>1, <3>1, <3>2, <3>3, <3>4 DEF ProcessOK
  <2>5. CASE TakeEvent(s)
    <3>1. chan' = [chan EXCEPT ![s] = <<>>] /\ UNCHANGED <<proc, made, unread, reader>>
      BY <2>5 DEF TakeEvent
    <3>2. chan' \in [Sessions -> {<<>>, <<"output">>, <<"status">>}]
      BY <2>1, <3>1 DEF ProcessOK
    <3>3. sink[s].held + 1 \in 0..2
      <4>1. sink[s].held \in 0..2
        BY <2>1 DEF ProcessOK
      <4> QED  BY <2>5, <4>1 DEF TakeEvent
    <3>4. sink' \in [Sessions -> [held : 0..2, status : BOOLEAN, ended : BOOLEAN]]
      <4>1. CASE sink' = [sink EXCEPT ![s].held = @ + 1]
        BY <2>1, <3>3, <4>1 DEF ProcessOK
      <4>2. CASE sink' = [sink EXCEPT ![s].status = TRUE]
        BY <2>1, <4>2 DEF ProcessOK
      <4> QED  BY <2>5, <4>1, <4>2 DEF TakeEvent
    <3> QED  BY <2>1, <3>1, <3>2, <3>4 DEF ProcessOK
  <2> QED  BY <2>2, <2>3, <2>4, <2>5
<1> QED  BY <1>1, <1>2, Kept DEF TypeInv

\* ... of an event thread that hands on its batch ...
LEMMA TypeEmitOutput ==
  ASSUME TypeInv, NEW s \in Sessions, EmitOutput(s)
  PROVE  TypeInv'
<1>1. ProcessOK /\ DaemonOK
  BY DEF TypeInv
<1>2. PICK n \in {sink[s].held} \union (IF sink[s].status THEN {} ELSE 1..sink[s].held) :
        /\ sink' = [sink EXCEPT ![s].held = @ - n]
        /\ kept' = IF entry[s] = "none" THEN kept ELSE [kept EXCEPT ![s] = @ + n]
  BY DEF EmitOutput
<1>3. sink[s].held \in 1..2 /\ n \in 1..sink[s].held
  BY <1>1 DEF EmitOutput, ProcessOK
<1>4. sink[s].held - n \in 0..2 /\ n \in Nat
  BY <1>3
<1>5. sink' \in [Sessions -> [held : 0..2, status : BOOLEAN, ended : BOOLEAN]]
  BY <1>1, <1>2, <1>4 DEF ProcessOK
<1>6. kept' \in [Sessions -> Nat]
  BY <1>1, <1>2, <1>4 DEF DaemonOK
<1>7. UNCHANGED <<proc, made, unread, reader, chan, entry, born, pty, subscribed, client, thread,
                  inbox, control, output, crashes>>
  BY DEF EmitOutput
<1>8. ProcessOK' /\ DaemonOK'
  BY <1>1, <1>5, <1>6, <1>7 DEF ProcessOK, DaemonOK
<1> QED  BY <1>7, <1>8, Kept DEF TypeInv

\* What emit_daemon_status does to the table: the entry is marked, some that have exited go.
LEMMA StatusEffect ==
  ASSUME TypeInv, NEW s \in Sessions, EmitStatus(s)
  PROVE  \A r \in Sessions :
           /\ entry'[r] \in {"none", "alive", "exited"}
           /\ entry[r] = "none" => entry'[r] = "none"
           /\ entry'[r] = "alive" => entry[r] = "alive" /\ r # s
           /\ entry'[r] = "exited" => entry[r] = "exited" \/ r = s
           /\ entry[r] # "none" /\ entry'[r] = "none" => entry[r] = "exited" \/ r = s
<1> DEFINE table == [entry EXCEPT ![s] = IF @ = "none" THEN @ ELSE "exited"]
<1>1. entry \in [Sessions -> {"none", "alive", "exited"}]
  BY DEF TypeInv, DaemonOK
<1>2. entry' = [r \in Sessions |-> IF r \in Evicted(table) THEN "none" ELSE table[r]]
  BY DEF EmitStatus
<1>3. \A r \in Evicted(table) : table[r] = "exited"
  BY DEF Evicted
<1> QED  BY <1>1, <1>2, <1>3

\* push_to_attached queues the exit, or marks a thread that completes an attach.
LEMMA PushEffect ==
  ASSUME TypeInv, NEW s \in Sessions, PushExit(s)
  PROVE  /\ control' \in [Conns -> Seq(Frames)]
         /\ \A c \in Conns :
              \/ control'[c] = control[c]
              \/ c = conn /\ control'[c] = Append(control[c], [k |-> "exit", s |-> s])
         /\ thread' \in [Conns -> [step : Steps, s : Sessions \union {"none"}, exit : BOOLEAN]]
         /\ \A c \in Conns :
              /\ thread'[c].step = thread[c].step /\ thread'[c].s = thread[c].s
              /\ thread'[c].exit =>
                   thread[c].exit \/ (thread[c].step = "attaching" /\ thread[c].s = s)
<1> DEFINE e == [k |-> "exit", s |-> s]
<1>1. e \in Frames
  BY FrameType
<1>2. control' = [c \in Conns |-> IF s \in subscribed[c] /\ ~HoldsExit(c, s) /\ c = conn
                                  THEN Append(control[c], e) ELSE control[c]]
  BY DEF PushExit
<1> HIDE DEF e
<1>3. \A c \in Conns : Append(control[c], e) \in Seq(Frames) /\ control[c] \in Seq(Frames)
  BY <1>1, Appended DEF TypeInv, QueuesOK
<1>4. control' \in [Conns -> Seq(Frames)]
  BY <1>2, <1>3
<1>5. ASSUME NEW c \in Conns
      PROVE  control'[c] = control[c] \/ (c = conn /\ control'[c] = Append(control[c], e))
  <2> DEFINE pushed == s \in subscribed[c] /\ ~HoldsExit(c, s) /\ c = conn
  <2>1. control'[c] = IF pushed THEN Append(control[c], e) ELSE control[c]
    BY <1>2
  <2> QED  BY <2>1
<1>6. \A c \in Conns : thread[c] \in [step : Steps, s : Sessions \union {"none"}, exit : BOOLEAN]
  BY DEF TypeInv, ThreadsOK
<1>7. thread' = [c \in Conns |-> IF s \in subscribed[c] /\ HoldsExit(c, s)
                                 THEN [thread[c] EXCEPT !.exit = TRUE] ELSE thread[c]]
  BY DEF PushExit
<1>8. ASSUME NEW c \in Conns
      PROVE  /\ thread'[c] \in [step : Steps, s : Sessions \union {"none"}, exit : BOOLEAN]
             /\ thread'[c].step = thread[c].step /\ thread'[c].s = thread[c].s
             /\ thread'[c].exit =>
                  thread[c].exit \/ (thread[c].step = "attaching" /\ thread[c].s = s)
  <2> DEFINE held == s \in subscribed[c] /\ HoldsExit(c, s)
  <2>1. thread'[c] = IF held THEN [thread[c] EXCEPT !.exit = TRUE] ELSE thread[c]
    BY <1>7
  <2>2. CASE held
    <3>1. thread'[c] = [thread[c] EXCEPT !.exit = TRUE]
      BY <2>1, <2>2
    <3>2. thread'[c].step = thread[c].step /\ thread'[c].s = thread[c].s
      BY <1>6, <3>1
    <3>3. thread'[c] \in [step : Steps, s : Sessions \union {"none"}, exit : BOOLEAN]
      BY <1>6, <3>1
    <3>4. thread[c].step = "attaching" /\ thread[c].s = s
      BY <2>2 DEF HoldsExit
    <3> QED  BY <3>2, <3>3, <3>4
  <2>3. CASE ~held
    <3>1. thread'[c] = thread[c]
      BY <2>1, <2>3
    <3>2. thread'[c] \in [step : Steps, s : Sessions \union {"none"}, exit : BOOLEAN]
      BY <1>6, <3>1
    <3>3. thread'[c].step = thread[c].step /\ thread'[c].s = thread[c].s
      BY <3>1
    <3>4. thread'[c].exit => thread[c].exit
      BY <3>1
    <3> QED  BY <3>2, <3>3, <3>4
  <2> QED  BY <2>2, <2>3
<1>9. thread' \in [Conns -> [step : Steps, s : Sessions \union {"none"}, exit : BOOLEAN]]
  BY <1>7, <1>8
<1> QED  BY <1>4, <1>5, <1>8, <1>9 DEF e

\* ... or reports the exit ...
LEMMA TypeEmitStatus ==
  ASSUME TypeInv, NEW s \in Sessions, EmitStatus(s)
  PROVE  TypeInv'
<1>1. PushExit(s) /\ sink' = [sink EXCEPT ![s].ended = TRUE]
      /\ UNCHANGED <<proc, made, unread, reader, chan, born, pty, kept, subscribed, client, inbox,
                     output, crashes>>
  BY DEF EmitStatus
<1>2. ThreadsOK'
  BY <1>1, PushEffect DEF TypeInv, ThreadsOK
<1>3. entry' \in [Sessions -> {"none", "alive", "exited"}]
  <2>1. \E e : entry' = [r \in Sessions |-> IF r \in e THEN "none" ELSE
          [entry EXCEPT ![s] = IF @ = "none" THEN @ ELSE "exited"][r]]
    BY DEF EmitStatus
  <2> QED  BY <2>1, StatusEffect
<1>4. DaemonOK'
  BY <1>1, <1>3 DEF TypeInv, DaemonOK
<1>5. ProcessOK'
  BY <1>1 DEF TypeInv, ProcessOK
<1>6. QueuesOK'
  BY <1>1, PushEffect DEF TypeInv, QueuesOK
<1> QED  BY <1>1, <1>2, <1>4, <1>5, <1>6, Kept DEF TypeInv

\* ... after a step of a connection's thread ...
LEMMA TypeThread ==
  ASSUME TypeInv, NEW c \in Conns, ThreadStep(c)
  PROVE  TypeInv'
<1> DEFINE s == thread[c].s  f == Head(inbox[c])
<1>1. /\ thread \in [Conns -> [step : Steps, s : Sessions \union {"none"}, exit : BOOLEAN]]
      /\ thread[c].step \notin {"idle", "gone"} => s \in Sessions
      /\ DaemonOK /\ ProcessOK /\ QueuesOK
  BY DEF TypeInv, ThreadsOK
<1>2. ASSUME NEW ops, Reads(c, ops)
      PROVE  /\ f \in Requests /\ f.s \in Sessions /\ f.op \in ops
             /\ inbox' \in [Conns -> Seq(Requests)]
  <2>1. inbox[c] \in Seq(Requests) /\ inbox[c] # <<>> /\ inbox' = [inbox EXCEPT ![c] = Tail(@)]
    BY <1>1, <1>2 DEF Reads, QueuesOK
  <2>2. f \in Requests /\ Tail(inbox[c]) \in Seq(Requests)
    BY <2>1, Taken
  <2> QED  BY <1>1, <1>2, <2>1, <2>2 DEF Reads, Requests, QueuesOK
<1>3. ASSUME NEW g \in Frames
      PROVE  Reply(control, c, g) \in [Conns -> Seq(Frames)]
             /\ Reply(output, c, g) \in [Conns -> Seq(Frames)]
  BY <1>1, ReplyEffect DEF QueuesOK
<1>4. CASE Reserve(c)
  <2>1. Reads(c, {"create"}) /\ UNCHANGED <<pty, kept, process, client, output, crashes>>
    BY <1>4 DEF Reserve
  <2>2. f \in Requests /\ f.s \in Sessions /\ inbox' \in [Conns -> Seq(Requests)]
    BY <1>2, <2>1
  <2>3. CASE /\ entry' = [entry EXCEPT ![f.s] = "alive"]
             /\ born' = [born EXCEPT ![f.s] = 1 + Max({born[r] : r \in Sessions})]
             /\ subscribed' = [subscribed EXCEPT ![c] = @ \union {f.s}]
             /\ Busy(c, "reserved", f.s)
             /\ UNCHANGED control
    <3>1. ThreadsOK'
      BY <2>2, <2>3, BusyType DEF Steps
    <3> DEFINE m == Max({born[r] : r \in Sessions})
    <3>2. m \in Nat /\ (\A r \in Sessions : born[r] <= m) /\ born' = [born EXCEPT ![f.s] = 1 + m]
      BY <2>2, <2>3, OldestFirst
    <3> HIDE DEF m
    <3>3. born' \in [Sessions -> Nat] /\ born'[f.s] = 1 + m
          /\ \A r \in Sessions : born'[r] \in {born[r], 1 + m}
      BY <1>1, <2>2, <3>2 DEF DaemonOK
    <3>4. \A r \in Sessions : born'[r] <= born'[f.s]
      BY <1>1, <3>2, <3>3 DEF DaemonOK
    <3>5. Youngest'
      BY <2>2, <3>4 DEF Youngest
    <3>6. DaemonOK'
      BY <1>1, <2>1, <2>2, <2>3, <3>3 DEF DaemonOK
    <3>7. QueuesOK'
      BY <1>1, <2>1, <2>2, <2>3 DEF QueuesOK
    <3> QED  BY <2>1, <3>1, <3>5, <3>6, <3>7, Kept DEF TypeInv
  <2>4. CASE control' = Reply(control, c, Err(f)) /\ UNCHANGED <<entry, born, subscribed, thread>>
    <3>1. control' \in [Conns -> Seq(Frames)]
      BY <1>3, <2>2, <2>4, FrameType
    <3>2. QueuesOK'
      BY <1>1, <2>1, <2>2, <3>1 DEF QueuesOK
    <3> QED  BY <2>1, <2>4, <3>2, Kept DEF TypeInv, daemon
  <2> QED  BY <1>4, <2>3, <2>4 DEF Reserve
<1>5. CASE Spawn(c)
  <2>1. s \in Sessions /\ UNCHANGED <<made, unread, chan, sink, born, pty, kept, client, inbox,
                                      output, crashes>>
    BY <1>1, <1>5 DEF Spawn
  <2>2. CASE /\ proc' = [proc EXCEPT ![s] = "running"] /\ reader' = [reader EXCEPT ![s] = "reading"]
             /\ Busy(c, "spawned", s)
             /\ UNCHANGED <<entry, subscribed, control>>
    <3>1. ThreadsOK'
      BY <2>1, <2>2, BusyType DEF Steps
    <3>2. ProcessOK'
      BY <1>1, <2>1, <2>2 DEF ProcessOK
    <3> QED  BY <2>1, <2>2, <3>1, <3>2, Kept DEF TypeInv, daemon
  <2>3. CASE /\ entry' = [entry EXCEPT ![s] = "none"]
             /\ subscribed' = [subscribed EXCEPT ![c] = @ \ {s}]
             /\ control' = Reply(control, c, Err(Creation(s)))
             /\ Done(c)
             /\ UNCHANGED <<proc, reader>>
    <3>1. ThreadsOK'
      BY <2>3, DoneType
    <3>2. control' \in [Conns -> Seq(Frames)]
      BY <1>3, <2>1, <2>3, FrameType
    <3>3. QueuesOK'
      BY <1>1, <2>1, <3>2 DEF QueuesOK
    <3>4. subscribed[c] \ {s} \in SUBSET Sessions
      BY <1>1 DEF DaemonOK
    <3>5. DaemonOK'
      BY <1>1, <2>1, <2>3, <3>4 DEF DaemonOK
    <3> QED  BY <2>1, <2>3, <3>1, <3>3, <3>5, Kept DEF TypeInv, process
  <2> QED  BY <1>5, <2>2, <2>3 DEF Spawn
<1>6. CASE Register(c)
  <2>1. /\ s \in Sessions /\ pty' = pty \union {s} /\ Done(c)
        /\ UNCHANGED <<entry, born, kept, subscribed, process, client, inbox, output, crashes>>
    BY <1>1, <1>6 DEF Register
  <2>2. PICK g \in Frames : control' = Reply(control, c, g)
    BY <1>6, <2>1, FrameType DEF Register
  <2>3. QueuesOK'
    BY <1>1, <1>3, <2>1, <2>2 DEF QueuesOK
  <2>4. DaemonOK' /\ ThreadsOK'
    BY <1>1, <2>1, DoneType DEF DaemonOK
  <2> QED  BY <2>1, <2>3, <2>4, Kept DEF TypeInv
<1>7. CASE Attach(c)
  <2>1. Reads(c, Attaching) /\ UNCHANGED <<entry, born, pty, kept, process, client, crashes>>
    BY <1>7 DEF Attach
  <2>2. f \in Requests /\ f.s \in Sessions /\ inbox' \in [Conns -> Seq(Requests)]
    BY <1>2, <2>1
  <2>3. CASE /\ control' = Reply(control, c, Err(f))
             /\ UNCHANGED <<subscribed, output, thread>>
    <3>1. control' \in [Conns -> Seq(Frames)]
      BY <1>3, <2>2, <2>3, FrameType
    <3>2. QueuesOK'
      BY <1>1, <2>2, <2>3, <3>1 DEF QueuesOK
    <3> QED  BY <2>1, <2>3, <3>2, Kept DEF TypeInv, daemon
  <2>4. CASE /\ subscribed' = [subscribed EXCEPT ![c] = @ \union {f.s}]
             /\ output' = Reply(output, c, Ok(f))
             /\ Busy(c, "attaching", f.s)
             /\ UNCHANGED control
    <3>1. output' \in [Conns -> Seq(Frames)]
      BY <1>3, <2>2, <2>4, FrameType
    <3>2. QueuesOK'
      BY <1>1, <2>2, <2>4, <3>1 DEF QueuesOK
    <3>3. ThreadsOK'
      BY <2>2, <2>4, BusyType DEF Steps
    <3>4. subscribed[c] \union {f.s} \in SUBSET Sessions
      BY <1>1, <2>2 DEF DaemonOK
    <3>5. DaemonOK'
      BY <1>1, <2>1, <2>4, <3>4 DEF DaemonOK
    <3> QED  BY <2>1, <2>4, <3>2, <3>3, <3>5, Kept DEF TypeInv
  <2> QED  BY <1>7, <2>3, <2>4 DEF Attach
<1>8. CASE CompleteAttach(c)
  <2>1. s \in Sessions /\ Done(c) /\ UNCHANGED <<daemon, process, client, inbox, output, crashes>>
    BY <1>1, <1>8 DEF CompleteAttach
  <2>2. control' \in [Conns -> Seq(Frames)]
    BY <1>1, <1>3, <1>8, <2>1, FrameType DEF CompleteAttach, QueuesOK
  <2>3. QueuesOK' /\ ThreadsOK'
    BY <1>1, <2>1, <2>2, DoneType DEF QueuesOK
  <2> QED  BY <2>1, <2>3, Kept DEF TypeInv
<1>9. CASE Kill(c)
  <2>1. /\ Reads(c, {"close"}) /\ pty' = pty \ {f.s}
        /\ proc' = IF f.s \in pty /\ proc[f.s] = "running" THEN [proc EXCEPT ![f.s] = "dead"] ELSE proc
        /\ Busy(c, IF f.s \in pty THEN "joining" ELSE "closing", f.s)
        /\ UNCHANGED <<made, unread, reader, chan, sink, entry, born, kept, subscribed, client,
                       control, output, crashes>>
    BY <1>9 DEF Kill
  <2>2. f \in Requests /\ f.s \in Sessions /\ inbox' \in [Conns -> Seq(Requests)]
    BY <1>2, <2>1
  <2>3. ThreadsOK'
    BY <2>1, <2>2, BusyType DEF Steps
  <2>4. ProcessOK'
    BY <1>1, <2>1, <2>2 DEF ProcessOK
  <2>5. DaemonOK' /\ QueuesOK'
    BY <1>1, <2>1, <2>2 DEF DaemonOK, QueuesOK
  <2> QED  BY <2>1, <2>3, <2>4, <2>5, Kept DEF TypeInv
<1>10. CASE FinishClose(c)
  <2>1. /\ s \in Sessions /\ Done(c)
        /\ entry' = [entry EXCEPT ![s] = "none"]
        /\ subscribed' = [d \in Conns |-> subscribed[d] \ {s}]
        /\ control' = Reply(control, c, Ok(Request("close", s)))
        /\ UNCHANGED <<born, pty, kept, process, client, inbox, output, crashes>>
    BY <1>1, <1>10 DEF FinishClose, Request
  <2>2. control' \in [Conns -> Seq(Frames)]
    BY <1>3, <2>1, FrameType
  <2>3. QueuesOK' /\ ThreadsOK'
    BY <1>1, <2>1, <2>2, DoneType DEF QueuesOK
  <2>4. DaemonOK'
    BY <1>1, <2>1 DEF DaemonOK
  <2> QED  BY <2>1, <2>3, <2>4, Kept DEF TypeInv
<1>11. CASE Leave(c)
  <2>1. /\ thread' = [thread EXCEPT ![c] = Gone] /\ subscribed' = [subscribed EXCEPT ![c] = {}]
        /\ UNCHANGED <<entry, born, pty, kept, process, client, inbox, control, output, crashes>>
    BY <1>11 DEF Leave
  <2>2. ThreadsOK' /\ DaemonOK'
    BY <1>1, <2>1, DoneType DEF DaemonOK
  <2> QED  BY <2>1, <2>2, Kept DEF TypeInv
<1> QED  BY <1>4, <1>5, <1>6, <1>7, <1>8, <1>9, <1>10, <1>11 DEF ThreadStep

\* ... after a frame the client handles ...
LEMMA TypeFrame ==
  ASSUME TypeInv, NEW f \in Frames, OnFrame(f)
  PROVE  ClientOK'
<1>1. ClientOK
  BY DEF TypeInv
<1>2. UNCHANGED <<conn, opened, closed, retry, restarts>>
  BY DEF OnFrame
<1>3. f.k \in {"ok", "err", "exit"} /\ f.s \in Sessions
      /\ (f.k # "exit" => f.op \in {"create", "close"} \union Attaching)
  BY DEF Frames
<1>4. CASE f.k = "exit"
  <2>1. OnExit(f.s)
    BY <1>4 DEF OnFrame
  <2>2. UNCHANGED <<todo, waiting, attached, tab, probed>>
    BY <2>1 DEF OnExit
  <2>3. shown' \in [Sessions -> {"none", "running", "exited"}] /\ pendingStatus' \subseteq Sessions
    BY <1>1, <1>3, <2>1 DEF OnExit, ClientOK
  <2> QED  BY <1>1, <1>2, <2>2, <2>3 DEF ClientOK
<1>5. CASE f.k = "ok"
  <2>1. OnOk(f)
    BY <1>5 DEF OnFrame
  <2>2. /\ waiting' = waiting \ {Request(f.op, f.s)} /\ UNCHANGED <<todo, attached>>
        /\ probed' = IF f.op = "probe" THEN probed \union {f.s} ELSE probed
    BY <2>1 DEF OnOk
  <2>3. /\ tab' \in [Sessions -> {"none", "creating", "open", "failed", "closed", "saved", "forgotten"}]
        /\ shown' \in [Sessions -> {"none", "running", "exited"}] /\ pendingStatus' \subseteq Sessions
    BY <1>1, <1>3, <2>1 DEF OnOk, Opened, ClientOK
  <2>4. waiting' \subseteq Requests /\ probed' \subseteq Sessions
    BY <1>1, <1>3, <2>2 DEF ClientOK
  <2> QED  BY <1>1, <1>2, <2>2, <2>3, <2>4 DEF ClientOK
<1>6. CASE f.k = "err"
  <2>1. OnErr(f)
    BY <1>6 DEF OnFrame
  <2>2. UNCHANGED <<shown, probed>>
    BY <2>1 DEF OnErr
  <2>3. Request("probe", f.s) \in Requests
    BY <1>3, FrameType DEF Attaching
  <2>4. waiting' \subseteq Requests /\ todo' \subseteq Requests
    BY <1>1, <2>1, <2>3 DEF OnErr, ClientOK
  <2>5. attached' \subseteq Sessions /\ pendingStatus' \subseteq Sessions
    BY <1>1, <2>1 DEF OnErr, ClientOK
  <2>6. tab' \in [Sessions -> {"none", "creating", "open", "failed", "closed", "saved", "forgotten"}]
    BY <1>1, <1>3, <2>1 DEF OnErr, ClientOK
  <2> QED  BY <1>1, <1>2, <2>2, <2>4, <2>5, <2>6 DEF ClientOK
<1> QED  BY <1>3, <1>4, <1>5, <1>6

\* ... after a step of the client ...
LEMMA TypeClient ==
  ASSUME TypeInv, ClientStep
  PROVE  TypeInv'
<1>1. ClientOK /\ QueuesOK /\ MaxConns \in Nat
  BY LifecycleAssumption DEF TypeInv
<1>2. conn # 0 => conn \in Conns
  BY <1>1 DEF ClientOK, Conns
<1>3. CASE Connect
  <2>1. opened + 1 \in Conns /\ opened + 1 \in 0..MaxConns
    BY <1>1, <1>3 DEF Connect, ClientOK, Conns
  <2>2. /\ opened' = opened + 1 /\ conn' = opened + 1
        /\ thread' = [thread EXCEPT ![opened + 1] = Idle]
        /\ UNCHANGED <<todo, waiting, attached, closed, pendingStatus, retry, tab, shown, probed,
                       restarts, daemon, process, inbox, control, output, crashes>>
    BY <1>3 DEF Connect
  <2>3. ClientOK'
    BY <1>1, <2>1, <2>2 DEF ClientOK
  <2>4. ThreadsOK'
    BY <2>1, <2>2, DoneType DEF Done
  <2> QED  BY <2>2, <2>3, <2>4, Kept DEF TypeInv
<1>4. CASE Send
  <2>1. PICK r \in todo : /\ inbox' = [inbox EXCEPT ![conn] = Append(@, r)]
                          /\ todo' = todo \ {r} /\ waiting' = waiting \union {r}
    BY <1>4 DEF Send
  <2>2. conn \in Conns /\ r \in Requests
        /\ UNCHANGED <<conn, opened, attached, closed, pendingStatus, retry, tab, shown, probed,
                       restarts, daemon, process, thread, control, output, crashes>>
    BY <1>1, <1>2, <1>4 DEF Send, ClientOK
  <2>3. Append(inbox[conn], r) \in Seq(Requests)
    BY <1>1, <2>2, Appended DEF QueuesOK
  <2>4. QueuesOK' /\ ClientOK'
    BY <1>1, <2>1, <2>2, <2>3 DEF QueuesOK, ClientOK
  <2> QED  BY <2>2, <2>4, Kept DEF TypeInv
<1>5. CASE Reconnect
  <2>1. {Request("reattach", s) : s \in attached \ closed} \subseteq Requests
    BY <1>1, FrameType DEF Attaching, ClientOK
  <2>2. ClientOK'
    BY <1>1, <1>5, <2>1 DEF Reconnect, ClientOK
  <2> QED  BY <1>5, <2>2, Kept DEF TypeInv, Reconnect
<1>6. CASE DeliverControl
  <2>1. /\ conn \in Conns /\ control[conn] \in Seq(Frames) /\ control[conn] # <<>>
        /\ OnFrame(Head(control[conn])) /\ control' = [control EXCEPT ![conn] = Tail(@)]
        /\ UNCHANGED <<daemon, process, thread, inbox, output, crashes>>
    BY <1>1, <1>2, <1>6 DEF DeliverControl, QueuesOK
  <2>2. Head(control[conn]) \in Frames /\ Tail(control[conn]) \in Seq(Frames)
    BY <2>1, Taken
  <2>3. ClientOK' /\ QueuesOK'
    BY <1>1, <2>1, <2>2, TypeFrame DEF QueuesOK
  <2> QED  BY <2>1, <2>3, Kept DEF TypeInv
<1>7. CASE DeliverOutput
  <2>1. /\ conn \in Conns /\ output[conn] \in Seq(Frames) /\ output[conn] # <<>>
        /\ OnFrame(Head(output[conn])) /\ output' = [output EXCEPT ![conn] = Tail(@)]
        /\ UNCHANGED <<daemon, process, thread, inbox, control, crashes>>
    BY <1>1, <1>2, <1>7 DEF DeliverOutput, QueuesOK
  <2>2. Head(output[conn]) \in Frames /\ Tail(output[conn]) \in Seq(Frames)
    BY <2>1, Taken
  <2>3. ClientOK' /\ QueuesOK'
    BY <1>1, <2>1, <2>2, TypeFrame DEF QueuesOK
  <2> QED  BY <2>1, <2>3, Kept DEF TypeInv
<1> QED  BY <1>3, <1>4, <1>5, <1>6, <1>7 DEF ClientStep

\* ... after what the user does with a tab ...
LEMMA TypeUser ==
  ASSUME TypeInv, NEW s \in Sessions, OpenTab(s) \/ CloseTab(s) \/ Restore(s)
  PROVE  TypeInv'
<1>1. ClientOK
  BY DEF TypeInv
<1>2. UNCHANGED <<daemon, process, thread, inbox, control, output, crashes>>
  BY DEF OpenTab, CloseTab, Restore
<1>3. \A op \in {"create", "close", "restore"} : Request(op, s) \in Requests
  BY FrameType DEF Attaching
<1>4. ClientOK'
  <2>1. CASE OpenTab(s)
    BY <1>1, <1>3, <2>1 DEF OpenTab, ClientOK
  <2>2. CASE CloseTab(s)
    <3>1. {r \in todo : r.s # s} \subseteq Requests
      BY <1>1 DEF ClientOK
    <3>2. retry' \in BOOLEAN
      BY <2>2 DEF CloseTab
    <3> QED  BY <1>1, <1>3, <2>2, <3>1, <3>2 DEF CloseTab, ClientOK
  <2>3. CASE Restore(s)
    <3>1. UNCHANGED <<conn, opened, waiting, closed, pendingStatus, retry, probed, restarts>>
      BY <2>3 DEF Restore
    <3>2. /\ tab' \in [Sessions -> {"none", "creating", "open", "failed", "closed", "saved", "forgotten"}]
          /\ shown' \in [Sessions -> {"none", "running", "exited"}]
          /\ attached' \subseteq Sessions /\ todo' \subseteq Requests
      BY <1>1, <1>3, <2>3 DEF Restore, ClientOK
    <3> QED  BY <1>1, <3>1, <3>2 DEF ClientOK
  <2> QED  BY <2>1, <2>2, <2>3
<1> QED  BY <1>2, <1>4, Kept DEF TypeInv

\* ... and after a fault.
LEMMA RejectedType ==
  ASSUME TypeInv, Rejected
  PROVE  ClientOK'
<1>1. ClientOK
  BY DEF TypeInv
<1> DEFINE of(op) == {s \in Sessions : Request(op, s) \in waiting}
<1>2. {Request("probe", s) : s \in of("create")} \subseteq Requests
  BY FrameType DEF Attaching
<1>3. /\ conn' = 0 /\ waiting' = {} /\ UNCHANGED <<opened, closed, shown, probed, restarts>>
      /\ todo' = todo \union {Request("probe", s) : s \in of("create")}
      /\ attached' = attached \ of("probe")
      /\ pendingStatus' = pendingStatus \ of("probe")
      /\ tab' = [s \in Sessions |-> IF s \in of("probe") THEN "failed" ELSE tab[s]]
      /\ retry' = (attached' # {})
  BY DEF Rejected
<1>4. tab' \in [Sessions -> {"none", "creating", "open", "failed", "closed", "saved", "forgotten"}]
  BY <1>1, <1>3 DEF ClientOK
<1>5. retry' \in BOOLEAN
  BY <1>3
<1>6. todo' \subseteq Requests
  BY <1>1, <1>2, <1>3 DEF ClientOK
<1> QED  BY <1>1, <1>3, <1>4, <1>5, <1>6 DEF ClientOK

\* What is severed leaves the queues to the client empty and cuts the other one off.
LEMMA SeveredEffect ==
  ASSUME TypeInv, Severed
  PROVE  /\ conn \in Conns
         /\ inbox' \in [Conns -> Seq(Requests)]
         /\ \A c \in Conns : \A x : In(x, inbox'[c]) => In(x, inbox[c])
         /\ \A c \in Conns : \A X : Once(X, inbox[c]) => Once(X, inbox'[c])
         /\ \A c \in Conns : c # conn => inbox'[c] = inbox[c]
         /\ control' = [control EXCEPT ![conn] = <<>>] /\ control' \in [Conns -> Seq(Frames)]
         /\ output' = [output EXCEPT ![conn] = <<>>] /\ output' \in [Conns -> Seq(Frames)]
<1>1. conn \in Conns /\ QueuesOK
  BY LifecycleAssumption DEF TypeInv, ClientOK, Severed, Conns
<1>2. inbox[conn] \in Seq(Requests)
  BY <1>1 DEF QueuesOK
<1>3. PICK n \in 0..Len(inbox[conn]) : inbox' = [inbox EXCEPT ![conn] = SubSeq(@, 1, n)]
  BY DEF Severed
<1> DEFINE q == SubSeq(inbox[conn], 1, n)
<1>4. /\ q \in Seq(Requests)
      /\ \A x : In(x, q) => In(x, inbox[conn])
      /\ \A X : Once(X, inbox[conn]) => Once(X, q)
  BY <1>2, CutOff
<1>5. inbox' = [inbox EXCEPT ![conn] = q]
  BY <1>3
<1> HIDE DEF q
<1>6. inbox' \in [Conns -> Seq(Requests)]
      /\ \A c \in Conns : inbox'[c] = IF c = conn THEN q ELSE inbox[c]
  BY <1>1, <1>4, <1>5 DEF QueuesOK
<1>7. <<>> \in Seq(Frames)
  OBVIOUS
<1>8. /\ control' = [control EXCEPT ![conn] = <<>>] /\ control' \in [Conns -> Seq(Frames)]
      /\ output' = [output EXCEPT ![conn] = <<>>] /\ output' \in [Conns -> Seq(Frames)]
  BY <1>1, <1>7 DEF Severed, QueuesOK
<1> QED  BY <1>1, <1>4, <1>6, <1>8

\* ... and after a lost link, a restart or a crash.
LEMMA TypeFault ==
  ASSUME TypeInv, Drop \/ Restart \/ Crash
  PROVE  TypeInv'
<1>1. CASE Drop
  <2>1. Severed /\ Rejected /\ UNCHANGED <<daemon, process, thread, crashes>>
    BY <1>1 DEF Drop
  <2> QED  BY <2>1, RejectedType, SeveredEffect, Kept DEF TypeInv, QueuesOK
<1>2. CASE Restart
  <2>1. Severed /\ UNCHANGED <<daemon, process, thread, crashes>>
    BY <1>2 DEF Restart
  <2>2. restarts + 1 \in 0..MaxRestarts /\ ClientOK
    BY <1>2, LifecycleAssumption DEF TypeInv, ClientOK, Restart
  <2>3. tab' \in [Sessions -> {"none", "creating", "open", "failed", "closed", "saved", "forgotten"}]
    BY <1>2, <2>2 DEF Restart, ClientOK
  <2>4. ClientOK'
    BY <1>2, <2>2, <2>3 DEF Restart, ClientOK
  <2> QED  BY <2>1, <2>4, SeveredEffect, Kept DEF TypeInv, QueuesOK
<1>3. CASE Crash
  <2>1. ClientOK'
    BY <1>3, RejectedType DEF Crash
  <2>2. ThreadsOK'
    <3>1. thread' = [c \in Conns |-> Gone]
      BY <1>3 DEF Crash
    <3> QED  BY <3>1, IdleType DEF ThreadsOK
  <2>3. DaemonOK' /\ Youngest'
    BY <1>3 DEF Crash, TypeInv, DaemonOK, Youngest
  <2>4. Sleeping \in [held : 0..2, status : BOOLEAN, ended : BOOLEAN]
    BY DEF Sleeping
  <2>5. ProcessOK'
    BY <1>3, <2>4 DEF Crash, TypeInv, ProcessOK
  <2>6. <<>> \in Seq(Requests) /\ <<>> \in Seq(Frames)
    OBVIOUS
  <2>7. QueuesOK'
    BY <1>3, <2>6 DEF Crash, QueuesOK
  <2>8. crashes' \in 0..MaxCrashes
    BY <1>3, LifecycleAssumption DEF Crash, TypeInv
  <2> QED  BY <2>1, <2>2, <2>3, <2>5, <2>7, <2>8 DEF TypeInv
<1> QED  BY <1>1, <1>2, <1>3

\* Every step keeps the types.
LEMMA TypeStep ==
  ASSUME TypeInv, [Next]_vars
  PROVE  TypeInv'
<1>1. CASE UNCHANGED vars
  BY <1>1, Kept DEF vars, TypeInv
<1>2. ASSUME NEW s \in Sessions, Write(s) \/ Exit(s) \/ SessionStep(s)
      PROVE  TypeInv'
  BY <1>2, TypeProcess, TypeEmitOutput, TypeEmitStatus DEF SessionStep
<1> QED  BY <1>1, <1>2, TypeThread, TypeClient, TypeUser, TypeFault DEF Next

-----------------------------------------------------------------------------
(* What a step of a thread does to the queues, and whom it answers. *)

Exited(s) == [k |-> "exit", s |-> s]
Answers(r) == {Ok(r), Err(r)}
Creating(c, s) == thread[c].step \in {"reserved", "spawned"} /\ thread[c].s = s
Reserving(c, s) == thread[c].step = "reserved" /\ thread[c].s = s
Closing(c, s) == thread[c].step \in {"joining", "closing"} /\ thread[c].s = s

\* A request is known by its kind and its session, a frame by what it answers.
LEMMA Distinct ==
  /\ \A r, q \in Requests : r.op = q.op /\ r.s = q.s => r = q
  /\ \A op, s : Request(op, s).op = op /\ Request(op, s).s = s
  /\ \A r \in Requests : r.s \in Sessions /\ r = Request(r.op, r.s)
  /\ \A r, q : Ok(r) # Err(q) /\ \A s : Exited(s) # Ok(r) /\ Exited(s) # Err(r)
  /\ \A r, q \in Requests : Ok(r) = Ok(q) \/ Err(r) = Err(q) => r = q
  /\ \A s, t : Exited(s) = Exited(t) => s = t
<1>1. \A r, q \in Requests : r.op = q.op /\ r.s = q.s => r = q
  BY DEF Requests
<1>2. \A op, s : Request(op, s).op = op /\ Request(op, s).s = s
  BY DEF Request
<1>3. \A r \in Requests : r.s \in Sessions /\ r = Request(r.op, r.s)
  BY DEF Requests, Request
<1>4. \A r : Ok(r).k = "ok" /\ Ok(r).op = r.op /\ Ok(r).s = r.s
  BY DEF Ok
<1>5. \A r : Err(r).k = "err" /\ Err(r).op = r.op /\ Err(r).s = r.s
  BY DEF Err
<1>6. \A s : Exited(s).k = "exit" /\ Exited(s).s = s
  BY DEF Exited
<1>7. \A r, q : Ok(r) # Err(q) /\ \A s : Exited(s) # Ok(r) /\ Exited(s) # Err(r)
  BY <1>4, <1>5, <1>6
<1>8. \A r, q \in Requests : Ok(r) = Ok(q) \/ Err(r) = Err(q) => r = q
  <2> SUFFICES ASSUME NEW r \in Requests, NEW q \in Requests, Ok(r) = Ok(q) \/ Err(r) = Err(q)
               PROVE  r = q
    OBVIOUS
  <2>1. r.op = q.op /\ r.s = q.s
    BY <1>4, <1>5
  <2> QED  BY <1>1, <2>1
<1>9. \A s, t : Exited(s) = Exited(t) => s = t
  BY <1>6
<1> QED  BY <1>1, <1>2, <1>3, <1>7, <1>8, <1>9

\* A thread takes its requests from its own inbox; what it creates or closes it was asked
\* to, and a creation goes on to the process or ends.
LEMMA ThreadEffect ==
  ASSUME TypeInv, NEW c \in Conns, ThreadStep(c)
  PROVE  /\ \A d \in Conns : d # c => thread'[d] = thread[d] /\ inbox'[d] = inbox[d]
         /\ \A x : In(x, inbox'[c]) => In(x, inbox[c])
         /\ \A X : Once(X, inbox[c]) => Once(X, inbox'[c])
         /\ thread[c].step # "gone"
         /\ \A s \in Sessions :
              /\ Creating(c, s)' => \/ Reserving(c, s) /\ Spawn(c)
                                    \/ Reserve(c) /\ Head(inbox[c]) = Creation(s)
              /\ Reserving(c, s)' => Reserve(c) /\ Head(inbox[c]) = Creation(s)
              /\ Closing(c, s)' => Kill(c) /\ Head(inbox[c]) = Request("close", s)
         /\ thread'[c].exit => thread'[c] = thread[c] /\ thread[c].step = "idle"
         /\ UNCHANGED <<client, crashes>>
<1>1. /\ thread \in [Conns -> [step : Steps, s : Sessions \union {"none"}, exit : BOOLEAN]]
      /\ inbox \in [Conns -> Seq(Requests)]
  BY DEF TypeInv, ThreadsOK, QueuesOK
<1>2. ASSUME NEW ops, Reads(c, ops)
      PROVE  /\ thread[c].step = "idle" /\ Head(inbox[c]) \in Requests /\ Head(inbox[c]).op \in ops
             /\ \A d \in Conns : d # c => inbox'[d] = inbox[d]
             /\ \A x : In(x, inbox'[c]) => In(x, inbox[c])
             /\ \A X : Once(X, inbox[c]) => Once(X, inbox'[c])
  <2>1. inbox[c] \in Seq(Requests) /\ inbox[c] # <<>> /\ inbox' = [inbox EXCEPT ![c] = Tail(@)]
        /\ thread[c].step = "idle" /\ Head(inbox[c]).op \in ops
    BY <1>1, <1>2 DEF Reads
  <2>2. \A d \in Conns : inbox'[d] = IF d = c THEN Tail(inbox[c]) ELSE inbox[d]
    BY <1>1, <2>1
  <2> QED  BY <2>1, <2>2, Taken
<1>3. ASSUME UNCHANGED inbox
      PROVE  /\ \A d \in Conns : d # c => inbox'[d] = inbox[d]
             /\ \A x : In(x, inbox'[c]) => In(x, inbox[c])
             /\ \A X : Once(X, inbox[c]) => Once(X, inbox'[c])
  BY <1>3
<1>4. ASSUME NEW step, NEW s, Busy(c, step, s)
      PROVE  /\ \A d \in Conns : d # c => thread'[d] = thread[d]
             /\ thread'[c].step = step /\ thread'[c].s = s /\ ~thread'[c].exit
  <2> DEFINE t == [step |-> step, s |-> s, exit |-> FALSE]
  <2>1. thread' = [thread EXCEPT ![c] = t]
    BY <1>4 DEF Busy
  <2>2. t.step = step /\ t.s = s /\ ~t.exit
    OBVIOUS
  <2> HIDE DEF t
  <2>3. \A d \in Conns : thread'[d] = IF d = c THEN t ELSE thread[d]
    BY <1>1, <2>1
  <2> QED  BY <2>2, <2>3
<1>5. ASSUME Done(c) \/ thread' = [thread EXCEPT ![c] = Gone]
      PROVE  /\ \A d \in Conns : d # c => thread'[d] = thread[d]
             /\ thread'[c].step \in {"idle", "gone"} /\ ~thread'[c].exit
  <2>1. PICK t \in {Idle, Gone} : thread' = [thread EXCEPT ![c] = t]
    BY <1>5 DEF Done
  <2>2. t.step \in {"idle", "gone"} /\ ~t.exit
    BY IdleType
  <2>3. \A d \in Conns : thread'[d] = IF d = c THEN t ELSE thread[d]
    BY <1>1, <2>1
  <2> QED  BY <2>2, <2>3
<1>6. CASE Reserve(c)
  <2> DEFINE f == Head(inbox[c])
  <2>1. Reads(c, {"create"}) /\ UNCHANGED <<client, crashes>>
    BY <1>6 DEF Reserve
  <2>2. f \in Requests /\ f.op = "create" /\ thread[c].step = "idle"
    BY <1>2, <2>1
  <2>3. f = Creation(f.s)
    BY <2>2, Distinct DEF Creation, Request
  <2>4. CASE Busy(c, "reserved", f.s)
    BY <1>2, <1>4, <1>6, <2>1, <2>2, <2>3, <2>4 DEF Creating, Reserving, Closing
  <2>5. CASE UNCHANGED thread
    BY <1>2, <2>1, <2>2, <2>5 DEF Creating, Reserving, Closing
  <2> QED  BY <1>6, <2>4, <2>5 DEF Reserve
<1>7. CASE Spawn(c)
  <2>1. thread[c].step = "reserved" /\ UNCHANGED <<inbox, client, crashes>>
    BY <1>7 DEF Spawn
  <2>2. CASE Busy(c, "spawned", thread[c].s)
    BY <1>3, <1>4, <1>7, <2>1, <2>2 DEF Creating, Reserving, Closing
  <2>3. CASE Done(c)
    BY <1>3, <1>5, <2>1, <2>3 DEF Creating, Reserving, Closing
  <2> QED  BY <1>7, <2>2, <2>3 DEF Spawn
<1>8. CASE Register(c) \/ CompleteAttach(c) \/ FinishClose(c) \/ Leave(c)
  <2>1. /\ Done(c) \/ thread' = [thread EXCEPT ![c] = Gone]
        /\ thread[c].step # "gone" /\ UNCHANGED <<inbox, client, crashes>>
    BY <1>8 DEF Register, CompleteAttach, FinishClose, Leave
  <2> QED  BY <1>3, <1>5, <2>1 DEF Creating, Reserving, Closing
<1>9. CASE Attach(c)
  <2>1. Reads(c, Attaching) /\ UNCHANGED <<client, crashes>>
    BY <1>9 DEF Attach
  <2>2. CASE Busy(c, "attaching", Head(inbox[c]).s)
    BY <1>2, <1>4, <2>1, <2>2 DEF Creating, Reserving, Closing
  <2>3. CASE UNCHANGED thread
    BY <1>2, <2>1, <2>3 DEF Creating, Reserving, Closing
  <2> QED  BY <1>9, <2>2, <2>3 DEF Attach
<1>10. CASE Kill(c)
  <2> DEFINE f == Head(inbox[c])
  <2>1. Reads(c, {"close"}) /\ UNCHANGED <<client, crashes>>
    BY <1>10 DEF Kill
  <2>2. f \in Requests /\ f.op = "close" /\ thread[c].step = "idle"
    BY <1>2, <2>1
  <2>3. f = Request("close", f.s)
    BY <2>2, Distinct
  <2>4. PICK step \in {"joining", "closing"} : Busy(c, step, f.s)
    BY <1>10 DEF Kill
  <2> QED  BY <1>2, <1>4, <1>10, <2>1, <2>2, <2>3, <2>4 DEF Creating, Reserving, Closing
<1> QED  BY <1>6, <1>7, <1>8, <1>9, <1>10 DEF ThreadStep

\* A thread answers the request it reads, or the creation or the close it ends, once, and
\* truthfully; a held-back exit is the only other frame it queues.
Ends(c, r) ==
  \/ r = Head(inbox[c]) /\ Reads(c, {r.op}) /\ (r.op = "create" => UNCHANGED thread)
  \/ r = Creation(thread[c].s) /\ Creating(c, r.s) /\ thread'[c].step = "idle" /\ UNCHANGED inbox
  \/ r.op = "close"
Truthful(c, r, g) ==
  /\ r.op = "create" /\ g = Ok(r) => Register(c) /\ r = Creation(thread[c].s)
  /\ r.op = "create" /\ g = Err(r) => entry'[r.s] = "none" \/ (Reserve(c) /\ r = Head(inbox[c]))
  /\ r.op \in Attaching /\ g = Ok(r) => r = Head(inbox[c]) /\ entry[r.s] # "none"
Answer(c, r) ==
  \E g \in Answers(r) :
    /\ Truthful(c, r, g)
    /\ \/ control' = Reply(control, c, g) /\ UNCHANGED output /\ (r.op \in Attaching => g = Err(r))
       \/ output' = Reply(output, c, g) /\ UNCHANGED control /\ r.op \in Attaching /\ g = Ok(r)

\* What a step of a thread puts in the queues to the client.
LEMMA AnswerEffect ==
  ASSUME TypeInv, NEW c \in Conns, ThreadStep(c)
  PROVE  \/ UNCHANGED <<control, output>>
         \/ /\ thread[c].exit /\ CompleteAttach(c) /\ UNCHANGED output
            /\ control' = Reply(control, c, Exited(thread[c].s))
         \/ \E r \in Requests : Ends(c, r) /\ Answer(c, r)
<1> DEFINE s == thread[c].s  f == Head(inbox[c])
<1>1. /\ thread \in [Conns -> [step : Steps, s : Sessions \union {"none"}, exit : BOOLEAN]]
      /\ thread[c].step \notin {"idle", "gone"} => s \in Sessions
      /\ inbox \in [Conns -> Seq(Requests)]
      /\ entry \in [Sessions -> {"none", "alive", "exited"}]
  BY DEF TypeInv, ThreadsOK, QueuesOK, DaemonOK
<1>2. ASSUME NEW ops, Reads(c, ops)
      PROVE  f \in Requests /\ Reads(c, {f.op}) /\ f.op \in ops
  <2>1. inbox[c] \in Seq(Requests) /\ inbox[c] # <<>>
    BY <1>1, <1>2 DEF Reads
  <2> QED  BY <1>2, <2>1, Taken DEF Reads
<1>3. Done(c) => thread'[c].step = "idle"
  BY <1>1, IdleType DEF Done
<1>4. ASSUME thread[c].step \in {"reserved", "spawned"}, Done(c), UNCHANGED inbox
      PROVE  Creation(s) \in Requests /\ Ends(c, Creation(s))
  <2>1. Creation(s) \in Requests /\ Creation(s).s = s
    BY <1>1, <1>4, FrameType DEF Creation
  <2> QED  BY <1>3, <1>4, <2>1 DEF Ends, Creating
<1>5. Creation(s).op = "create" /\ Creation(s).s = s /\ "create" \notin Attaching
      /\ "close" \notin Attaching /\ "close" # "create"
  BY DEF Creation, Attaching
<1>6. \A r, q : Ok(r) # Err(q) /\ Ok(r) \in Answers(r) /\ Err(r) \in Answers(r)
  BY Distinct DEF Answers
<1>7. CASE Reserve(c)
  <2>1. f \in Requests /\ Reads(c, {f.op}) /\ f.op = "create"
    BY <1>2, <1>7 DEF Reserve
  <2>2. /\ UNCHANGED output
        /\ \/ UNCHANGED control
           \/ UNCHANGED thread /\ control' = Reply(control, c, Err(f))
    BY <1>7 DEF Reserve
  <2>3. Truthful(c, f, Err(f))
    BY <1>5, <1>6, <1>7, <2>1 DEF Truthful
  <2> QED  BY <1>5, <1>6, <2>1, <2>2, <2>3 DEF Answer, Ends
<1>8. CASE Spawn(c)
  <2>1. CASE UNCHANGED control
    BY <1>8, <2>1 DEF Spawn
  <2>2. CASE control' = Reply(control, c, Err(Creation(s))) /\ Done(c)
             /\ entry' = [entry EXCEPT ![s] = "none"]
    <3>1. thread[c].step = "reserved" /\ UNCHANGED <<inbox, output>>
      BY <1>8 DEF Spawn
    <3>2. entry'[s] = "none"
      BY <1>1, <2>2, <3>1
    <3>3. Truthful(c, Creation(s), Err(Creation(s)))
      BY <1>5, <1>6, <3>2 DEF Truthful
    <3> QED  BY <1>4, <1>5, <1>6, <2>2, <3>1, <3>3 DEF Answer
  <2> QED  BY <1>8, <2>1, <2>2 DEF Spawn
<1>9. CASE Register(c)
  <2>1. thread[c].step = "spawned" /\ Done(c) /\ UNCHANGED <<inbox, output, entry>>
    BY <1>9 DEF Register
  <2>2. PICK g \in Answers(Creation(s)) :
          /\ control' = Reply(control, c, g)
          /\ g = Err(Creation(s)) => entry[s] = "none"
    BY <1>6, <1>9 DEF Register
  <2>3. Truthful(c, Creation(s), g)
    BY <1>5, <1>9, <2>1, <2>2 DEF Truthful
  <2> QED  BY <1>4, <1>5, <2>1, <2>2, <2>3 DEF Answer
<1>10. CASE Attach(c)
  <2>1. f \in Requests /\ Ends(c, f) /\ f.op \in Attaching
    BY <1>2, <1>5, <1>10 DEF Attach, Ends
  <2>2. f.op # "create"
    BY <2>1 DEF Attaching
  <2>3. CASE control' = Reply(control, c, Err(f)) /\ UNCHANGED output
    <3>1. Truthful(c, f, Err(f))
      BY <1>6, <2>2 DEF Truthful
    <3> QED  BY <1>6, <2>1, <2>3, <3>1 DEF Answer
  <2>4. CASE output' = Reply(output, c, Ok(f)) /\ UNCHANGED control /\ entry[f.s] # "none"
    <3>1. Truthful(c, f, Ok(f))
      BY <1>6, <2>2, <2>4 DEF Truthful
    <3> QED  BY <1>6, <2>1, <2>4, <3>1 DEF Answer
  <2> QED  BY <1>10, <2>3, <2>4 DEF Attach
<1>11. CASE CompleteAttach(c)
  BY <1>11 DEF CompleteAttach, Exited
<1>12. CASE Kill(c) \/ Leave(c)
  BY <1>12 DEF Kill, Leave
<1>13. CASE FinishClose(c)
  <2> DEFINE r == Request("close", s)
  <2>1. s \in Sessions /\ UNCHANGED output /\ control' = Reply(control, c, Ok(r))
    BY <1>1, <1>13 DEF FinishClose, Request
  <2>2. r \in Requests /\ r.op = "close"
    BY <2>1, FrameType, Distinct
  <2> HIDE DEF r
  <2>3. Truthful(c, r, Ok(r))
    BY <1>5, <2>2 DEF Truthful
  <2> QED  BY <1>5, <1>6, <2>1, <2>2, <2>3 DEF Ends, Answer
<1> QED  BY <1>7, <1>8, <1>9, <1>10, <1>11, <1>12, <1>13 DEF ThreadStep

-----------------------------------------------------------------------------
(* What the invariants rest on: the parts of the inductive invariant. *)

\* Only the client's connection has frames on the way back; a connection that has not been
\* opened has neither a thread nor requests.
Quiet ==
  /\ \A c \in Conns : c # conn => control[c] = <<>> /\ output[c] = <<>>
  /\ \A c \in Conns : c > opened => thread[c].step = "gone" /\ inbox[c] = <<>>

\* At the start no connection is open.
LEMMA QuietInit == Init => Quiet
  BY IdleType DEF Init, Quiet

\* No step lets a lost connection answer, or fills one that is not open yet.
LEMMA QuietStep ==
  ASSUME TypeInv, Quiet, [Next]_vars
  PROVE  Quiet'
<1>1. QueuesOK /\ ClientOK /\ opened \in Nat
  BY LifecycleAssumption DEF TypeInv, ClientOK
<1>2. ASSUME NEW s \in Sessions,
             \/ Write(s) \/ Exit(s) \/ Read(s) \/ TakeEvent(s) \/ EmitOutput(s)
             \/ OpenTab(s) \/ CloseTab(s) \/ Restore(s)
      PROVE  Quiet'
  <2>1. UNCHANGED <<conn, opened, thread, inbox, control, output>>
    BY <1>2 DEF Write, Exit, Read, TakeEvent, EmitOutput, OpenTab, CloseTab, Restore, client
  <2> QED  BY <2>1 DEF Quiet
<1>3. ASSUME NEW s \in Sessions, EmitStatus(s) PROVE Quiet'
  <2>1. PushExit(s) /\ UNCHANGED <<conn, opened, inbox, output>>
    BY <1>3 DEF EmitStatus, client
  <2>2. \A c \in Conns : thread'[c].step = thread[c].step
    BY <2>1, PushEffect
  <2>3. \A c \in Conns : c # conn => control'[c] = control[c]
    BY <2>1, PushEffect
  <2> QED  BY <2>1, <2>2, <2>3 DEF Quiet
<1>4. ASSUME NEW c \in Conns, ThreadStep(c) PROVE Quiet'
  <2>1. /\ \A d \in Conns : d # c => thread'[d] = thread[d] /\ inbox'[d] = inbox[d]
        /\ thread[c].step # "gone" /\ UNCHANGED <<conn, opened>>
    BY <1>4, ThreadEffect DEF client
  <2>2. ~(c > opened)
    BY <2>1 DEF Quiet
  <2>3. ASSUME NEW queue \in [Conns -> Seq(Frames)], NEW g \in Frames
        PROVE  \A d \in Conns : d # conn => Reply(queue, c, g)[d] = queue[d]
    BY <2>3, ReplyEffect
  <2>4. \A d \in Conns : d # conn => control'[d] = control[d] /\ output'[d] = output[d]
    <3>1. \A r \in Requests : \A g \in Answers(r) : g \in Frames
      BY FrameType DEF Answers
    <3>2. CASE \E r \in Requests : Answer(c, r)
      <4>1. PICK g \in Frames : \/ control' = Reply(control, c, g) /\ UNCHANGED output
                                \/ output' = Reply(output, c, g) /\ UNCHANGED control
        BY <3>1, <3>2 DEF Answer
      <4>2. control \in [Conns -> Seq(Frames)] /\ output \in [Conns -> Seq(Frames)]
        BY <1>1 DEF QueuesOK
      <4>3. CASE control' = Reply(control, c, g) /\ UNCHANGED output
        BY <2>3, <4>2, <4>3
      <4>4. CASE output' = Reply(output, c, g) /\ UNCHANGED control
        BY <2>3, <4>2, <4>4
      <4> QED  BY <4>1, <4>3, <4>4
    <3>3. CASE CompleteAttach(c) /\ control' = Reply(control, c, Exited(thread[c].s))
               /\ UNCHANGED output
      <4>1. Exited(thread[c].s) \in Frames
        BY <3>3, FrameType DEF CompleteAttach, TypeInv, ThreadsOK, Exited
      <4> QED  BY <1>1, <2>3, <3>3, <4>1 DEF QueuesOK
    <3> QED  BY <1>4, <3>2, <3>3, AnswerEffect
  <2> QED  BY <2>1, <2>2, <2>4 DEF Quiet
<1>5. CASE Connect
  <2>1. conn = 0 /\ opened + 1 \in Conns /\ opened' = opened + 1 /\ conn' = opened + 1
        /\ thread' = [thread EXCEPT ![opened + 1] = Idle] /\ UNCHANGED <<inbox, control, output>>
    BY <1>1, <1>5, LifecycleAssumption DEF Connect, Conns
  <2>2. \A c \in Conns : c # opened + 1 => thread'[c] = thread[c]
    BY <2>1 DEF TypeInv, ThreadsOK
  <2>3. \A c \in Conns : c \in Nat /\ c # 0
    BY LifecycleAssumption DEF Conns
  <2> QED  BY <1>1, <2>1, <2>2, <2>3 DEF Quiet
<1>6. CASE Send
  <2>1. PICK r \in todo : inbox' = [inbox EXCEPT ![conn] = Append(@, r)]
    BY <1>6 DEF Send
  <2>2. conn = opened /\ UNCHANGED <<conn, opened, thread, control, output>>
    BY <1>1, <1>6 DEF Send, ClientOK
  <2>3. \A c \in Conns : c > opened => inbox'[c] = inbox[c]
    BY <1>1, <2>1, <2>2 DEF QueuesOK, Conns
  <2> QED  BY <2>2, <2>3 DEF Quiet
<1>7. CASE Reconnect
  BY <1>7 DEF Reconnect, Quiet
<1>8. CASE DeliverControl \/ DeliverOutput
  <2>1. UNCHANGED <<conn, opened, thread, inbox>>
    BY <1>8 DEF DeliverControl, DeliverOutput, OnFrame
  <2>2. \A c \in Conns : c # conn => control'[c] = control[c] /\ output'[c] = output[c]
    BY <1>1, <1>8 DEF DeliverControl, DeliverOutput, QueuesOK
  <2> QED  BY <2>1, <2>2 DEF Quiet
<1>9. CASE Drop \/ Restart
  <2>1. Severed /\ conn' = 0 /\ UNCHANGED <<opened, thread>>
    BY <1>9 DEF Drop, Restart, Rejected
  <2>2. conn = opened
    BY <1>1, <2>1 DEF Severed, ClientOK
  <2>3. \A c \in Conns : control'[c] = <<>> /\ output'[c] = <<>>
    BY <1>1, <2>1, SeveredEffect DEF Quiet, QueuesOK
  <2>4. \A c \in Conns : c > opened => inbox'[c] = inbox[c]
    BY <1>1, <2>1, <2>2, SeveredEffect DEF Conns
  <2> QED  BY <2>1, <2>3, <2>4 DEF Quiet
<1>10. CASE Crash
  BY <1>10, IdleType DEF Crash, Quiet
<1>11. CASE UNCHANGED vars
  BY <1>11 DEF vars, client, Quiet
<1> QED
  BY <1>2, <1>3, <1>4, <1>5, <1>6, <1>7, <1>8, <1>9, <1>10, <1>11 DEF Next, SessionStep, ClientStep

\* Nothing has happened for a session yet.
Unstarted(s) ==
  /\ proc[s] = "none" /\ made[s] = 0 /\ unread[s] = 0 /\ kept[s] = 0
  /\ reader[s] = "none" /\ chan[s] = <<>> /\ sink[s] = Sleeping
Fresh(s) == Unstarted(s) /\ entry[s] = "none"

\* Only the thread that has reserved a session starts it.
LEMMA UnstartedStep ==
  ASSUME TypeInv, [Next]_vars, NEW s \in Sessions, Unstarted(s)
  PROVE  Unstarted(s)' \/ \E c \in Conns : Reserving(c, s) /\ Spawn(c)
<1>1. ProcessOK /\ DaemonOK
  BY DEF TypeInv
<1>2. sink[s].held = 0 /\ sink[s].status = FALSE
  BY DEF Unstarted, Sleeping
<1>3. ASSUME UNCHANGED <<process, kept>> PROVE Unstarted(s)'
  BY <1>3 DEF Unstarted, process
<1>4. ASSUME NEW r \in Sessions, Write(r) \/ Exit(r) \/ Read(r) \/ TakeEvent(r)
      PROVE  Unstarted(s)'
  <2>1. r # s
    BY <1>1, <1>4 DEF Unstarted, Write, Exit, Read, TakeEvent
  <2>2. UNCHANGED kept
    BY <1>4 DEF Write, Exit, Read, TakeEvent, daemon
  <2> QED  BY <1>1, <1>4, <2>1, <2>2 DEF Unstarted, ProcessOK, Write, Exit, Read, TakeEvent
<1>5. ASSUME NEW r \in Sessions, EmitOutput(r) \/ EmitStatus(r)
      PROVE  Unstarted(s)'
  <2>1. r # s
    BY <1>1, <1>2, <1>5 DEF EmitOutput, EmitStatus
  <2>2. UNCHANGED <<proc, made, unread, reader, chan>>
    BY <1>5 DEF EmitOutput, EmitStatus
  <2>3. sink'[s] = sink[s] /\ kept'[s] = kept[s]
    BY <1>1, <1>5, <2>1 DEF EmitOutput, EmitStatus, ProcessOK, DaemonOK
  <2> QED  BY <2>2, <2>3 DEF Unstarted
<1>6. ASSUME NEW c \in Conns, ThreadStep(c)
      PROVE  Unstarted(s)' \/ (Reserving(c, s) /\ Spawn(c))
  <2>1. CASE Spawn(c)
    <3>1. UNCHANGED <<made, unread, chan, sink, kept>>
      BY <2>1 DEF Spawn
    <3>2. CASE thread[c].s = s
      BY <2>1, <3>2 DEF Spawn, Reserving
    <3>3. CASE thread[c].s # s
      <4>1. proc'[s] = proc[s] /\ reader'[s] = reader[s]
        BY <1>1, <2>1, <3>3 DEF Spawn, ProcessOK
      <4> QED  BY <3>1, <4>1 DEF Unstarted
    <3> QED  BY <3>2, <3>3
  <2>2. CASE Kill(c)
    <3>1. UNCHANGED <<made, unread, reader, chan, sink, kept>>
      BY <2>2 DEF Kill
    <3>2. proc'[s] = proc[s]
      BY <1>1, <2>2 DEF Kill, Unstarted, ProcessOK
    <3> QED  BY <3>1, <3>2 DEF Unstarted
  <2>3. CASE Reserve(c) \/ Register(c) \/ Attach(c) \/ CompleteAttach(c) \/ FinishClose(c) \/ Leave(c)
    BY <1>3, <2>3 DEF Reserve, Register, Attach, CompleteAttach, FinishClose, Leave, daemon
  <2> QED  BY <1>6, <2>1, <2>2, <2>3 DEF ThreadStep
<1>7. CASE Crash
  BY <1>7 DEF Crash, Unstarted
<1>8. CASE (\E r \in Sessions : OpenTab(r) \/ CloseTab(r) \/ Restore(r)) \/ ClientStep \/ Drop \/ Restart
           \/ UNCHANGED vars
  BY <1>3, <1>8 DEF OpenTab, CloseTab, Restore, ClientStep, Connect, Send, Reconnect, DeliverControl,
                    DeliverOutput, Drop, Restart, vars, daemon
<1> QED  BY <1>4, <1>5, <1>6, <1>7, <1>8 DEF Next, SessionStep

\* Only the thread that reads its creation gives a session an entry.
LEMMA EntryMade ==
  ASSUME TypeInv, [Next]_vars, NEW s \in Sessions, entry[s] = "none"
  PROVE  entry'[s] = "none" \/ \E c \in Conns : Reserve(c) /\ Head(inbox[c]) = Creation(s)
<1>1. DaemonOK
  BY DEF TypeInv
<1>2. ASSUME UNCHANGED entry PROVE entry'[s] = "none"
  BY <1>2
<1>3. ASSUME NEW r \in Sessions,
             \/ Write(r) \/ Exit(r) \/ SessionStep(r) \/ OpenTab(r) \/ CloseTab(r) \/ Restore(r)
      PROVE  entry'[s] = "none"
  BY <1>2, <1>3, StatusEffect DEF Write, Exit, SessionStep, Read, TakeEvent, EmitOutput, OpenTab,
     CloseTab, Restore, daemon
<1>4. ASSUME NEW c \in Conns, ThreadStep(c)
      PROVE  entry'[s] = "none" \/ (Reserve(c) /\ Head(inbox[c]) = Creation(s))
  <2>1. CASE Reserve(c)
    <3>1. inbox[c] \in Seq(Requests) /\ inbox[c] # <<>> /\ Head(inbox[c]).op = "create"
      BY <2>1 DEF Reserve, Reads, TypeInv, QueuesOK
    <3>2. Head(inbox[c]) \in Requests
      BY <3>1, Taken
    <3>3. CASE Head(inbox[c]).s = s
      BY <2>1, <3>1, <3>2, <3>3, Distinct DEF Creation, Request
    <3>4. CASE Head(inbox[c]).s # s
      BY <1>1, <2>1, <3>4 DEF Reserve, DaemonOK
    <3> QED  BY <3>3, <3>4
  <2>2. CASE Spawn(c) \/ FinishClose(c)
    BY <1>1, <2>2 DEF Spawn, FinishClose, DaemonOK
  <2>3. CASE Register(c) \/ Attach(c) \/ CompleteAttach(c) \/ Kill(c) \/ Leave(c)
    BY <1>2, <2>3 DEF Register, Attach, CompleteAttach, Kill, Leave, daemon
  <2> QED  BY <1>4, <2>1, <2>2, <2>3 DEF ThreadStep
<1>5. ASSUME ClientStep \/ Drop \/ Restart \/ UNCHANGED vars PROVE entry'[s] = "none"
  BY <1>2, <1>5 DEF ClientStep, Connect, Send, Reconnect, DeliverControl, DeliverOutput, Drop,
                    Restart, vars, daemon
<1>6. ASSUME Crash PROVE entry'[s] = "none"
  BY <1>6 DEF Crash
<1> QED  BY <1>3, <1>4, <1>5, <1>6 DEF Next

\* A fresh session stays so until its creation is read.
LEMMA FreshStep ==
  ASSUME TypeInv, [Next]_vars, NEW s \in Sessions, Fresh(s)
  PROVE  \/ Fresh(s)'
         \/ \E c \in Conns : \/ Reserving(c, s) /\ Spawn(c)
                             \/ Reserve(c) /\ Head(inbox[c]) = Creation(s)
<1>1. entry'[s] = "none" \/ \E c \in Conns : Reserve(c) /\ Head(inbox[c]) = Creation(s)
  BY EntryMade DEF Fresh
<1> QED  BY <1>1, UnstartedStep DEF Fresh

\* A request enters an inbox when it is sent, and is on one list only then.
LEMMA InboxStep ==
  ASSUME TypeInv, [Next]_vars, NEW c \in Conns
  PROVE  /\ \A x : In(x, inbox'[c]) => \/ In(x, inbox[c])
                                       \/ /\ Send /\ c = conn /\ x \in todo
                                          /\ x \notin todo' /\ x \in waiting'
         /\ \A x : \/ Once({x}, inbox[c]) => Once({x}, inbox'[c])
                   \/ In(x, inbox[c]) /\ Send /\ c = conn /\ x \in todo
<1>1. QueuesOK /\ ClientOK
  BY DEF TypeInv
<1>2. ASSUME UNCHANGED inbox
      PROVE  \A x : (In(x, inbox'[c]) => In(x, inbox[c])) /\ (Once({x}, inbox[c]) => Once({x}, inbox'[c]))
  BY <1>2
<1>3. CASE \E s \in Sessions : Write(s) \/ Exit(s) \/ SessionStep(s) \/ OpenTab(s) \/ CloseTab(s)
                               \/ Restore(s)
  BY <1>2, <1>3 DEF Write, Exit, SessionStep, Read, TakeEvent, EmitOutput, EmitStatus, OpenTab, CloseTab,
                    Restore
<1>4. ASSUME NEW d \in Conns, ThreadStep(d)
      PROVE  \A x : (In(x, inbox'[c]) => In(x, inbox[c])) /\ (Once({x}, inbox[c]) => Once({x}, inbox'[c]))
  <2>1. CASE c = d
    BY <1>4, <2>1, ThreadEffect
  <2>2. CASE c # d
    <3>1. inbox'[c] = inbox[c]
      BY <1>4, <2>2, ThreadEffect
    <3> QED  BY <3>1
  <2> QED  BY <2>1, <2>2
<1>5. CASE Send
  <2>1. PICK r \in todo : /\ inbox' = [inbox EXCEPT ![conn] = Append(@, r)]
                          /\ todo' = todo \ {r} /\ waiting' = waiting \union {r}
    BY <1>5 DEF Send
  <2>2. r \in Requests /\ inbox[c] \in Seq(Requests)
    BY <1>1 DEF ClientOK, QueuesOK
  <2>3. inbox'[c] = IF c = conn THEN Append(inbox[c], r) ELSE inbox[c]
    BY <1>1, <2>1 DEF QueuesOK
  <2>4. CASE c # conn
    <3>1. inbox'[c] = inbox[c]
      BY <2>3, <2>4
    <3> QED  BY <3>1
  <2>5. CASE c = conn
    <3>1. inbox'[c] = Append(inbox[c], r)
      BY <2>3, <2>5
    <3>2. \A x : In(x, inbox'[c]) <=> In(x, inbox[c]) \/ x = r
      BY <2>2, <3>1, Appended
    <3>3. \A x : (Once({x}, inbox[c]) /\ (r \in {x} => \A y \in {x} : ~In(y, inbox[c])))
                    => Once({x}, inbox'[c])
      BY <2>2, <3>1, Appended
    <3> QED  BY <1>5, <2>1, <2>5, <3>2, <3>3
  <2> QED  BY <2>4, <2>5
<1>6. CASE Connect \/ Reconnect \/ DeliverControl \/ DeliverOutput \/ UNCHANGED vars
  BY <1>2, <1>6 DEF Connect, Reconnect, DeliverControl, DeliverOutput, vars
<1>7. CASE Drop \/ Restart
  BY <1>7, SeveredEffect DEF Drop, Restart
<1>8. CASE Crash
  <2>1. inbox'[c] = <<>>
    BY <1>8 DEF Crash
  <2> QED  BY <2>1, EmptyQueue
<1> QED  BY <1>3, <1>4, <1>5, <1>6, <1>7, <1>8 DEF Next, ClientStep

\* Only a connection's own thread goes on; others end it or start it afresh.
LEMMA AloneStep ==
  ASSUME TypeInv, [Next]_vars, NEW c \in Conns, ~ThreadStep(c)
  PROVE  \/ thread'[c].step = thread[c].step /\ thread'[c].s = thread[c].s
         \/ thread'[c].step \in {"idle", "gone"}
<1>0. ThreadsOK
  BY DEF TypeInv
<1>1. CASE UNCHANGED thread
  BY <1>1
<1>2. CASE \E d \in Conns : ThreadStep(d)
  BY <1>2, ThreadEffect
<1>3. CASE \E r \in Sessions : EmitStatus(r)
  BY <1>3, PushEffect DEF EmitStatus
<1>4. CASE Connect
  <2>1. thread' = [thread EXCEPT ![opened + 1] = Idle]
    BY <1>4 DEF Connect
  <2>2. thread'[c] \in {thread[c], Idle}
    BY <1>0, <2>1 DEF ThreadsOK
  <2> QED  BY <2>2, IdleType
<1>5. CASE Crash
  BY <1>5, IdleType DEF Crash
<1>6. CASE \E r \in Sessions : \/ Write(r) \/ Exit(r) \/ Read(r) \/ TakeEvent(r) \/ EmitOutput(r)
                               \/ OpenTab(r) \/ CloseTab(r) \/ Restore(r)
  BY <1>1, <1>6 DEF Write, Exit, Read, TakeEvent, EmitOutput, OpenTab, CloseTab, Restore
<1>7. CASE Send \/ Reconnect \/ DeliverControl \/ DeliverOutput \/ Drop \/ Restart \/ UNCHANGED vars
  BY <1>1, <1>7 DEF Send, Reconnect, DeliverControl, DeliverOutput, Drop, Restart, vars
<1> QED  BY <1>2, <1>3, <1>4, <1>5, <1>6, <1>7 DEF Next, SessionStep, ClientStep

\* A thread that creates or closes a session has taken the request for it.
LEMMA BusyStep ==
  ASSUME TypeInv, [Next]_vars, NEW c \in Conns, NEW s \in Sessions
  PROVE  /\ Creating(c, s)' => \/ Creating(c, s)
                               \/ Reserve(c) /\ Head(inbox[c]) = Creation(s)
         /\ Reserving(c, s)' => \/ Reserving(c, s) /\ ~Spawn(c)
                                \/ Reserve(c) /\ Head(inbox[c]) = Creation(s)
         /\ Closing(c, s)' => \/ Closing(c, s)
                              \/ Kill(c) /\ Head(inbox[c]) = Request("close", s)
<1>1. ThreadsOK /\ ClientOK
  BY DEF TypeInv
<1>2. ASSUME thread'[c].step = thread[c].step, thread'[c].s = thread[c].s
      PROVE  /\ Creating(c, s)' = Creating(c, s) /\ Reserving(c, s)' = Reserving(c, s)
             /\ Closing(c, s)' = Closing(c, s)
  BY <1>2 DEF Creating, Reserving, Closing
<1>3. ASSUME thread'[c].step \in {"idle", "gone"}
      PROVE  ~Creating(c, s)' /\ ~Reserving(c, s)' /\ ~Closing(c, s)'
  BY <1>3 DEF Creating, Reserving, Closing
<1>4. ASSUME Spawn(c) PROVE ThreadStep(c)
  BY <1>4 DEF ThreadStep
<1>5. ASSUME ~ThreadStep(c)
      PROVE  \/ thread'[c].step = thread[c].step /\ thread'[c].s = thread[c].s
             \/ thread'[c].step \in {"idle", "gone"}
  BY <1>5, AloneStep
<1>6. CASE ThreadStep(c)
  BY <1>6, ThreadEffect DEF Creating, Reserving
<1>7. CASE ~ThreadStep(c)
  BY <1>2, <1>3, <1>4, <1>5, <1>7
<1> QED  BY <1>6, <1>7

-----------------------------------------------------------------------------
(* A session is created once. *)

\* A creation that has not been carried out is on one list, and its session is fresh.
CreateInv ==
  \A s \in Sessions :
    /\ \A c \in Conns : Reserving(c, s) => Unstarted(s)
    /\ tab[s] = "none" \/ Creation(s) \in todo =>
         Fresh(s) /\ \A c \in Conns : ~Creating(c, s) /\ ~In(Creation(s), inbox[c])
    /\ \A c \in Conns : In(Creation(s), inbox[c]) =>
         Fresh(s) /\ \A d \in Conns : ~Creating(d, s) /\ (In(Creation(s), inbox[d]) => d = c)
    /\ \A c \in Conns : Once({Creation(s)}, inbox[c])
    /\ \A c, d \in Conns : Creating(c, s) /\ Creating(d, s) => c = d

\* At the start every session is fresh.
LEMMA CreateInit == Init => CreateInv
<1> SUFFICES ASSUME Init, NEW s \in Sessions
             PROVE  /\ \A c \in Conns : ~Reserving(c, s) /\ ~Creating(c, s)
                    /\ Fresh(s) /\ \A c \in Conns : inbox[c] = <<>>
  BY EmptyQueue DEF CreateInv
<1> QED  BY IdleType DEF Init, Reserving, Creating, Fresh, Unstarted

\* A tab that is asked to be created was new before; nothing makes a tab new.
LEMMA TodoStep ==
  ASSUME TypeInv, [Next]_vars, NEW s \in Sessions
  PROVE  /\ tab'[s] = "none" => tab[s] = "none"
         /\ Creation(s) \in todo' => Creation(s) \in todo \/ tab[s] = "none"
<1>1. ClientOK /\ \A op, r : Request(op, r) = Creation(s) => op = "create" /\ r = s
  BY DEF TypeInv, Request, Creation
<1>2. ASSUME UNCHANGED <<todo, tab>>
      PROVE  (tab'[s] = "none" => tab[s] = "none") /\ todo' = todo
  BY <1>2
<1>3. CASE \E r \in Sessions : Write(r) \/ Exit(r) \/ SessionStep(r)
  BY <1>2, <1>3 DEF Write, Exit, SessionStep, Read, TakeEvent, EmitOutput, EmitStatus, client
<1>4. CASE \E c \in Conns : ThreadStep(c)
  BY <1>2, <1>4, ThreadEffect DEF client
<1>5. ASSUME NEW r \in Sessions, OpenTab(r) \/ CloseTab(r) \/ Restore(r)
      PROVE  /\ tab'[s] = "none" => tab[s] = "none"
             /\ Creation(s) \in todo' => Creation(s) \in todo \/ tab[s] = "none"
  <2>1. tab'[s] = "none" => tab[s] = "none"
    BY <1>1, <1>5 DEF OpenTab, CloseTab, Restore, ClientOK
  <2>2. CASE OpenTab(r)
    BY <1>1, <2>1, <2>2 DEF OpenTab
  <2>3. CASE CloseTab(r) \/ Restore(r)
    BY <1>1, <2>1, <2>3 DEF CloseTab, Restore
  <2> QED  BY <1>5, <2>2, <2>3
<1>6. CASE Connect \/ Send \/ Reconnect \/ UNCHANGED vars
  <2>1. UNCHANGED tab
    BY <1>6 DEF Connect, Send, Reconnect, vars, client
  <2>2. Creation(s) \in todo' => Creation(s) \in todo
    BY <1>1, <1>6 DEF Connect, Send, Reconnect, vars, client
  <2> QED  BY <2>1, <2>2
<1>7. ASSUME NEW f \in Frames, OnFrame(f)
      PROVE  /\ tab'[s] = "none" => tab[s] = "none"
             /\ Creation(s) \in todo' => Creation(s) \in todo
  <2>1. CASE f.k = "exit"
    BY <2>1, <1>7 DEF OnFrame, OnExit
  <2>2. CASE f.k = "ok"
    BY <1>1, <2>2, <1>7 DEF OnFrame, OnOk, Opened, ClientOK
  <2>3. CASE f.k = "err"
    BY <1>1, <2>3, <1>7 DEF OnFrame, OnErr, ClientOK
  <2> QED  BY <2>1, <2>2, <2>3 DEF Frames
<1>8. CASE DeliverControl \/ DeliverOutput
  <2>1. PICK f \in Frames : OnFrame(f)
    <3>1. conn \in Conns
      BY <1>1, <1>8, LifecycleAssumption DEF DeliverControl, DeliverOutput, ClientOK, Conns
    <3>2. control[conn] \in Seq(Frames) /\ output[conn] \in Seq(Frames)
      BY <3>1 DEF TypeInv, QueuesOK
    <3> QED  BY <1>8, <3>2, Taken DEF DeliverControl, DeliverOutput
  <2> QED  BY <1>7, <2>1
<1>9. ASSUME Rejected
      PROVE  /\ tab'[s] = "none" => tab[s] = "none"
             /\ Creation(s) \in todo' => Creation(s) \in todo
  BY <1>1, <1>9 DEF Rejected
<1>10. CASE Drop \/ Crash
  BY <1>9, <1>10 DEF Drop, Crash
<1>11. CASE Restart
  BY <1>1, <1>11 DEF Restart, ClientOK
<1> QED  BY <1>3, <1>4, <1>5, <1>6, <1>8, <1>10, <1>11 DEF Next, ClientStep

\* Who is at the head of an inbox is in it; once it is read, it is not.
LEMMA ReadOut ==
  ASSUME TypeInv, NEW c \in Conns, NEW ops, Reads(c, ops)
  PROVE  LET r == Head(inbox[c])
         IN  /\ r \in Requests /\ In(r, inbox[c])
             /\ Once({r}, inbox[c]) => ~In(r, inbox'[c])
<1>1. inbox[c] \in Seq(Requests) /\ inbox[c] # <<>> /\ inbox'[c] = Tail(inbox[c])
  BY DEF Reads, TypeInv, QueuesOK
<1>2. Head(inbox[c]) \in Requests /\ In(Head(inbox[c]), inbox[c])
      /\ \A X : Once(X, inbox[c]) /\ Head(inbox[c]) \in X => \A x \in X : ~In(x, Tail(inbox[c]))
  BY <1>1, Taken
<1> QED  BY <1>1, <1>2

\* What is waited for or about to be sent is a creation in course, on one list only.
Opening == {"create", "probe"}
PendingInv ==
  \A s \in Sessions :
    /\ \A op \in Opening : Request(op, s) \in todo \union waiting => tab[s] = "creating"
    /\ \A op \in Opening : ~(Request(op, s) \in todo /\ Request(op, s) \in waiting)
    /\ ~(Request("create", s) \in todo \union waiting /\ Request("probe", s) \in todo \union waiting)

\* No step creates a session twice, or one that is not fresh.
LEMMA CreateStep ==
  ASSUME TypeInv, CreateInv, PendingInv, [Next]_vars
  PROVE  CreateInv'
<1> SUFFICES ASSUME NEW s \in Sessions
             PROVE  /\ \A c \in Conns : Reserving(c, s)' => Unstarted(s)'
                    /\ tab'[s] = "none" \/ Creation(s) \in todo' =>
                         Fresh(s)' /\ \A c \in Conns : ~Creating(c, s)' /\ ~In(Creation(s), inbox'[c])
                    /\ \A c \in Conns : In(Creation(s), inbox'[c]) =>
                         Fresh(s)' /\ \A d \in Conns :
                           ~Creating(d, s)' /\ (In(Creation(s), inbox'[d]) => d = c)
                    /\ \A c \in Conns : Once({Creation(s)}, inbox'[c])
                    /\ \A c, d \in Conns : Creating(c, s)' /\ Creating(d, s)' => c = d
  BY DEF CreateInv, Creation
<1> DEFINE r == Creation(s)
<1>1. /\ \A c \in Conns : Reserving(c, s) => Unstarted(s) /\ Creating(c, s)
      /\ tab[s] = "none" \/ r \in todo =>
           Fresh(s) /\ \A c \in Conns : ~Creating(c, s) /\ ~In(r, inbox[c])
      /\ \A c \in Conns : In(r, inbox[c]) =>
           Fresh(s) /\ \A d \in Conns : ~Creating(d, s) /\ (In(r, inbox[d]) => d = c)
      /\ \A c \in Conns : Once({r}, inbox[c])
      /\ \A c, d \in Conns : Creating(c, s) /\ Creating(d, s) => c = d
  BY DEF CreateInv, Reserving, Creating
<1>2. tab[s] = "none" => r \notin todo
  BY DEF PendingInv, Opening, Request, Creation
<1>3. ASSUME NEW c \in Conns, Reserve(c), Head(inbox[c]) = r
      PROVE  In(r, inbox[c]) /\ ~In(r, inbox'[c])
  BY <1>1, <1>3, ReadOut DEF Reserve
<1> HIDE DEF r
<1>4. ASSUME NEW c \in Conns
      PROVE  /\ Creating(c, s)' => Creating(c, s) \/ (Reserve(c) /\ Head(inbox[c]) = r)
             /\ Reserving(c, s)' => \/ Reserving(c, s) /\ ~Spawn(c)
                                    \/ Reserve(c) /\ Head(inbox[c]) = r
             /\ In(r, inbox'[c]) => \/ In(r, inbox[c])
                                    \/ /\ Send /\ c = conn /\ r \in todo
                                       /\ r \notin todo' /\ UNCHANGED tab
             /\ Once({r}, inbox[c]) => Once({r}, inbox'[c]) \/ (In(r, inbox[c]) /\ r \in todo)
  <2>1. Send => UNCHANGED tab
    BY DEF Send
  <2> QED  BY <2>1, BusyStep, InboxStep DEF r
<1>5. /\ tab'[s] = "none" => tab[s] = "none"
      /\ r \in todo' => r \in todo \/ tab[s] = "none"
  BY TodoStep DEF r
<1>6. Fresh(s) => \/ Fresh(s)'
                  \/ \E c \in Conns : Reserving(c, s) \/ (Reserve(c) /\ Head(inbox[c]) = r)
  BY FreshStep DEF r
<1>7. Unstarted(s) => Unstarted(s)' \/ \E c \in Conns : Reserving(c, s) /\ Spawn(c)
  BY UnstartedStep
<1>8. ASSUME NEW c \in Conns, Reserving(c, s)' PROVE Unstarted(s)'
  <2>1. CASE Reserving(c, s) /\ ~Spawn(c)
    BY <1>1, <1>7, <2>1
  <2>2. CASE Reserve(c) /\ Head(inbox[c]) = r
    BY <1>1, <1>3, <1>7, <2>2 DEF Fresh
  <2> QED  BY <1>4, <1>8, <2>1, <2>2
<1>9. ASSUME tab'[s] = "none" \/ r \in todo'
      PROVE  Fresh(s)' /\ \A c \in Conns : ~Creating(c, s)' /\ ~In(r, inbox'[c])
  <2>1. Fresh(s) /\ \A c \in Conns : ~Creating(c, s) /\ ~In(r, inbox[c])
    BY <1>1, <1>5, <1>9
  <2>2. Fresh(s)'
    BY <1>1, <1>3, <1>6, <2>1
  <2>3. ASSUME NEW c \in Conns PROVE ~Creating(c, s)'
    BY <1>3, <1>4, <2>1
  <2>4. ASSUME NEW c \in Conns PROVE ~In(r, inbox'[c])
    BY <1>2, <1>4, <1>9, <2>1
  <2> QED  BY <2>2, <2>3, <2>4
<1>10. ASSUME NEW c \in Conns, In(r, inbox'[c])
       PROVE  Fresh(s)' /\ \A d \in Conns : ~Creating(d, s)' /\ (In(r, inbox'[d]) => d = c)
  <2>1. CASE In(r, inbox[c])
    <3>1. Fresh(s) /\ \A d \in Conns : ~Creating(d, s) /\ (In(r, inbox[d]) => d = c)
      BY <1>1, <2>1
    <3>2. \A d \in Conns : ~(Reserve(d) /\ Head(inbox[d]) = r)
      BY <1>3, <1>10, <3>1
    <3>3. Fresh(s)'
      BY <1>1, <1>6, <3>1, <3>2
    <3>4. \A d \in Conns : ~Creating(d, s)'
      BY <1>4, <3>1, <3>2
    <3>5. r \notin todo
      BY <1>1, <2>1
    <3>6. \A d \in Conns : In(r, inbox'[d]) => d = c
      BY <1>4, <3>1, <3>5
    <3> QED  BY <3>3, <3>4, <3>6
  <2>2. CASE ~In(r, inbox[c])
    <3>1. c = conn /\ r \in todo
      BY <1>4, <1>10, <2>2
    <3>2. Fresh(s) /\ \A d \in Conns : ~Creating(d, s) /\ ~In(r, inbox[d])
      BY <1>1, <3>1
    <3>3. \A d \in Conns : ~(Reserve(d) /\ Head(inbox[d]) = r)
      BY <1>3, <3>2
    <3>4. Fresh(s)'
      BY <1>1, <1>6, <3>2, <3>3
    <3>5. \A d \in Conns : ~Creating(d, s)'
      BY <1>4, <3>2, <3>3
    <3>6. \A d \in Conns : In(r, inbox'[d]) => d = conn
      BY <1>4, <3>2
    <3> QED  BY <3>1, <3>4, <3>5, <3>6
  <2> QED  BY <2>1, <2>2
<1>11. ASSUME NEW c \in Conns PROVE Once({r}, inbox'[c])
  BY <1>1, <1>4
<1>12. ASSUME NEW c \in Conns, NEW d \in Conns, Creating(c, s)', Creating(d, s)' PROVE c = d
  BY <1>1, <1>3, <1>4, <1>12
<1> QED  BY <1>8, <1>9, <1>10, <1>11, <1>12 DEF r

-----------------------------------------------------------------------------
(* No chunk is lost before the status: exits are reported after the last output. *)

\* Every chunk a process has written is unread, in the channel, held by the event thread,
\* or in the buffer, as long as there is an entry; and the status follows the last one.
InChannel(s) == IF chan[s] = <<"output">> THEN 1 ELSE 0
OnTheWay(s) == unread[s] + InChannel(s) + sink[s].held + kept[s]
Flow(s) ==
  /\ OnTheWay(s) <= made[s] /\ (entry[s] # "none" => OnTheWay(s) = made[s])
  /\ reader[s] = "done" => unread[s] = 0 /\ proc[s] = "dead" /\ chan[s] # <<"output">>
  /\ chan[s] = <<"status">> => reader[s] = "done" /\ ~sink[s].status
  /\ sink[s].status => reader[s] = "done" /\ chan[s] = <<>>
  /\ sink[s].ended => sink[s].status /\ sink[s].held = 0
  /\ entry[s] = "exited" => sink[s].ended
FlowInv == \A s \in Sessions : Flow(s)

\* At the start nothing has been written.
LEMMA FlowInit == Init => FlowInv
  BY DEF Init, FlowInv, Flow, OnTheWay, InChannel, Sleeping

\* The types of what it speaks of.
LEMMA FlowTypes ==
  ASSUME TypeInv, NEW s \in Sessions
  PROVE  /\ made[s] \in Nat /\ unread[s] \in Nat /\ kept[s] \in Nat /\ sink[s].held \in 0..2
         /\ sink[s].status \in BOOLEAN /\ sink[s].ended \in BOOLEAN
         /\ chan[s] \in {<<>>, <<"output">>, <<"status">>} /\ InChannel(s) \in {0, 1}
         /\ entry[s] \in {"none", "alive", "exited"} /\ OnTheWay(s) \in Nat
         /\ <<>> # <<"output">> /\ <<>> # <<"status">> /\ <<"output">> # <<"status">>
<1>1. sink[s] \in [held : 0..2, status : BOOLEAN, ended : BOOLEAN]
  BY DEF TypeInv, ProcessOK
<1>2. made[s] \in 0..MaxOut /\ unread[s] \in Nat /\ kept[s] \in Nat /\ MaxOut \in Nat
  BY LifecycleAssumption DEF TypeInv, ProcessOK, DaemonOK
<1>3. made[s] \in Nat
  BY <1>2
<1>4. chan[s] \in {<<>>, <<"output">>, <<"status">>} /\ entry[s] \in {"none", "alive", "exited"}
  BY DEF TypeInv, ProcessOK, DaemonOK
<1>5. InChannel(s) \in Nat /\ sink[s].held \in Nat /\ InChannel(s) \in {0, 1}
  BY <1>1 DEF InChannel
<1>6. OnTheWay(s) \in Nat
  BY <1>2, <1>5 DEF OnTheWay
<1> QED  BY <1>1, <1>2, <1>3, <1>4, <1>5, <1>6

\* A step that leaves a session's output alone, and its entry or takes it away.
LEMMA FlowSame ==
  ASSUME TypeInv, NEW s \in Sessions, Flow(s),
         UNCHANGED <<made[s], unread[s], kept[s], sink[s], chan[s], reader[s]>>,
         proc'[s] = proc[s] \/ proc'[s] = "dead",
         entry'[s] = entry[s] \/ entry'[s] = "none"
  PROVE  Flow(s)'
<1>1. OnTheWay(s)' = OnTheWay(s)
  BY DEF OnTheWay, InChannel
<1> QED  BY <1>1 DEF Flow

\* The steps of a process, its reader and its event thread.
LEMMA FlowProcess ==
  ASSUME TypeInv, NEW s \in Sessions, Flow(s), Write(s) \/ Exit(s) \/ SessionStep(s)
  PROVE  Flow(s)'
<1>1. ProcessOK /\ DaemonOK
  BY DEF TypeInv
<1>2. /\ made[s] \in Nat /\ unread[s] \in Nat /\ kept[s] \in Nat /\ sink[s].held \in 0..2
      /\ sink[s].status \in BOOLEAN /\ sink[s].ended \in BOOLEAN
      /\ chan[s] \in {<<>>, <<"output">>, <<"status">>} /\ InChannel(s) \in {0, 1}
      /\ <<>> # <<"output">> /\ <<>> # <<"status">> /\ <<"output">> # <<"status">>
  BY FlowTypes
<1>3. CASE Write(s)
  <2>1. made'[s] = made[s] + 1 /\ unread'[s] = unread[s] + 1 /\ proc[s] = "running"
    BY <1>1, <1>3 DEF Write, ProcessOK
  <2>2. UNCHANGED <<proc, reader, chan, sink, entry, kept>>
    BY <1>3 DEF Write, daemon
  <2>3. OnTheWay(s)' = OnTheWay(s) + 1
    <3>1. InChannel(s)' = InChannel(s) /\ sink'[s].held = sink[s].held /\ kept'[s] = kept[s]
      BY <2>2 DEF InChannel
    <3>2. InChannel(s) \in Nat /\ sink[s].held \in Nat /\ unread[s] \in Nat /\ kept[s] \in Nat
      BY <1>2
    <3> QED  BY <2>1, <3>1, <3>2 DEF OnTheWay
  <2>4. OnTheWay(s) \in Nat
    BY FlowTypes
  <2> QED  BY <1>2, <2>1, <2>2, <2>3, <2>4 DEF Flow
<1>4. CASE Exit(s)
  BY <1>1, <1>4, FlowSame DEF Exit, daemon, ProcessOK
<1>5. CASE Read(s)
  <2>1. UNCHANGED <<proc, made, sink, entry, kept>> /\ reader[s] = "reading" /\ chan[s] = <<>>
    BY <1>5 DEF Read, daemon
  <2>2. ~sink[s].status /\ ~sink[s].ended /\ entry[s] # "exited"
    BY <2>1 DEF Flow
  <2>3. CASE unread[s] > 0 /\ unread' = [unread EXCEPT ![s] = @ - 1]
             /\ chan' = [chan EXCEPT ![s] = <<"output">>] /\ UNCHANGED reader
    <3>1. unread'[s] = unread[s] - 1 /\ chan'[s] = <<"output">>
      BY <1>1, <2>3 DEF ProcessOK
    <3>2. OnTheWay(s)' = OnTheWay(s)
      BY <1>2, <2>1, <3>1 DEF OnTheWay, InChannel
    <3> QED  BY <1>2, <2>1, <2>2, <2>3, <3>1, <3>2 DEF Flow
  <2>4. CASE unread[s] = 0 /\ proc[s] = "dead" /\ chan' = [chan EXCEPT ![s] = <<"status">>]
             /\ reader' = [reader EXCEPT ![s] = "done"] /\ UNCHANGED unread
    <3>1. chan'[s] = <<"status">> /\ reader'[s] = "done"
      BY <1>1, <2>4 DEF ProcessOK
    <3>2. OnTheWay(s)' = OnTheWay(s)
      BY <1>2, <2>1, <2>4, <3>1 DEF OnTheWay, InChannel
    <3> QED  BY <1>2, <2>1, <2>2, <2>4, <3>1, <3>2 DEF Flow
  <2> QED  BY <1>5, <2>3, <2>4 DEF Read
<1>6. CASE TakeEvent(s)
  <2>1. /\ UNCHANGED <<proc, made, unread, reader, entry, kept>>
        /\ chan[s] # <<>> /\ ~sink[s].status /\ sink[s].held < 2 /\ chan'[s] = <<>>
    BY <1>1, <1>6 DEF TakeEvent, daemon, ProcessOK
  <2>2. ~sink[s].ended /\ entry[s] # "exited"
    BY <2>1 DEF Flow
  <2>3. CASE chan[s] = <<"output">>
    <3>1. sink' = [sink EXCEPT ![s].held = @ + 1]
      BY <1>6, <2>3 DEF TakeEvent
    <3>2. /\ sink'[s].held = sink[s].held + 1 /\ sink'[s].status = sink[s].status
          /\ sink'[s].ended = sink[s].ended
      BY <1>1, <3>1 DEF ProcessOK
    <3>3. OnTheWay(s)' = OnTheWay(s)
      BY <1>2, <2>1, <2>3, <3>2 DEF OnTheWay, InChannel
    <3> QED  BY <1>2, <2>1, <2>2, <2>3, <3>2, <3>3 DEF Flow
  <2>4. CASE chan[s] = <<"status">>
    <3>1. sink' = [sink EXCEPT ![s].status = TRUE]
      BY <1>6, <2>4 DEF TakeEvent
    <3>2. sink'[s].held = sink[s].held /\ sink'[s].ended = sink[s].ended
      BY <1>1, <3>1 DEF ProcessOK
    <3>3. OnTheWay(s)' = OnTheWay(s)
      BY <1>2, <2>1, <2>4, <3>2 DEF OnTheWay, InChannel
    <3> QED  BY <1>2, <2>1, <2>2, <2>4, <3>2, <3>3 DEF Flow
  <2> QED  BY <1>2, <2>1, <2>3, <2>4
<1>7. CASE EmitOutput(s)
  <2>1. PICK n \in {sink[s].held} \union (IF sink[s].status THEN {} ELSE 1..sink[s].held) :
          /\ sink' = [sink EXCEPT ![s].held = @ - n]
          /\ kept' = IF entry[s] = "none" THEN kept ELSE [kept EXCEPT ![s] = @ + n]
    BY <1>7 DEF EmitOutput
  <2>2. sink[s].held > 0 /\ UNCHANGED <<proc, made, unread, reader, chan, entry>>
    BY <1>7 DEF EmitOutput
  <2>3. n \in 1..2
    BY <1>2, <2>1, <2>2
  <2>4. /\ sink'[s].held = sink[s].held - n /\ sink'[s].status = sink[s].status
        /\ sink'[s].ended = sink[s].ended
    BY <1>1, <2>1 DEF ProcessOK
  <2>5. kept'[s] = IF entry[s] = "none" THEN kept[s] ELSE kept[s] + n
    BY <1>1, <2>1 DEF DaemonOK
  <2>6. ~sink[s].ended /\ entry[s] # "exited"
    BY <2>2 DEF Flow
  <2>7. OnTheWay(s)' = IF entry[s] = "none" THEN OnTheWay(s) - n ELSE OnTheWay(s)
    <3>1. InChannel(s)' = InChannel(s) /\ unread'[s] = unread[s]
      BY <2>2 DEF InChannel
    <3>2. InChannel(s) \in Nat /\ sink[s].held \in Nat /\ unread[s] \in Nat /\ kept[s] \in Nat
      BY <1>2
    <3> QED  BY <2>3, <2>4, <2>5, <3>1, <3>2 DEF OnTheWay
  <2>8. OnTheWay(s) \in Nat
    BY FlowTypes
  <2> QED  BY <1>2, <2>2, <2>3, <2>4, <2>6, <2>7, <2>8 DEF Flow
<1>8. CASE EmitStatus(s)
  <2>1. /\ sink[s].status /\ sink[s].held = 0 /\ sink' = [sink EXCEPT ![s].ended = TRUE]
        /\ UNCHANGED <<proc, made, unread, reader, chan, kept>>
    BY <1>8 DEF EmitStatus
  <2>2. sink'[s].held = sink[s].held /\ sink'[s].status = sink[s].status /\ sink'[s].ended
    BY <1>1, <2>1 DEF ProcessOK
  <2>3. entry[s] = "none" => entry'[s] = "none"
    BY <1>8, StatusEffect
  <2>4. OnTheWay(s)' = OnTheWay(s)
    BY <2>1, <2>2 DEF OnTheWay, InChannel
  <2> QED  BY <2>1, <2>2, <2>3, <2>4 DEF Flow
<1> QED  BY <1>3, <1>4, <1>5, <1>6, <1>7, <1>8 DEF SessionStep

\* No step loses a chunk while there is an entry, or lets a status overtake one.
LEMMA FlowStep ==
  ASSUME TypeInv, FlowInv, CreateInv, [Next]_vars
  PROVE  FlowInv'
<1> SUFFICES ASSUME NEW s \in Sessions PROVE Flow(s)'
  BY DEF FlowInv
<1>1. ProcessOK /\ DaemonOK /\ Flow(s)
  BY DEF TypeInv, FlowInv
<1>2. ASSUME UNCHANGED <<process, kept, entry>> PROVE Flow(s)'
  BY <1>1, <1>2, FlowSame DEF process
<1>3. ASSUME NEW r \in Sessions, Write(r) \/ Exit(r) \/ SessionStep(r) PROVE Flow(s)'
  <2>1. CASE r = s
    BY <1>1, <1>3, <2>1, FlowProcess
  <2>2. CASE r # s
    <3>1. UNCHANGED <<made[s], unread[s], kept[s], chan[s], reader[s], proc[s]>>
      BY <1>1, <1>3, <2>2 DEF Write, Exit, SessionStep, Read, TakeEvent, EmitOutput, EmitStatus,
                              daemon, ProcessOK, DaemonOK
    <3>2. sink'[s] = sink[s]
      BY <1>1, <1>3, <2>2 DEF Write, Exit, SessionStep, Read, TakeEvent, EmitOutput, EmitStatus,
                              ProcessOK
    <3>3. entry'[s] = entry[s] \/ entry'[s] = "none"
      <4>1. CASE EmitStatus(r)
        BY <1>1, <2>2, <4>1, StatusEffect DEF DaemonOK
      <4>2. CASE ~EmitStatus(r)
        BY <1>3, <4>2 DEF Write, Exit, SessionStep, Read, TakeEvent, EmitOutput, daemon
      <4> QED  BY <4>1, <4>2
    <3> QED  BY <1>1, <3>1, <3>2, <3>3, FlowSame
  <2> QED  BY <2>1, <2>2
<1>4. ASSUME NEW c \in Conns, ThreadStep(c) PROVE Flow(s)'
  <2>1. CASE Reserve(c)
    <3>1. UNCHANGED <<process, kept>> /\ Reads(c, {"create"})
      BY <2>1 DEF Reserve
    <3>2. CASE entry'[s] = entry[s]
      BY <1>1, <3>1, <3>2, FlowSame DEF process
    <3>3. CASE entry'[s] # entry[s]
      <4>1. Head(inbox[c]).s = s /\ entry'[s] = "alive"
        BY <1>1, <2>1, <3>3 DEF Reserve, DaemonOK
      <4>2. inbox[c] \in Seq(Requests) /\ inbox[c] # <<>> /\ Head(inbox[c]).op = "create"
        BY <3>1 DEF Reads, TypeInv, QueuesOK
      <4>3. Head(inbox[c]) \in Requests /\ In(Head(inbox[c]), inbox[c])
        BY <4>2, Taken
      <4>4. Head(inbox[c]) = Creation(s)
        <5>1. Head(inbox[c]) = Request("create", s)
          BY <4>1, <4>2, <4>3, Distinct
        <5> QED  BY <5>1 DEF Creation, Request
      <4>5. Unstarted(s)
        <5>1. In(Creation(s), inbox[c])
          BY <4>3, <4>4
        <5>2. Fresh(s)
          BY <5>1 DEF CreateInv
        <5> QED  BY <5>2 DEF Fresh
      <4>6. OnTheWay(s) = 0 /\ made[s] = 0 /\ sink[s].status = FALSE /\ sink[s].ended = FALSE
        BY <4>5 DEF Unstarted, OnTheWay, InChannel, Sleeping
      <4>7. UNCHANGED <<made, unread, reader, chan, sink, kept, proc>>
        BY <3>1 DEF process
      <4>8. OnTheWay(s)' = OnTheWay(s) /\ made'[s] = made[s]
        BY <4>7 DEF OnTheWay, InChannel
      <4>9. OnTheWay(s)' = 0 /\ made'[s] = 0
        BY <4>6, <4>8
      <4>10. reader'[s] = "none" /\ chan'[s] = <<>> /\ ~sink'[s].status /\ ~sink'[s].ended
        BY <4>5, <4>6, <4>7 DEF Unstarted
      <4> QED  BY <4>1, <4>9, <4>10 DEF Flow
    <3> QED  BY <3>2, <3>3
  <2>2. CASE Spawn(c)
    <3>1. UNCHANGED <<made, unread, chan, sink, kept>> /\ thread[c].step = "reserved"
      BY <2>2 DEF Spawn
    <3>2. CASE thread[c].s # s
      <4>1. proc'[s] = proc[s] /\ reader'[s] = reader[s] /\ entry'[s] = entry[s]
        BY <1>1, <2>2, <3>2 DEF Spawn, ProcessOK, DaemonOK
      <4> QED  BY <1>1, <3>1, <4>1, FlowSame
    <3>3. CASE thread[c].s = s
      <4>1. Unstarted(s)
        BY <3>1, <3>3 DEF CreateInv, Reserving
      <4>2. reader'[s] \in {"none", "reading"} /\ entry'[s] \in {entry[s], "none"}
        BY <1>1, <2>2, <3>3, <4>1 DEF Spawn, Unstarted, ProcessOK, DaemonOK
      <4>3. sink[s].status = FALSE /\ sink[s].ended = FALSE
        BY <4>1 DEF Unstarted, Sleeping
      <4>4. OnTheWay(s)' = OnTheWay(s) /\ made'[s] = made[s]
        BY <3>1 DEF OnTheWay, InChannel
      <4> QED  BY <1>1, <3>1, <4>1, <4>2, <4>3, <4>4 DEF Flow, Unstarted
    <3> QED  BY <3>2, <3>3
  <2>3. CASE Kill(c)
    <3>1. UNCHANGED <<made, unread, reader, chan, sink, entry, kept>>
      BY <2>3 DEF Kill
    <3>2. proc'[s] = proc[s] \/ proc'[s] = "dead"
      BY <1>1, <2>3 DEF Kill, ProcessOK
    <3> QED  BY <1>1, <3>1, <3>2, FlowSame
  <2>4. CASE FinishClose(c)
    <3>1. entry'[s] = entry[s] \/ entry'[s] = "none"
      BY <1>1, <2>4 DEF FinishClose, DaemonOK
    <3> QED  BY <1>1, <2>4, <3>1, FlowSame DEF FinishClose, process
  <2>5. CASE Register(c) \/ Attach(c) \/ CompleteAttach(c) \/ Leave(c)
    BY <1>2, <2>5 DEF Register, Attach, CompleteAttach, Leave, daemon
  <2> QED  BY <1>4, <2>1, <2>2, <2>3, <2>4, <2>5 DEF ThreadStep
<1>5. CASE Crash
  <2>1. /\ made'[s] = made[s] /\ unread'[s] = 0 /\ kept'[s] = 0 /\ sink'[s] = Sleeping
        /\ chan'[s] = <<>> /\ reader'[s] = "none" /\ entry'[s] = "none"
    BY <1>5 DEF Crash
  <2>2. sink'[s].held = 0 /\ sink'[s].status = FALSE /\ sink'[s].ended = FALSE
    BY <2>1 DEF Sleeping
  <2>3. OnTheWay(s)' = 0 /\ made[s] \in Nat
    BY <2>1, <2>2, FlowTypes DEF OnTheWay, InChannel
  <2> QED  BY <2>1, <2>2, <2>3 DEF Flow
<1>6. CASE \/ \E r \in Sessions : OpenTab(r) \/ CloseTab(r) \/ Restore(r)
           \/ ClientStep \/ Drop \/ Restart \/ UNCHANGED vars
  BY <1>2, <1>6 DEF OpenTab, CloseTab, Restore, ClientStep, Connect, Send, Reconnect, DeliverControl,
                    DeliverOutput, Drop, Restart, vars, daemon
<1> QED  BY <1>3, <1>4, <1>5, <1>6 DEF Next

\* Every exit on its way to the client is that of a session whose event thread has ended.
ExitInv ==
  /\ \A c \in Conns, s \in Sessions : In(Exited(s), control[c]) => sink[s].ended
  /\ \A c \in Conns : thread[c].exit => thread[c].step = "attaching" /\ sink[thread[c].s].ended

-----------------------------------------------------------------------------
(* What a step does to the frames on the way to the client. *)

\* What makes a thread or an event thread queue a frame.
Reason(c, g) ==
  \/ \E s \in Sessions : EmitStatus(s) /\ g = Exited(s)
  \/ CompleteAttach(c) /\ thread[c].exit /\ g = Exited(thread[c].s)
  \/ \E r \in Requests : ThreadStep(c) /\ Ends(c, r) /\ Truthful(c, r, g) /\ g \in Answers(r)
Queued(c) ==
  \E g \in Frames :
    /\ Reason(c, g)
    /\ \/ control'[c] = Append(control[c], g) /\ output'[c] = output[c]
          /\ \A r \in Requests : r.op \in Attaching => g # Ok(r)
       \/ /\ output'[c] = Append(output[c], g) /\ control'[c] = control[c]
          /\ \E r \in Requests : r.op \in Attaching /\ g = Ok(r)

\* A queue that loses frames from its front, or all of them, or none.
Shrunk(q, p) ==
  /\ \A x : In(x, p) => In(x, q)
  /\ \A X : Once(X, q) => Once(X, p)

\* The frames on the way stay, are delivered or lost, or one is put behind them, on the
\* client's connection, for a reason.
LEMMA FramesStep ==
  ASSUME TypeInv, Quiet, [Next]_vars, NEW c \in Conns
  PROVE  \/ Shrunk(control[c], control'[c]) /\ Shrunk(output[c], output'[c])
         \/ c = conn /\ conn' = conn /\ Queued(c)
<1>1. QueuesOK /\ ClientOK /\ control[c] \in Seq(Frames) /\ output[c] \in Seq(Frames)
  BY DEF TypeInv, QueuesOK
<1>2. ASSUME control'[c] = control[c], output'[c] = output[c]
      PROVE  Shrunk(control[c], control'[c]) /\ Shrunk(output[c], output'[c])
  BY <1>2 DEF Shrunk
<1>3. ASSUME NEW q \in Seq(Frames), q # <<>> PROVE Shrunk(q, Tail(q))
  BY <1>3, Taken DEF Shrunk
<1>4. CASE \E s \in Sessions : \/ Write(s) \/ Exit(s) \/ Read(s) \/ TakeEvent(s) \/ EmitOutput(s)
                               \/ OpenTab(s) \/ CloseTab(s) \/ Restore(s)
  BY <1>2, <1>4 DEF Write, Exit, Read, TakeEvent, EmitOutput, OpenTab, CloseTab, Restore
<1>5. ASSUME NEW s \in Sessions, EmitStatus(s)
      PROVE  \/ Shrunk(control[c], control'[c]) /\ Shrunk(output[c], output'[c])
             \/ c = conn /\ conn' = conn /\ Queued(c)
  <2>1. PushExit(s) /\ UNCHANGED <<conn, output>>
    BY <1>5 DEF EmitStatus, client
  <2>2. \/ control'[c] = control[c]
        \/ c = conn /\ control'[c] = Append(control[c], Exited(s))
    BY <2>1, PushEffect DEF Exited
  <2>3. CASE control'[c] = control[c]
    BY <1>2, <2>1, <2>3
  <2>4. CASE c = conn /\ control'[c] = Append(control[c], Exited(s))
    <3>1. Exited(s) \in Frames /\ \A r : Exited(s) # Ok(r)
      BY FrameType, Distinct DEF Exited
    <3>2. Reason(c, Exited(s))
      BY <1>5 DEF Reason
    <3> QED  BY <2>1, <2>4, <3>1, <3>2 DEF Queued
  <2> QED  BY <2>2, <2>3, <2>4
<1>6. ASSUME NEW d \in Conns, ThreadStep(d)
      PROVE  \/ Shrunk(control[c], control'[c]) /\ Shrunk(output[c], output'[c])
             \/ c = conn /\ conn' = conn /\ Queued(c)
  <2>1. conn' = conn /\ control \in [Conns -> Seq(Frames)] /\ output \in [Conns -> Seq(Frames)]
    BY <1>1, <1>6, ThreadEffect DEF client, QueuesOK
  <2>2. CASE UNCHANGED <<control, output>>
    BY <1>2, <2>2
  <2>3. CASE thread[d].exit /\ CompleteAttach(d) /\ UNCHANGED output
             /\ control' = Reply(control, d, Exited(thread[d].s))
    <3> DEFINE g == Exited(thread[d].s)
    <3>1. g \in Frames /\ \A r : g # Ok(r)
      BY <2>3, FrameType, Distinct DEF CompleteAttach, TypeInv, ThreadsOK, Exited
    <3>2. Reason(d, g)
      BY <2>3 DEF Reason
    <3> HIDE DEF g
    <3>3. control'[c] = IF c = d /\ d = conn THEN Append(control[c], g) ELSE control[c]
      BY <2>1, <2>3, <3>1, ReplyEffect DEF g
    <3>4. CASE c = d /\ d = conn
      BY <2>1, <2>3, <3>1, <3>2, <3>3, <3>4 DEF Queued
    <3>5. CASE ~(c = d /\ d = conn)
      BY <1>2, <2>3, <3>3, <3>5
    <3> QED  BY <3>4, <3>5
  <2>4. CASE \E r \in Requests : Ends(d, r) /\ Answer(d, r)
    <3>0. PICK r \in Requests : Ends(d, r) /\ Answer(d, r)
      BY <2>4
    <3>1. PICK g \in Answers(r) :
            /\ Ends(d, r) /\ Truthful(d, r, g)
            /\ \/ control' = Reply(control, d, g) /\ UNCHANGED output
                  /\ (r.op \in Attaching => g = Err(r))
               \/ output' = Reply(output, d, g) /\ UNCHANGED control /\ r.op \in Attaching
                  /\ g = Ok(r)
      BY <3>0 DEF Answer
    <3>2. g \in Frames
      BY <3>1, FrameType DEF Answers
    <3>3. Reason(d, g)
      BY <1>6, <3>1 DEF Reason
    <3>4. CASE control' = Reply(control, d, g) /\ UNCHANGED output
               /\ (r.op \in Attaching => g = Err(r))
      <4>1. control'[c] = IF c = d /\ d = conn THEN Append(control[c], g) ELSE control[c]
        BY <2>1, <3>2, <3>4, ReplyEffect
      <4>2. CASE c = d /\ d = conn
        <5>1. ASSUME NEW q \in Requests, q.op \in Attaching PROVE g # Ok(q)
          <6>1. CASE g = Err(r)
            BY <6>1, Distinct
          <6>2. CASE g = Ok(r) /\ r.op \notin Attaching
            BY <5>1, <6>2, Distinct
          <6> QED  BY <3>1, <3>4, <6>1, <6>2 DEF Answers
        <5> QED  BY <2>1, <3>2, <3>3, <3>4, <4>1, <4>2, <5>1 DEF Queued
      <4>3. CASE ~(c = d /\ d = conn)
        BY <1>2, <3>4, <4>1, <4>3
      <4> QED  BY <4>2, <4>3
    <3>5. CASE output' = Reply(output, d, g) /\ UNCHANGED control /\ r.op \in Attaching
               /\ g = Ok(r)
      <4>1. output'[c] = IF c = d /\ d = conn THEN Append(output[c], g) ELSE output[c]
        BY <2>1, <3>2, <3>5, ReplyEffect
      <4>2. CASE c = d /\ d = conn
        BY <2>1, <3>1, <3>2, <3>3, <3>5, <4>1, <4>2 DEF Queued
      <4>3. CASE ~(c = d /\ d = conn)
        BY <1>2, <3>5, <4>1, <4>3
      <4> QED  BY <4>2, <4>3
    <3> QED  BY <3>1, <3>4, <3>5
  <2> QED  BY <1>6, <2>2, <2>3, <2>4, AnswerEffect
<1>7. CASE Connect \/ Send \/ Reconnect \/ UNCHANGED vars
  BY <1>2, <1>7 DEF Connect, Send, Reconnect, vars
<1>8. CASE DeliverControl
  <2>1. control'[c] = (IF c = conn THEN Tail(control[c]) ELSE control[c]) /\ UNCHANGED output
        /\ control[conn] # <<>>
    BY <1>1, <1>8 DEF DeliverControl, QueuesOK
  <2> QED  BY <1>1, <1>2, <1>3, <2>1 DEF Shrunk
<1>9. CASE DeliverOutput
  <2>1. output'[c] = (IF c = conn THEN Tail(output[c]) ELSE output[c]) /\ UNCHANGED control
        /\ output[conn] # <<>>
    BY <1>1, <1>9 DEF DeliverOutput, QueuesOK
  <2> QED  BY <1>1, <1>2, <1>3, <2>1 DEF Shrunk
<1>10. CASE Drop \/ Restart \/ Crash
  <2>1. control'[c] = <<>> /\ output'[c] = <<>>
    <3>1. CASE Crash
      BY <3>1 DEF Crash
    <3>2. CASE Severed
      BY <1>1, <3>2, SeveredEffect DEF Quiet, QueuesOK
    <3> QED  BY <1>10, <3>1, <3>2 DEF Drop, Restart
  <2> QED  BY <2>1, EmptyQueue DEF Shrunk
<1> QED  BY <1>4, <1>5, <1>6, <1>7, <1>8, <1>9, <1>10 DEF Next, SessionStep, ClientStep

-----------------------------------------------------------------------------
(* What a step does to the client's requests and to the state of a tab. *)

Delivered(f) ==
  \/ DeliverControl /\ f = Head(control[conn])
  \/ DeliverOutput /\ f = Head(output[conn])

\* A frame is an exit, or the answer to a request.
LEMMA FrameForm ==
  ASSUME NEW f \in Frames
  PROVE  \/ f.k = "exit" /\ f.s \in Sessions /\ f = Exited(f.s)
         \/ f.k = "ok" /\ Request(f.op, f.s) \in Requests /\ f = Ok(Request(f.op, f.s))
         \/ f.k = "err" /\ Request(f.op, f.s) \in Requests /\ f = Err(Request(f.op, f.s))
<1>1. CASE f \in [k : {"exit"}, s : Sessions]
  BY <1>1 DEF Exited
<1>2. CASE f \in [k : {"ok", "err"}, op : {"create", "close"} \union Attaching, s : Sessions]
  <2>1. f.k \in {"ok", "err"} /\ f = [k |-> f.k, op |-> f.op, s |-> f.s]
    BY <1>2
  <2>2. Request(f.op, f.s) \in Requests
    BY <1>2, FrameType
  <2>3. Request(f.op, f.s).op = f.op /\ Request(f.op, f.s).s = f.s
    BY Distinct
  <2>4. CASE f.k = "ok"
    BY <2>1, <2>2, <2>3, <2>4 DEF Ok
  <2>5. CASE f.k = "err"
    BY <2>1, <2>2, <2>3, <2>5 DEF Err
  <2> QED  BY <2>1, <2>4, <2>5
<1> QED  BY <1>1, <1>2 DEF Frames

\* A frame that is delivered was on its way, and is not any more.
LEMMA DeliveredStep ==
  ASSUME TypeInv, NEW f, Delivered(f)
  PROVE  /\ f \in Frames /\ OnFrame(f) /\ conn \in Conns /\ conn' = conn
         /\ UNCHANGED <<daemon, process, thread, inbox, crashes>>
         /\ \/ In(f, control[conn]) /\ UNCHANGED output
               /\ \A X : Once(X, control[conn]) /\ f \in X => \A x \in X : ~In(x, control'[conn])
            \/ In(f, output[conn]) /\ UNCHANGED control
               /\ \A X : Once(X, output[conn]) /\ f \in X => \A x \in X : ~In(x, output'[conn])
<1>1. conn \in Conns
  BY LifecycleAssumption DEF Delivered, DeliverControl, DeliverOutput, TypeInv, ClientOK, Conns
<1>2. control \in [Conns -> Seq(Frames)] /\ output \in [Conns -> Seq(Frames)]
  BY DEF TypeInv, QueuesOK
<1>3. CASE DeliverControl /\ f = Head(control[conn])
  <2>1. control[conn] # <<>> /\ OnFrame(f) /\ UNCHANGED <<daemon, process, thread, inbox, output, crashes>>
        /\ control' = [control EXCEPT ![conn] = Tail(@)]
    BY <1>3 DEF DeliverControl
  <2>2. control'[conn] = Tail(control[conn]) /\ conn' = conn
    BY <1>1, <1>2, <2>1 DEF OnFrame
  <2> QED  BY <1>1, <1>2, <1>3, <2>1, <2>2, Taken
<1>4. CASE DeliverOutput /\ f = Head(output[conn])
  <2>1. output[conn] # <<>> /\ OnFrame(f) /\ UNCHANGED <<daemon, process, thread, inbox, control, crashes>>
        /\ output' = [output EXCEPT ![conn] = Tail(@)]
    BY <1>4 DEF DeliverOutput
  <2>2. output'[conn] = Tail(output[conn]) /\ conn' = conn
    BY <1>1, <1>2, <2>1 DEF OnFrame
  <2> QED  BY <1>1, <1>2, <1>4, <2>1, <2>2, Taken
<1> QED  BY <1>3, <1>4 DEF Delivered

\* What an answer does to the requests and to the state of a tab.
LEMMA HandledStep ==
  ASSUME TypeInv, NEW f \in Frames, OnFrame(f), NEW s \in Sessions, NEW r \in Requests
  PROVE  /\ r \in todo' => \/ r \in todo
                           \/ r = Request("probe", r.s) /\ f = Err(Creation(r.s))
         /\ r \in waiting' => r \in waiting /\ f \notin Answers(r)
         /\ r \in waiting => r \in waiting' \/ f \in Answers(r)
         /\ \/ tab'[s] = tab[s]
            \/ tab'[s] = "open" /\ \E op \in Opening : f = Ok(Request(op, s))
            \/ tab'[s] = "failed" /\ f = Err(Request("probe", s))
         /\ probed' = probed \/ (probed' = probed \union {f.s} /\ f = Ok(Request("probe", f.s)))
         /\ f = Ok(Request("probe", s)) => s \in probed'
<1>1. ClientOK
  BY DEF TypeInv
<1>2. \A op, t, oq, u : Request(op, t) = Request(oq, u) => op = oq /\ t = u
  BY DEF Request
<1>3. Creation(r.s) = Request("create", r.s)
  BY DEF Creation, Request
<1>4. \A x, q \in Requests : Ok(x) # Err(q) /\ (Ok(x) = Ok(q) \/ Err(x) = Err(q) => x = q)
  BY Distinct
<1>5. CASE f.k = "exit" /\ f = Exited(f.s)
  <2>1. UNCHANGED <<todo, waiting, tab, probed>>
    BY <1>5 DEF OnFrame, OnExit
  <2>2. f \notin Answers(r) /\ \A op, t : f # Ok(Request(op, t))
    BY <1>5, Distinct DEF Answers
  <2> QED  BY <2>1, <2>2
<1>6. CASE f.k = "ok" /\ Request(f.op, f.s) \in Requests /\ f = Ok(Request(f.op, f.s))
  <2>1. OnOk(f)
    BY <1>6 DEF OnFrame
  <2>2. f \in Answers(r) <=> r = Request(f.op, f.s)
    BY <1>4, <1>6 DEF Answers
  <2>3. waiting' = waiting \ {Request(f.op, f.s)} /\ UNCHANGED todo
    BY <2>1 DEF OnOk
  <2>4. tab'[s] = tab[s] \/ (tab'[s] = "open" /\ f.op \in Opening /\ f.s = s)
    BY <1>1, <2>1 DEF OnOk, Opened, Opening, ClientOK
  <2>5. f = Ok(Request("probe", s)) => f.op = "probe" /\ f.s = s
    BY Distinct DEF Ok
  <2>6. probed' = IF f.op = "probe" THEN probed \union {f.s} ELSE probed
    BY <2>1 DEF OnOk
  <2> QED  BY <1>6, <2>2, <2>3, <2>4, <2>5, <2>6
<1>7. CASE f.k = "err" /\ Request(f.op, f.s) \in Requests /\ f = Err(Request(f.op, f.s))
  <2>1. OnErr(f)
    BY <1>7 DEF OnFrame
  <2>2. f \in Answers(r) <=> r = Request(f.op, f.s)
    BY <1>4, <1>7 DEF Answers
  <2>3. waiting' = waiting \ {Request(f.op, f.s)} /\ UNCHANGED probed
    BY <2>1 DEF OnErr
  <2>4. tab'[s] = tab[s] \/ (tab'[s] = "failed" /\ f.op = "probe" /\ f.s = s)
    BY <1>1, <2>1 DEF OnErr, ClientOK
  <2>5. r \in todo' => r \in todo \/ (f.op = "create" /\ r = Request("probe", f.s))
    BY <2>1 DEF OnErr
  <2>6. r = Request("probe", f.s) => r.s = f.s
    BY Distinct
  <2>7. f # Ok(Request("probe", s))
    BY <1>7, Distinct
  <2> QED  BY <1>3, <1>7, <2>2, <2>3, <2>4, <2>5, <2>6, <2>7
<1> QED  BY <1>5, <1>6, <1>7, FrameForm

\* The link or the daemon is lost: every request in flight is rejected.
Lost == Drop \/ Crash

\* Where requests come from and go, and how the state of a tab changes.
LEMMA RequestStep ==
  ASSUME TypeInv, [Next]_vars, NEW r \in Requests
  PROVE  /\ r \in todo' =>
              \/ r \in todo
              \/ r = Creation(r.s) /\ OpenTab(r.s)
              \/ r = Request("close", r.s) /\ CloseTab(r.s)
              \/ r.op \in {"reattach", "restore"}
              \/ r = Request("probe", r.s) /\ Delivered(Err(Creation(r.s)))
              \/ r = Request("probe", r.s) /\ Lost /\ Creation(r.s) \in waiting
         /\ r \in waiting' =>
              \/ r \in waiting /\ ~Delivered(Ok(r)) /\ ~Delivered(Err(r))
              \/ Send /\ r \in todo /\ r \notin todo'
         /\ r \in waiting => r \in waiting' \/ Delivered(Ok(r)) \/ Delivered(Err(r)) \/ conn' = 0
<1> DEFINE New == \/ r = Creation(r.s) /\ OpenTab(r.s)
                  \/ r = Request("close", r.s) /\ CloseTab(r.s)
                  \/ r.op \in {"reattach", "restore"}
                  \/ r = Request("probe", r.s) /\ Delivered(Err(Creation(r.s)))
                  \/ r = Request("probe", r.s) /\ Lost /\ Creation(r.s) \in waiting
<1>1. ClientOK
  BY DEF TypeInv
<1>2. /\ \A op, t : Request(op, t).op = op /\ Request(op, t).s = t
      /\ \A t : Creation(t) = Request("create", t)
  BY DEF Request, Creation
<1>3. \A f : Delivered(f) <=> \/ DeliverControl /\ f = Head(control[conn])
                              \/ DeliverOutput /\ f = Head(output[conn])
  BY DEF Delivered
<1>4. ASSUME UNCHANGED <<todo, waiting>>, ~DeliverControl, ~DeliverOutput
      PROVE  /\ r \in todo' => r \in todo
             /\ r \in waiting' => r \in waiting /\ ~Delivered(Ok(r)) /\ ~Delivered(Err(r))
             /\ r \in waiting => r \in waiting'
  BY <1>3, <1>4
<1>5. CASE DeliverControl \/ DeliverOutput
  <2>1. PICK f : Delivered(f) /\ \A g : Delivered(g) => g = f
    <3>1. CASE DeliverControl
      <4>1. ~DeliverOutput
        BY <3>1 DEF DeliverControl, DeliverOutput
      <4> QED  BY <1>3, <3>1, <4>1
    <3>2. CASE DeliverOutput
      <4>1. ~DeliverControl
        BY <3>2 DEF DeliverControl, DeliverOutput
      <4> QED  BY <1>3, <3>2, <4>1
    <3> QED  BY <1>5, <3>1, <3>2
  <2>2. f \in Frames /\ OnFrame(f)
    BY <2>1, DeliveredStep
  <2>3. /\ r \in todo' => r \in todo \/ (r = Request("probe", r.s) /\ f = Err(Creation(r.s)))
        /\ r \in waiting' => r \in waiting /\ f \notin Answers(r)
        /\ r \in waiting => r \in waiting' \/ f \in Answers(r)
    <3>1. r.s \in Sessions
      BY Distinct
    <3> QED  BY <2>2, <3>1, HandledStep
  <2>4. f \notin Answers(r) => ~Delivered(Ok(r)) /\ ~Delivered(Err(r))
    BY <2>1 DEF Answers
  <2>5. f \in Answers(r) => Delivered(Ok(r)) \/ Delivered(Err(r))
    BY <2>1 DEF Answers
  <2>6. f = Err(Creation(r.s)) => Delivered(Err(Creation(r.s)))
    BY <2>1
  <2> QED  BY <2>3, <2>4, <2>5, <2>6
<1>6. ASSUME ~DeliverControl, ~DeliverOutput
      PROVE  ~Delivered(Ok(r)) /\ ~Delivered(Err(r))
  BY <1>3, <1>6
<1>7. ASSUME NEW s \in Sessions, OpenTab(s) \/ CloseTab(s) \/ Restore(s)
      PROVE  (r \in todo' => r \in todo \/ New) /\ waiting' = waiting
  <2>1. CASE OpenTab(s)
    <3>1. todo' = todo \union {Request("create", s)} /\ waiting' = waiting
      BY <2>1 DEF OpenTab
    <3> QED  BY <1>2, <2>1, <3>1
  <2>2. CASE CloseTab(s)
    <3>1. todo' \subseteq todo \union {Request("close", s)} /\ waiting' = waiting
      BY <2>2 DEF CloseTab
    <3> QED  BY <1>2, <2>2, <3>1
  <2>3. CASE Restore(s)
    <3>1. todo' \subseteq todo \union {Request("restore", s)} /\ waiting' = waiting
      BY <2>3 DEF Restore
    <3> QED  BY <1>2, <3>1
  <2> QED  BY <1>7, <2>1, <2>2, <2>3
<1>8. ASSUME Lost
      PROVE  (r \in todo' => r \in todo \/ New) /\ waiting' = {} /\ conn' = 0
  <2>1. /\ todo' = todo \union {Request("probe", s) :
                                 s \in {t \in Sessions : Request("create", t) \in waiting}}
        /\ waiting' = {} /\ conn' = 0
    BY <1>8 DEF Lost, Drop, Crash, Rejected
  <2>2. ASSUME r \in todo', r \notin todo
        PROVE  r = Request("probe", r.s) /\ Creation(r.s) \in waiting
    BY <1>2, <2>1, <2>2
  <2> QED  BY <1>8, <2>1, <2>2
<1>9. CASE DeliverControl \/ DeliverOutput \/ Drop \/ Crash
  BY <1>5, <1>8, <1>9 DEF Lost
<1>10. ASSUME ~DeliverControl, ~DeliverOutput,
              \/ \E s \in Sessions : OpenTab(s) \/ CloseTab(s) \/ Restore(s)
              \/ Connect \/ Send \/ Reconnect \/ Restart \/ UNCHANGED vars
       PROVE  /\ r \in todo' => r \in todo \/ New
              /\ r \in waiting' => r \in waiting \/ (Send /\ r \in todo /\ r \notin todo')
              /\ r \in waiting => r \in waiting' \/ conn' = 0
  <2>1. CASE \E s \in Sessions : OpenTab(s) \/ CloseTab(s) \/ Restore(s)
    BY <1>7, <2>1
  <2>2. CASE Connect \/ UNCHANGED vars
    BY <2>2 DEF Connect, vars, client
  <2>3. CASE Send
    <3>1. PICK q \in todo : todo' = todo \ {q} /\ waiting' = waiting \union {q}
      BY <2>3 DEF Send
    <3> QED  BY <2>3, <3>1
  <2>4. CASE Reconnect
    <3>1. todo' = todo \union {Request("reattach", s) : s \in attached \ closed} /\ UNCHANGED waiting
      BY <2>4 DEF Reconnect
    <3> QED  BY <1>2, <3>1
  <2>5. CASE Restart
    BY <2>5 DEF Restart
  <2> QED  BY <1>10, <2>1, <2>2, <2>3, <2>4, <2>5
<1>11. CASE ~DeliverControl /\ ~DeliverOutput
  <2>1. ASSUME \/ \E s \in Sessions : OpenTab(s) \/ CloseTab(s) \/ Restore(s)
               \/ Connect \/ Send \/ Reconnect \/ Restart \/ UNCHANGED vars
        PROVE  /\ r \in todo' => r \in todo \/ New
               /\ r \in waiting' => r \in waiting \/ (Send /\ r \in todo /\ r \notin todo')
               /\ r \in waiting => r \in waiting' \/ conn' = 0
    BY <1>10, <1>11, <2>1
  <2>2. CASE \E s \in Sessions : Write(s) \/ Exit(s) \/ SessionStep(s)
    BY <1>4, <1>11, <2>2 DEF Write, Exit, SessionStep, Read, TakeEvent, EmitOutput, EmitStatus, client
  <2>3. CASE \E c \in Conns : ThreadStep(c)
    BY <1>4, <1>11, <2>3, ThreadEffect DEF client
  <2>4. CASE \/ \E s \in Sessions : OpenTab(s) \/ CloseTab(s) \/ Restore(s)
             \/ Connect \/ Send \/ Reconnect \/ Restart \/ UNCHANGED vars
    BY <1>6, <1>11, <2>1, <2>4
  <2> QED  BY <1>9, <1>11, <2>2, <2>3, <2>4 DEF Next, ClientStep
<1> QED  BY <1>9, <1>11

\* How the state of a tab changes.
LEMMA TabStep ==
  ASSUME TypeInv, [Next]_vars, NEW s \in Sessions
  PROVE  /\ \/ tab'[s] = tab[s]
            \/ tab[s] = "none" /\ tab'[s] = "creating" /\ OpenTab(s)
            \/ tab[s] = "open" /\ tab'[s] = "closed" /\ CloseTab(s)
            \/ tab[s] = "saved" /\ tab'[s] \in {"open", "forgotten"}
            \/ tab[s] \in {"open", "creating"} /\ tab'[s] \in {"saved", "forgotten"} /\ Restart
               /\ (tab'[s] = "saved" => tab[s] = "open")
            \/ tab'[s] = "open" /\ \E op \in Opening : Delivered(Ok(Request(op, s)))
            \/ tab'[s] = "failed" /\ Delivered(Err(Request("probe", s)))
            \/ tab'[s] = "failed" /\ Lost /\ Request("probe", s) \in waiting
         /\ \/ probed' = probed
            \/ \E r \in Sessions : probed' = probed \union {r} /\ Delivered(Ok(Request("probe", r)))
         /\ Delivered(Ok(Request("probe", s))) => s \in probed'
<1>1. ClientOK
  BY DEF TypeInv
<1>2. ASSUME NEW f, Delivered(f)
      PROVE  /\ f \in Frames /\ OnFrame(f)
             /\ DeliverControl \/ DeliverOutput
             /\ \A g : Delivered(g) => g = f
  BY <1>2, DeliveredStep DEF Delivered, DeliverControl, DeliverOutput
<1>3. \A op, r : Request(op, r).s = r
  BY DEF Request
<1>4. CASE DeliverControl \/ DeliverOutput
  <2>1. PICK f : Delivered(f)
    BY <1>4 DEF Delivered
  <2>2. Request("probe", s) \in Requests
    BY FrameType DEF Attaching
  <2>3. /\ \/ tab'[s] = tab[s]
           \/ tab'[s] = "open" /\ \E op \in Opening : f = Ok(Request(op, s))
           \/ tab'[s] = "failed" /\ f = Err(Request("probe", s))
        /\ probed' = probed \/ (probed' = probed \union {f.s} /\ f = Ok(Request("probe", f.s)))
        /\ f = Ok(Request("probe", s)) => s \in probed'
    BY <1>2, <2>1, <2>2, HandledStep
  <2>4. f = Ok(Request("probe", f.s)) => f.s \in Sessions
    <3>1. f = Ok(Request("probe", f.s)) => f.k = "ok"
      BY DEF Ok
    <3> QED  BY <1>2, <2>1, <3>1 DEF Frames
  <2> QED  BY <1>2, <2>1, <2>3, <2>4
<1>5. ASSUME ~DeliverControl, ~DeliverOutput PROVE \A f : ~Delivered(f)
  BY <1>2, <1>5
<1>7. ASSUME NEW r \in Sessions, OpenTab(r) \/ CloseTab(r) \/ Restore(r)
      PROVE  /\ \/ tab'[s] = tab[s]
                \/ tab[s] = "none" /\ tab'[s] = "creating" /\ OpenTab(s)
                \/ tab[s] = "open" /\ tab'[s] = "closed" /\ CloseTab(s)
                \/ tab[s] = "saved" /\ tab'[s] \in {"open", "forgotten"}
             /\ probed' = probed
  <2>1. probed' = probed
    BY <1>7 DEF OpenTab, CloseTab, Restore
  <2>2. CASE r = s
    <3>1. \/ tab[s] = "none" /\ tab'[s] = "creating" /\ OpenTab(s)
          \/ tab[s] = "open" /\ tab'[s] = "closed" /\ CloseTab(s)
          \/ tab[s] = "saved" /\ tab'[s] \in {"open", "forgotten"}
      BY <1>1, <1>7, <2>2 DEF OpenTab, CloseTab, Restore, ClientOK
    <3> QED  BY <2>1, <3>1
  <2>3. CASE r # s
    BY <1>1, <1>7, <2>1, <2>3 DEF OpenTab, CloseTab, Restore, ClientOK
  <2> QED  BY <2>2, <2>3
<1>8. ASSUME Lost
      PROVE  /\ tab'[s] = tab[s] \/ (tab'[s] = "failed" /\ Request("probe", s) \in waiting)
             /\ probed' = probed
  <2>1. Rejected
    BY <1>8 DEF Lost, Drop, Crash
  <2> QED  BY <1>1, <2>1 DEF Rejected, ClientOK
<1>9. ASSUME Restart
      PROVE  /\ \/ tab'[s] = tab[s]
                \/ tab[s] \in {"open", "creating"} /\ tab'[s] \in {"saved", "forgotten"}
                   /\ (tab'[s] = "saved" => tab[s] = "open")
             /\ probed' = probed
  BY <1>1, <1>9 DEF Restart, ClientOK
<1>10. ASSUME \/ \E r \in Sessions : Write(r) \/ Exit(r) \/ SessionStep(r)
              \/ Connect \/ Send \/ Reconnect \/ UNCHANGED vars
              \/ \E c \in Conns : ThreadStep(c)
       PROVE  UNCHANGED <<tab, probed>>
  <2>1. CASE \/ \E r \in Sessions : Write(r) \/ Exit(r) \/ SessionStep(r)
             \/ Connect \/ Send \/ Reconnect \/ UNCHANGED vars
    BY <2>1 DEF Write, Exit, SessionStep, Read, TakeEvent, EmitOutput, EmitStatus, Connect, Send,
                Reconnect, vars, client
  <2>2. CASE \E c \in Conns : ThreadStep(c)
    BY <2>2, ThreadEffect DEF client
  <2> QED  BY <1>10, <2>1, <2>2
<1>11. CASE ~DeliverControl /\ ~DeliverOutput
  <2>1. \A f : ~Delivered(f)
    BY <1>5, <1>11
  <2>2. CASE \E r \in Sessions : OpenTab(r) \/ CloseTab(r) \/ Restore(r)
    BY <1>7, <2>1, <2>2
  <2>3. CASE Drop \/ Crash
    BY <1>8, <2>1, <2>3 DEF Lost
  <2>4. CASE Restart
    BY <1>9, <2>1, <2>4
  <2>5. CASE \/ \E r \in Sessions : Write(r) \/ Exit(r) \/ SessionStep(r)
             \/ Connect \/ Send \/ Reconnect \/ UNCHANGED vars
             \/ \E c \in Conns : ThreadStep(c)
    BY <1>10, <2>1, <2>5
  <2> QED  BY <1>11, <2>2, <2>3, <2>4, <2>5 DEF Next, ClientStep
<1> QED  BY <1>4, <1>11

-----------------------------------------------------------------------------
(* A creation and its probe are answered once. *)

\* On the client's connection a request is on its way, being carried out, or answered, in
\* one place; and as long as it is, the client waits for it.
Asked(r) == In(r, inbox[conn])
Carried(r) == r.op = "create" /\ Creating(conn, r.s)
Answered(r, q) == \E a \in Answers(r) : In(a, q)
OneAnswer(r) ==
  /\ Asked(r) \/ Carried(r) \/ Answered(r, control[conn]) \/ Answered(r, output[conn])
       => r \in waiting
  /\ Asked(r) => ~Carried(r) /\ ~Answered(r, control[conn]) /\ ~Answered(r, output[conn])
  /\ Carried(r) => ~Answered(r, control[conn]) /\ ~Answered(r, output[conn])
  /\ ~(Answered(r, control[conn]) /\ Answered(r, output[conn]))
  /\ Once({r}, inbox[conn])
  /\ Once(Answers(r), control[conn]) /\ Once(Answers(r), output[conn])
AnswerInv == conn # 0 => \A r \in Requests : r.op \in Opening => OneAnswer(r)

\* An answer in a queue that shrinks was in it before.
LEMMA ShrunkAnswers ==
  ASSUME NEW r, NEW q, NEW p, Shrunk(q, p)
  PROVE  (Answered(r, p) => Answered(r, q)) /\ (Once(Answers(r), q) => Once(Answers(r), p))
  BY DEF Shrunk, Answered

\* A frame at the end of a queue adds the answer that it is.
LEMMA AppendedAnswers ==
  ASSUME NEW r, NEW q \in Seq(Frames), NEW g \in Frames
  PROVE  /\ Answered(r, Append(q, g)) => Answered(r, q) \/ g \in Answers(r)
         /\ Once(Answers(r), q) /\ (g \in Answers(r) => ~Answered(r, q))
              => Once(Answers(r), Append(q, g))
<1>1. /\ \A x : In(x, Append(q, g)) <=> In(x, q) \/ x = g
      /\ \A X : Once(X, q) /\ (g \in X => \A x \in X : ~In(x, q)) => Once(X, Append(q, g))
  BY Appended
<1> QED  BY <1>1 DEF Answered

\* Who answers a creation or a probe has read it just now, or ends the creation.
LEMMA AnswerEnds ==
  ASSUME TypeInv, NEW c \in Conns, NEW r \in Requests, r.op \in Opening, NEW g \in Answers(r),
         Reason(c, g), Once({r}, inbox[c])
  PROVE  /\ Truthful(c, r, g)
         /\ \/ /\ In(r, inbox[c]) /\ ~In(r, inbox'[c])
               /\ r.op = "create" => ~Creating(c, r.s)' /\ ~Creating(c, r.s)
            \/ /\ r.op = "create" /\ Creating(c, r.s) /\ ~Creating(c, r.s)'
               /\ UNCHANGED inbox
<1>1. \A s : g # Exited(s)
  BY Distinct DEF Answers
<1>2. PICK q \in Requests : ThreadStep(c) /\ Ends(c, q) /\ Truthful(c, q, g) /\ g \in Answers(q)
  BY <1>1 DEF Reason
<1>3. q = r
  BY <1>2, Distinct DEF Answers
<1>4. CASE r = Head(inbox[c]) /\ Reads(c, {r.op}) /\ (r.op = "create" => UNCHANGED thread)
  <2>1. In(r, inbox[c]) /\ ~In(r, inbox'[c]) /\ thread[c].step = "idle"
    BY <1>4, ReadOut DEF Reads
  <2> QED  BY <1>2, <1>3, <1>4, <2>1 DEF Creating
<1>5. CASE r = Creation(thread[c].s) /\ Creating(c, r.s) /\ thread'[c].step = "idle"
           /\ UNCHANGED inbox
  BY <1>2, <1>3, <1>5 DEF Creating, Creation
<1> QED  BY <1>2, <1>3, <1>4, <1>5 DEF Ends, Opening

\* No step answers a request twice, or one the client does not wait for.
LEMMA AnswerStep ==
  ASSUME TypeInv, Quiet, CreateInv, PendingInv, AnswerInv, [Next]_vars
  PROVE  AnswerInv'
<1> SUFFICES ASSUME conn' # 0, NEW r \in Requests, r.op \in Opening PROVE OneAnswer(r)'
  BY DEF AnswerInv
<1>1. QueuesOK /\ ClientOK
  BY DEF TypeInv
<1>2. CASE conn' # conn
  <2>1. Connect
    <3>1. UNCHANGED client => conn' = conn
      BY DEF client
    <3>2. CASE \E s \in Sessions : Write(s) \/ Exit(s) \/ SessionStep(s)
      BY <1>2, <3>1, <3>2 DEF Write, Exit, SessionStep, Read, TakeEvent, EmitOutput, EmitStatus
    <3>3. CASE \E c \in Conns : ThreadStep(c)
      BY <1>2, <3>1, <3>3, ThreadEffect
    <3>4. CASE \/ \E s \in Sessions : OpenTab(s) \/ CloseTab(s) \/ Restore(s)
               \/ Send \/ Reconnect \/ DeliverControl \/ DeliverOutput \/ UNCHANGED vars
      BY <1>2, <3>4 DEF OpenTab, CloseTab, Restore, Send, Reconnect, DeliverControl, DeliverOutput,
                        OnFrame, vars, client
    <3>5. CASE Drop \/ Restart \/ Crash
      BY <3>5 DEF Drop, Restart, Crash, Rejected
    <3> QED  BY <3>2, <3>3, <3>4, <3>5 DEF Next, ClientStep
  <2>2. /\ conn = 0 /\ conn' = opened + 1 /\ conn' \in Conns
        /\ thread' = [thread EXCEPT ![conn'] = Idle] /\ UNCHANGED <<inbox, control, output>>
    BY <1>1, <2>1, LifecycleAssumption DEF Connect, ClientOK, Conns
  <2>3. inbox'[conn'] = <<>> /\ control'[conn'] = <<>> /\ output'[conn'] = <<>>
    <3>1. conn' > opened /\ conn' # conn
      BY <1>1, <1>2, <2>2, LifecycleAssumption DEF ClientOK
    <3>2. inbox[conn'] = <<>> /\ control[conn'] = <<>> /\ output[conn'] = <<>>
      BY <2>2, <3>1 DEF Quiet
    <3> QED  BY <2>2, <3>2
  <2>4. thread'[conn'].step = "idle"
    BY <2>2, IdleType DEF TypeInv, ThreadsOK
  <2>5. ~Asked(r)' /\ ~Carried(r)' /\ ~Answered(r, control[conn])' /\ ~Answered(r, output[conn])'
    BY <2>3, <2>4, EmptyQueue DEF Asked, Carried, Creating, Answered
  <2>6. Once({r}, inbox'[conn']) /\ Once(Answers(r), control'[conn']) /\ Once(Answers(r), output'[conn'])
    BY <2>3, EmptyQueue
  <2>7. Once(Answers(r), control[conn])' /\ Once(Answers(r), output[conn])'
    BY <2>6 DEF Answers, Ok, Err
  <2> QED  BY <2>5, <2>6, <2>7 DEF OneAnswer
<1>3. CASE conn' = conn
  <2>1. conn # 0 /\ conn \in Conns /\ OneAnswer(r)
    BY <1>1, <1>3, LifecycleAssumption DEF AnswerInv, ClientOK, Conns
  <2>2. PICK c \in Conns : c = conn
    BY <2>1
  <2>3. control[c] \in Seq(Frames) /\ output[c] \in Seq(Frames)
    BY <1>1 DEF QueuesOK
  <2> DEFINE asked == In(r, inbox[c])    carried == r.op = "create" /\ Creating(c, r.s)
             k == Answered(r, control[c])   o == Answered(r, output[c])
             askedN == In(r, inbox'[c])  carriedN == r.op = "create" /\ Creating(c, r.s)'
             kN == Answered(r, control'[c])  oN == Answered(r, output'[c])
  <2>4. /\ asked \/ carried \/ k \/ o => r \in waiting
        /\ (asked => ~carried /\ ~k /\ ~o) /\ (carried => ~k /\ ~o) /\ ~(k /\ o)
        /\ Once({r}, inbox[c]) /\ Once(Answers(r), control[c]) /\ Once(Answers(r), output[c])
    BY <2>1, <2>2 DEF OneAnswer, Asked, Carried
  <2>5. SUFFICES
        /\ askedN \/ carriedN \/ kN \/ oN => r \in waiting'
        /\ (askedN => ~carriedN /\ ~kN /\ ~oN) /\ (carriedN => ~kN /\ ~oN) /\ ~(kN /\ oN)
        /\ Once({r}, inbox'[c]) /\ Once(Answers(r), control'[c]) /\ Once(Answers(r), output'[c])
    <3>1. conn' = c
      BY <1>3, <2>2
    <3> QED  BY <3>1 DEF OneAnswer, Asked, Carried, Answered, Creating, Answers, Ok, Err
  <2>6. ASSUME r.op = "create" PROVE r = Creation(r.s) /\ r.s \in Sessions
    BY <2>6, Distinct DEF Creation, Request
  <2>7. carriedN => carried \/ (asked /\ ~askedN)
    <3>1. ASSUME Reserve(c), Head(inbox[c]) = r PROVE asked /\ ~askedN
      BY <2>4, <3>1, ReadOut DEF Reserve
    <3>2. r.op = "create" /\ Creating(c, r.s)' =>
            Creating(c, r.s) \/ (Reserve(c) /\ Head(inbox[c]) = r)
      BY <2>6, BusyStep
    <3> QED  BY <3>1, <3>2
  <2>8. r \in todo => r \notin waiting
    BY Distinct DEF PendingInv
  <2>9. /\ askedN => asked \/ (r \in todo /\ r \in waiting')
        /\ Once({r}, inbox'[c])
    BY <2>4, <2>8, InboxStep
  <2>10. r \in waiting => r \in waiting' \/ \E a \in Answers(r) : Delivered(a)
    BY <1>3, <2>1, RequestStep DEF Answers
  <2>11. ASSUME NEW a \in Answers(r), Delivered(a)
         PROVE  ~askedN /\ ~carriedN /\ ~kN /\ ~oN
                /\ Once(Answers(r), control'[c]) /\ Once(Answers(r), output'[c])
    <3>1. /\ UNCHANGED <<thread, inbox>>
          /\ \/ In(a, control[c]) /\ UNCHANGED output /\ \A x \in Answers(r) : ~In(x, control'[c])
             \/ In(a, output[c]) /\ UNCHANGED control /\ \A x \in Answers(r) : ~In(x, output'[c])
      BY <2>2, <2>4, <2>11, DeliveredStep
    <3>2. k \/ o
      BY <3>1 DEF Answered
    <3>3. ~askedN /\ ~carriedN
      BY <2>4, <3>1, <3>2 DEF Creating
    <3>4. ~kN /\ ~oN
      BY <2>4, <3>1, <3>2 DEF Answered
    <3>5. \A q : ~Answered(r, q) => Once(Answers(r), q)
      BY DEF Answered, In, Once
    <3> QED  BY <3>3, <3>4, <3>5
  <2>12. CASE \E a \in Answers(r) : Delivered(a)
    BY <2>9, <2>11, <2>12
  <2>13. CASE ~(\E a \in Answers(r) : Delivered(a)) /\ (kN => k) /\ (oN => o)
              /\ Once(Answers(r), control'[c]) /\ Once(Answers(r), output'[c])
    BY <2>4, <2>7, <2>8, <2>9, <2>10, <2>13
  <2>14. CASE Shrunk(control[c], control'[c]) /\ Shrunk(output[c], output'[c])
    BY <2>4, <2>12, <2>13, <2>14, ShrunkAnswers
  <2>15. CASE Queued(c) /\ ~(\E a \in Answers(r) : Delivered(a))
    <3>1. PICK g \in Frames :
            /\ Reason(c, g)
            /\ \/ control'[c] = Append(control[c], g) /\ output'[c] = output[c]
               \/ output'[c] = Append(output[c], g) /\ control'[c] = control[c]
      BY <2>15 DEF Queued
    <3>2. CASE g \notin Answers(r)
      BY <2>3, <2>4, <2>13, <2>15, <3>1, <3>2, AppendedAnswers
    <3>3. CASE g \in Answers(r)
      <4>1. \/ asked /\ ~askedN /\ (r.op = "create" => ~Creating(c, r.s)')
            \/ carried /\ ~carriedN /\ inbox' = inbox
        BY <2>4, <3>1, <3>3, AnswerEnds
      <4>2. ~askedN /\ ~carriedN /\ ~k /\ ~o /\ r \in waiting'
        BY <2>4, <2>10, <2>15, <4>1
      <4>3. /\ ~(kN /\ oN) 
            /\ Once(Answers(r), control'[c]) /\ Once(Answers(r), output'[c])
        BY <2>3, <2>4, <3>1, <4>2, AppendedAnswers
      <4> QED  BY <2>9, <4>2, <4>3
    <3> QED  BY <3>2, <3>3
  <2> QED  BY <2>12, <2>14, <2>15, FramesStep
<1> QED  BY <1>2, <1>3

\* At the start there is no connection.
LEMMA AnswerInit == Init => AnswerInv
  BY DEF Init, AnswerInv

\* At the start nothing is asked.
LEMMA PendingInit == Init => PendingInv
  BY DEF Init, PendingInv

\* An answer to a creation or a probe that is delivered is one the client waits for.
LEMMA DeliveredAnswer ==
  ASSUME TypeInv, AnswerInv, NEW r \in Requests, r.op \in Opening
  PROVE  /\ Delivered(Ok(r)) \/ Delivered(Err(r)) => r \in waiting /\ conn \in Conns
         /\ ~(Delivered(Ok(r)) /\ Delivered(Err(r)))
<1>1. ASSUME NEW a \in Answers(r), Delivered(a) PROVE r \in waiting /\ conn \in Conns
  <2>1. conn \in Conns /\ (In(a, control[conn]) \/ In(a, output[conn]))
    BY <1>1, DeliveredStep
  <2>2. conn # 0
    BY <2>1, LifecycleAssumption DEF Conns
  <2>3. Answered(r, control[conn]) \/ Answered(r, output[conn])
    BY <2>1 DEF Answered
  <2> QED  BY <2>1, <2>2, <2>3 DEF AnswerInv, OneAnswer
<1>2. ~(Delivered(Ok(r)) /\ Delivered(Err(r)))
  <2>1. Ok(r) # Err(r)
    BY Distinct
  <2>2. ~(DeliverControl /\ DeliverOutput)
    BY DEF DeliverControl, DeliverOutput
  <2> QED  BY <2>1, <2>2 DEF Delivered
<1> QED  BY <1>1, <1>2 DEF Answers

\* No step leaves a request behind when its tab leaves the creating state.
LEMMA PendingStep ==
  ASSUME TypeInv, AnswerInv, PendingInv, [Next]_vars
  PROVE  PendingInv'
<1> SUFFICES ASSUME NEW s \in Sessions
             PROVE  LET c == Request("create", s)   p == Request("probe", s)
                    IN  /\ c \in todo' \union waiting' => tab'[s] = "creating"
                        /\ p \in todo' \union waiting' => tab'[s] = "creating"
                        /\ ~(c \in todo' /\ c \in waiting') /\ ~(p \in todo' /\ p \in waiting')
                        /\ ~(c \in todo' \union waiting' /\ p \in todo' \union waiting')
  BY DEF PendingInv, Opening, Request
<1> DEFINE c == Request("create", s)   p == Request("probe", s)
<1>1. /\ c \in todo \union waiting => tab[s] = "creating"
      /\ p \in todo \union waiting => tab[s] = "creating"
      /\ ~(c \in todo /\ c \in waiting) /\ ~(p \in todo /\ p \in waiting)
      /\ ~(c \in todo \union waiting /\ p \in todo \union waiting)
  BY DEF PendingInv, Opening
<1>2. /\ c \in Requests /\ c.op = "create" /\ c.s = s /\ Creation(s) = c
      /\ p \in Requests /\ p.op = "probe" /\ p.s = s /\ p # c
      /\ \A t : c # Request("close", t) /\ p # Request("close", t)
  BY FrameType DEF Attaching, Request
<1> HIDE DEF c, p
<1>3. /\ c \in todo' => c \in todo \/ OpenTab(s)
      /\ c \in waiting' => \/ c \in waiting /\ ~Delivered(Ok(c)) /\ ~Delivered(Err(c))
                           \/ c \in todo /\ c \notin todo'
  <2>1. c # Request("probe", s)
    BY <1>2 DEF p
  <2> QED  BY <1>2, <2>1, RequestStep
<1>4. /\ p \in todo' => p \in todo \/ Delivered(Err(c)) \/ (Lost /\ c \in waiting)
      /\ p \in waiting' => \/ p \in waiting /\ ~Delivered(Ok(p)) /\ ~Delivered(Err(p))
                           \/ p \in todo /\ p \notin todo'
  BY <1>2, RequestStep
<1>5. /\ Delivered(Ok(c)) \/ Delivered(Err(c)) => c \in waiting
      /\ ~(Delivered(Ok(c)) /\ Delivered(Err(c)))
      /\ Delivered(Ok(p)) \/ Delivered(Err(p)) => p \in waiting
  BY <1>2, DeliveredAnswer DEF Opening
<1>6. tab[s] = "creating" /\ tab'[s] # "creating" =>
        \/ Restart \/ Delivered(Ok(c)) \/ Delivered(Ok(p)) \/ Delivered(Err(p))
        \/ Lost /\ p \in waiting
  BY TabStep DEF c, p, Opening
<1>7. Restart => todo' = {} /\ waiting' = {}
  BY DEF Restart
<1>8. Lost => waiting' = {} /\ ~Delivered(Ok(c)) /\ ~Delivered(Ok(p))
  <2>1. \A f : Delivered(f) => conn' = conn /\ conn # 0
    BY DEF Delivered, DeliverControl, DeliverOutput, OnFrame
  <2> QED  BY <2>1 DEF Lost, Drop, Crash, Rejected
<1>9. OpenTab(s) => tab[s] = "none" /\ tab'[s] = "creating"
  BY DEF OpenTab, TypeInv, ClientOK
<1>10. c \in todo' \union waiting' => tab'[s] = "creating"
  BY <1>1, <1>3, <1>5, <1>6, <1>7, <1>8, <1>9
<1>11. p \in todo' \union waiting' => tab'[s] = "creating"
  BY <1>1, <1>4, <1>5, <1>6, <1>7, <1>8
<1>12. ~(c \in todo' /\ c \in waiting') /\ ~(p \in todo' /\ p \in waiting')
  BY <1>1, <1>3, <1>4, <1>5, <1>9
<1>13. ~(c \in todo' \union waiting' /\ p \in todo' \union waiting')
  BY <1>1, <1>3, <1>4, <1>5, <1>8, <1>9
<1> QED  BY <1>10, <1>11, <1>12, <1>13 DEF c, p

-----------------------------------------------------------------------------
(* Exits and closes. *)

\* At the start no exit is on its way.
LEMMA ExitInit == Init => ExitInv
  BY EmptyQueue, IdleType DEF Init, ExitInv

\* Only an event thread that has ended has its exit on the way.
LEMMA ExitStep ==
  ASSUME TypeInv, Quiet, ExitInv, [Next]_vars
  PROVE  ExitInv'
<1>1. QueuesOK /\ ThreadsOK /\ ProcessOK
  BY DEF TypeInv
<1>2. ASSUME NEW s \in Sessions, sink[s].ended, ~Crash PROVE sink'[s].ended
  <2>1. ASSUME UNCHANGED sink PROVE sink'[s].ended
    BY <1>2, <2>1
  <2>2. CASE \E r \in Sessions : TakeEvent(r) \/ EmitOutput(r) \/ EmitStatus(r)
    <3>1. PICK r \in Sessions : TakeEvent(r) \/ EmitOutput(r) \/ EmitStatus(r)
      BY <2>2
    <3>2. CASE TakeEvent(r)
      BY <1>1, <1>2, <3>2 DEF TakeEvent, ProcessOK
    <3>3. CASE EmitOutput(r)
      BY <1>1, <1>2, <3>3 DEF EmitOutput, ProcessOK
    <3>4. CASE EmitStatus(r)
      BY <1>1, <1>2, <3>4 DEF EmitStatus, ProcessOK
    <3> QED  BY <3>1, <3>2, <3>3, <3>4
  <2>3. CASE \E c \in Conns : ThreadStep(c)
    BY <2>1, <2>3 DEF ThreadStep, Reserve, Spawn, Register, Attach, CompleteAttach, Kill, FinishClose,
                      Leave, process
  <2>4. CASE \/ \E r \in Sessions : \/ Write(r) \/ Exit(r) \/ Read(r)
                                    \/ OpenTab(r) \/ CloseTab(r) \/ Restore(r)
             \/ ClientStep \/ Drop \/ Restart \/ UNCHANGED vars
    BY <2>1, <2>4 DEF Write, Exit, Read, OpenTab, CloseTab, Restore, ClientStep, Connect, Send,
                      Reconnect, DeliverControl, DeliverOutput, Drop, Restart, vars, process
  <2> QED  BY <1>2, <2>2, <2>3, <2>4 DEF Next, SessionStep
<1>3. ASSUME NEW s \in Sessions, EmitStatus(s) PROVE sink'[s].ended /\ ~Crash
  <2>1. sink'[s].ended
    BY <1>1, <1>3 DEF EmitStatus, ProcessOK
  <2>2. Crash => sink'[s].ended = FALSE
    BY DEF Crash, Sleeping
  <2> QED  BY <2>1, <2>2
<1>4. CASE Crash
  <2>1. \A c \in Conns : control'[c] = <<>> /\ thread'[c] = Gone
    BY <1>4 DEF Crash
  <2> QED  BY <2>1, EmptyQueue, IdleType DEF ExitInv
<1>5. CASE ~Crash
  <2>1. ASSUME NEW c \in Conns, NEW s \in Sessions, In(Exited(s), control'[c])
        PROVE  sink'[s].ended
    <3>1. CASE In(Exited(s), control[c])
      BY <1>2, <1>5, <3>1 DEF ExitInv
    <3>2. CASE ~In(Exited(s), control[c])
      <4>1. Queued(c)
        BY <2>1, <3>2, FramesStep DEF Shrunk
      <4>2. PICK g \in Frames :
              /\ Reason(c, g)
              /\ control'[c] = Append(control[c], g) \/ control'[c] = control[c]
        BY <4>1 DEF Queued
      <4>3. g = Exited(s)
        <5>1. control'[c] = Append(control[c], g)
          BY <2>1, <3>2, <4>2
        <5>2. In(Exited(s), Append(control[c], g)) => In(Exited(s), control[c]) \/ Exited(s) = g
          BY <1>1, Appended DEF QueuesOK
        <5> QED  BY <2>1, <3>2, <5>1, <5>2
      <4>4. CASE \E r \in Sessions : EmitStatus(r) /\ g = Exited(r)
        BY <1>3, <4>3, <4>4, Distinct
      <4>5. CASE CompleteAttach(c) /\ thread[c].exit /\ g = Exited(thread[c].s)
        <5>1. s = thread[c].s
          BY <4>3, <4>5, Distinct
        <5> QED  BY <1>2, <1>5, <4>5, <5>1 DEF ExitInv
      <4>6. CASE \E r \in Requests : g \in Answers(r)
        BY <4>3, <4>6, Distinct DEF Answers
      <4> QED  BY <4>2, <4>4, <4>5, <4>6 DEF Reason
    <3> QED  BY <3>1, <3>2
  <2>2. ASSUME NEW c \in Conns, thread'[c].exit
        PROVE  thread'[c].step = "attaching" /\ sink'[thread'[c].s].ended
    <3>1. ASSUME thread'[c].exit => thread[c].exit /\ thread'[c].step = thread[c].step
                                      /\ thread'[c].s = thread[c].s
          PROVE  thread'[c].step = "attaching" /\ sink'[thread'[c].s].ended
      <4>1. thread[c].step = "attaching" /\ sink[thread[c].s].ended /\ thread[c].s \in Sessions
        BY <1>1, <2>2, <3>1 DEF ExitInv, ThreadsOK
      <4> QED  BY <1>2, <1>5, <2>2, <3>1, <4>1
    <3>2. ASSUME thread'[c] = thread[c] PROVE thread'[c].step = "attaching" /\ sink'[thread'[c].s].ended
      BY <2>2, <3>1, <3>2
    <3>3. CASE \E r \in Sessions : EmitStatus(r)
      <4>1. PICK r \in Sessions : EmitStatus(r)
        BY <3>3
      <4>2. /\ thread'[c].step = thread[c].step /\ thread'[c].s = thread[c].s
            /\ thread[c].exit \/ (thread[c].step = "attaching" /\ thread[c].s = r)
        BY <2>2, <4>1, PushEffect DEF EmitStatus
      <4>3. CASE thread[c].exit
        BY <3>1, <4>2, <4>3
      <4>4. CASE thread[c].step = "attaching" /\ thread[c].s = r
        BY <1>3, <4>1, <4>2, <4>4
      <4> QED  BY <4>2, <4>3, <4>4
    <3>4. CASE ThreadStep(c)
      <4>1. thread'[c] = thread[c]
        BY <2>2, <3>4, ThreadEffect
      <4> QED  BY <3>2, <4>1
    <3>5. CASE \E d \in Conns : ThreadStep(d) /\ d # c
      BY <3>2, <3>5, ThreadEffect
    <3>6. CASE Connect
      <4>1. thread' = [thread EXCEPT ![opened + 1] = Idle]
        BY <3>6 DEF Connect
      <4>2. thread'[c] \in {thread[c], Idle}
        BY <1>1, <4>1 DEF ThreadsOK
      <4> QED  BY <2>2, <3>2, <4>2, IdleType
    <3>7. CASE \/ \E r \in Sessions : \/ Write(r) \/ Exit(r) \/ Read(r) \/ TakeEvent(r)
                                      \/ EmitOutput(r) \/ OpenTab(r) \/ CloseTab(r) \/ Restore(r)
               \/ Send \/ Reconnect \/ DeliverControl \/ DeliverOutput \/ Drop \/ Restart
               \/ UNCHANGED vars
      BY <3>2, <3>7 DEF Write, Exit, Read, TakeEvent, EmitOutput, OpenTab, CloseTab, Restore, Send,
                        Reconnect, DeliverControl, DeliverOutput, Drop, Restart, vars
    <3> QED  BY <1>5, <3>3, <3>4, <3>5, <3>6, <3>7 DEF Next, SessionStep, ClientStep
  <2> QED  BY <2>1, <2>2 DEF ExitInv
<1> QED  BY <1>4, <1>5

\* A close that is asked, on its way or being carried out is that of a closed tab.
CloseInv ==
  \A s \in Sessions :
    /\ Request("close", s) \in todo => tab[s] = "closed"
    /\ \A c \in Conns :
         In(Request("close", s), inbox[c]) \/ Closing(c, s) => tab[s] = "closed"

\* A tab that was closed stays closed.
LEMMA ClosedStays ==
  ASSUME TypeInv, AnswerInv, PendingInv, [Next]_vars, NEW s \in Sessions, tab[s] = "closed"
  PROVE  tab'[s] = "closed"
<1>1. \A op \in Opening : /\ Request(op, s) \in Requests /\ Request(op, s).op = op
                          /\ Request(op, s) \notin waiting
  BY FrameType, Distinct DEF Opening, Attaching, PendingInv
<1>2. \A op \in Opening : ~Delivered(Ok(Request(op, s))) /\ ~Delivered(Err(Request(op, s)))
  BY <1>1, DeliveredAnswer
<1> QED  BY <1>1, <1>2, TabStep DEF Opening

\* At the start no close is asked.
LEMMA CloseInit == Init => CloseInv
  BY EmptyQueue, IdleType DEF Init, CloseInv, Closing

\* No step closes the session of a tab that is not closed.
LEMMA CloseStep ==
  ASSUME TypeInv, AnswerInv, PendingInv, CloseInv, [Next]_vars
  PROVE  CloseInv'
<1> SUFFICES ASSUME NEW s \in Sessions
             PROVE  LET r == Request("close", s)
                    IN  /\ r \in todo' => tab'[s] = "closed"
                        /\ \A c \in Conns : In(r, inbox'[c]) \/ Closing(c, s)' => tab'[s] = "closed"
  BY DEF CloseInv, Request
<1> DEFINE r == Request("close", s)
<1>1. /\ r \in todo => tab[s] = "closed"
      /\ \A c \in Conns : In(r, inbox[c]) \/ Closing(c, s) => tab[s] = "closed"
  BY DEF CloseInv
<1>2. r \in Requests /\ r.op = "close" /\ r.s = s
      /\ \A t : r # Creation(t) /\ r # Request("probe", t)
  BY FrameType DEF Request, Creation
<1> HIDE DEF r
<1>3. tab[s] = "closed" => tab'[s] = "closed"
  BY ClosedStays
<1>4. r \in todo' => r \in todo \/ CloseTab(s)
  BY <1>2, RequestStep
<1>5. CloseTab(s) => tab'[s] = "closed"
  BY DEF CloseTab, TypeInv, ClientOK
<1>6. ASSUME NEW c \in Conns
      PROVE  /\ In(r, inbox'[c]) => In(r, inbox[c]) \/ r \in todo
             /\ Closing(c, s)' => Closing(c, s) \/ In(r, inbox[c])
  <2>1. Closing(c, s)' => Closing(c, s) \/ (Kill(c) /\ Head(inbox[c]) = r)
    BY BusyStep DEF r
  <2>2. Kill(c) => In(Head(inbox[c]), inbox[c])
    BY ReadOut DEF Kill
  <2> QED  BY <2>1, <2>2, InboxStep
<1> QED  BY <1>1, <1>3, <1>4, <1>5, <1>6 DEF r

-----------------------------------------------------------------------------
(* Processes and the entries that list them. *)

\* A process is started by the thread that reserved its session, and never again.
LEMMA ProcessStep ==
  ASSUME TypeInv, [Next]_vars, NEW s \in Sessions
  PROVE  /\ \/ proc'[s] = proc[s]
            \/ proc[s] = "running" /\ proc'[s] = "dead"
            \/ proc'[s] = "running" /\ \E c \in Conns : Reserving(c, s) /\ Spawn(c)
         /\ s \in pty => \/ s \in pty' \/ proc'[s] # "running"
         /\ \A c \in Conns : Kill(c) /\ Head(inbox[c]).s = s /\ s \in pty => proc'[s] # "running"
<1>1. ProcessOK /\ DaemonOK
  BY DEF TypeInv
<1>2. ASSUME NEW c \in Conns, Kill(c)
      PROVE  /\ proc'[s] = proc[s] \/ (proc[s] = "running" /\ proc'[s] = "dead")
             /\ s \in pty => s \in pty' \/ proc'[s] # "running"
             /\ Head(inbox[c]).s = s /\ s \in pty => proc'[s] # "running"
  <2> DEFINE t == Head(inbox[c]).s
  <2>1. /\ pty' = pty \ {t}
        /\ proc' = IF t \in pty /\ proc[t] = "running" THEN [proc EXCEPT ![t] = "dead"] ELSE proc
    BY <1>2 DEF Kill
  <2> HIDE DEF t
  <2>2. t = s \/ proc'[s] = proc[s]
    BY <1>1, <2>1 DEF ProcessOK
  <2>3. t = s => proc'[s] = IF s \in pty /\ proc[s] = "running" THEN "dead" ELSE proc[s]
    BY <1>1, <2>1 DEF ProcessOK
  <2> QED  BY <1>1, <2>1, <2>2, <2>3 DEF t
<1>3. ASSUME UNCHANGED <<proc, pty>>
      PROVE  proc'[s] = proc[s] /\ (s \in pty => s \in pty')
  BY <1>3
<1>4. CASE \E c \in Conns : Kill(c)
  BY <1>2, <1>4
<1>5. CASE ~(\E c \in Conns : Kill(c))
  <2>1. CASE \E r \in Sessions : Write(r) \/ Exit(r) \/ SessionStep(r)
    <3>1. pty' = pty /\ (proc'[s] = proc[s] \/ (proc[s] = "running" /\ proc'[s] = "dead"))
      BY <1>1, <2>1 DEF Write, Exit, SessionStep, Read, TakeEvent, EmitOutput, EmitStatus, daemon,
                        ProcessOK
    <3> QED  BY <1>5, <3>1
  <2>2. CASE \E c \in Conns : Spawn(c)
    <3>1. PICK c \in Conns : Spawn(c)
      BY <2>2
    <3>2. pty' = pty /\ thread[c].step = "reserved"
          /\ (proc' = proc \/ proc' = [proc EXCEPT ![thread[c].s] = "running"])
      BY <3>1 DEF Spawn
    <3>3. proc'[s] = proc[s] \/ (thread[c].s = s /\ proc'[s] = "running")
      BY <1>1, <3>2 DEF ProcessOK
    <3> QED  BY <1>5, <3>1, <3>2, <3>3 DEF Reserving
  <2>3. CASE \E c \in Conns : Reserve(c) \/ Register(c) \/ Attach(c) \/ CompleteAttach(c)
                              \/ FinishClose(c) \/ Leave(c)
    <3>1. UNCHANGED proc /\ pty \subseteq pty'
      BY <2>3 DEF Reserve, Register, Attach, CompleteAttach, FinishClose, Leave, process, daemon
    <3> QED  BY <1>5, <3>1
  <2>4. CASE Crash
    <3>1. proc'[s] = IF proc[s] = "running" THEN "dead" ELSE proc[s]
      BY <2>4 DEF Crash
    <3> QED  BY <1>1, <1>5, <3>1 DEF ProcessOK
  <2>5. CASE (\E r \in Sessions : OpenTab(r) \/ CloseTab(r) \/ Restore(r)) \/ ClientStep \/ Drop
             \/ Restart \/ UNCHANGED vars
    BY <1>3, <1>5, <2>5 DEF OpenTab, CloseTab, Restore, ClientStep, Connect, Send, Reconnect,
                       DeliverControl, DeliverOutput, Drop, Restart, vars, daemon, process
  <2> QED  BY <1>5, <2>1, <2>2, <2>3, <2>4, <2>5 DEF Next, ThreadStep
<1> QED  BY <1>4, <1>5

\* Who takes an entry out of the table.
LEMMA EntryStep ==
  ASSUME TypeInv, [Next]_vars, NEW s \in Sessions, entry[s] # "none", entry'[s] = "none"
  PROVE  \/ Crash
         \/ \E c \in Conns : Spawn(c) /\ Reserving(c, s) /\ ~Reserving(c, s)' /\ UNCHANGED proc
         \/ \E c \in Conns : Closing(c, s)
         \/ entry[s] = "exited" \/ sink[s].status
<1>1. DaemonOK /\ ThreadsOK
  BY DEF TypeInv
<1>2. CASE \E r \in Sessions : EmitStatus(r)
  <2>1. PICK r \in Sessions : EmitStatus(r)
    BY <1>2
  <2>2. (entry[s] = "exited" \/ s = r) /\ sink[r].status
    BY <2>1, StatusEffect DEF EmitStatus
  <2> QED  BY <2>2
<1>3. ASSUME NEW c \in Conns, ThreadStep(c)
      PROVE  \/ Spawn(c) /\ Reserving(c, s) /\ ~Reserving(c, s)' /\ UNCHANGED proc
             \/ Closing(c, s)
  <2>1. CASE Reserve(c)
    BY <1>1, <2>1 DEF Reserve, DaemonOK
  <2>2. CASE Spawn(c)
    <3>1. entry' = [entry EXCEPT ![thread[c].s] = "none"] /\ Done(c) /\ UNCHANGED proc
          /\ thread[c].step = "reserved"
      BY <2>2 DEF Spawn
    <3>2. thread[c].s = s
      BY <1>1, <3>1 DEF DaemonOK
    <3>3. thread'[c].step = "idle"
      BY <1>1, <3>1, IdleType DEF Done, ThreadsOK
    <3> QED  BY <2>2, <3>1, <3>2, <3>3 DEF Reserving
  <2>3. CASE FinishClose(c)
    BY <1>1, <2>3 DEF FinishClose, Closing, DaemonOK
  <2>4. CASE Register(c) \/ Attach(c) \/ CompleteAttach(c) \/ Kill(c) \/ Leave(c)
    BY <2>4 DEF Register, Attach, CompleteAttach, Kill, Leave, daemon
  <2> QED  BY <1>3, <2>1, <2>2, <2>3, <2>4 DEF ThreadStep
<1>4. CASE \/ \E r \in Sessions : Write(r) \/ Exit(r) \/ Read(r) \/ TakeEvent(r) \/ EmitOutput(r)
           \/ \E r \in Sessions : OpenTab(r) \/ CloseTab(r) \/ Restore(r)
           \/ ClientStep \/ Drop \/ Restart \/ UNCHANGED vars
  BY <1>4 DEF Write, Exit, Read, TakeEvent, EmitOutput, OpenTab, CloseTab, Restore, ClientStep, Connect,
              Send, Reconnect, DeliverControl, DeliverOutput, Drop, Restart, vars, daemon
<1> QED  BY <1>2, <1>3, <1>4 DEF Next, SessionStep

\* The two queues to the client: Attached has one to itself, the other has everything else.
QueueInv ==
  \A c \in Conns :
    /\ \A x : In(x, output[c]) => \E r \in Requests : r.op \in Attaching /\ x = Ok(r)
    /\ \A r \in Requests : r.op \in Attaching => ~In(Ok(r), control[c])

\* At the start both queues are empty.
LEMMA QueueInit == Init => QueueInv
  BY EmptyQueue DEF Init, QueueInv

\* No step puts Attached in the control queue, or anything else in the other.
LEMMA QueueStep ==
  ASSUME TypeInv, Quiet, QueueInv, [Next]_vars
  PROVE  QueueInv'
<1> SUFFICES ASSUME NEW c \in Conns
             PROVE  /\ \A x : In(x, output'[c]) => \E r \in Requests : r.op \in Attaching /\ x = Ok(r)
                    /\ \A r \in Requests : r.op \in Attaching => ~In(Ok(r), control'[c])
  BY DEF QueueInv, Ok
<1>1. /\ \A x : In(x, output[c]) => \E r \in Requests : r.op \in Attaching /\ x = Ok(r)
      /\ \A r \in Requests : r.op \in Attaching => ~In(Ok(r), control[c])
  BY DEF QueueInv
<1>2. control[c] \in Seq(Frames) /\ output[c] \in Seq(Frames)
  BY DEF TypeInv, QueuesOK
<1>3. CASE Shrunk(control[c], control'[c]) /\ Shrunk(output[c], output'[c])
  BY <1>1, <1>3 DEF Shrunk
<1>4. CASE Queued(c)
  <2>1. PICK g \in Frames :
          \/ /\ control'[c] = Append(control[c], g) /\ output'[c] = output[c]
             /\ \A r \in Requests : r.op \in Attaching => g # Ok(r)
          \/ /\ output'[c] = Append(output[c], g) /\ control'[c] = control[c]
             /\ \E r \in Requests : r.op \in Attaching /\ g = Ok(r)
    BY <1>4 DEF Queued
  <2>2. /\ \A x : In(x, Append(control[c], g)) => In(x, control[c]) \/ x = g
        /\ \A x : In(x, Append(output[c], g)) => In(x, output[c]) \/ x = g
    BY <1>2, Appended
  <2>3. CASE /\ control'[c] = Append(control[c], g) /\ output'[c] = output[c]
             /\ \A r \in Requests : r.op \in Attaching => g # Ok(r)
    BY <1>1, <2>2, <2>3
  <2>4. CASE /\ output'[c] = Append(output[c], g) /\ control'[c] = control[c]
             /\ \E r \in Requests : r.op \in Attaching /\ g = Ok(r)
    BY <1>1, <2>2, <2>4
  <2> QED  BY <2>1, <2>3, <2>4
<1> QED  BY <1>3, <1>4, FramesStep

\* Answers to a creation come by the control queue, and a probe's Attached does not.
LEMMA QueuedApart ==
  ASSUME TypeInv, QueueInv, NEW s \in Sessions, NEW c \in Conns
  PROVE  /\ ~In(Ok(Creation(s)), output[c]) /\ ~In(Err(Creation(s)), output[c])
         /\ ~In(Ok(Request("probe", s)), control[c])
<1>1. /\ Creation(s) \in Requests /\ Creation(s).op \notin Attaching
      /\ Request("probe", s) \in Requests /\ Request("probe", s).op \in Attaching
  BY FrameType DEF Creation, Attaching, Request
<1>2. \A r \in Requests : r.op \in Attaching => Ok(Creation(s)) # Ok(r) /\ Err(Creation(s)) # Ok(r)
  BY <1>1, Distinct
<1> QED  BY <1>1, <1>2 DEF QueueInv

\* A session is settled once its process has ended, or runs and can be closed.
Settled(s) == proc[s] = "dead" \/ (proc[s] = "running" /\ s \in pty)

\* The daemon says a session is created, and its tab is open, when it is settled, unless a
\* probe opened the tab; and a close then ends the process.
SettledInv ==
  \A s \in Sessions :
    /\ \A c \in Conns : thread[c].step = "spawned" /\ thread[c].s = s => proc[s] # "none"
    /\ \A c \in Conns : In(Ok(Creation(s)), control[c]) => Settled(s)
    /\ tab[s] \in {"open", "saved", "closed"} /\ s \notin probed => Settled(s)
    /\ \A c \in Conns : Closing(c, s) => s \in probed \/ proc[s] = "dead"

\* At the start no tab is open.
LEMMA SettledInit == Init => SettledInv
  BY EmptyQueue, IdleType DEF Init, SettledInv, Closing

\* A session that is settled stays so, and probed is never taken back.
LEMMA SettledStays ==
  ASSUME TypeInv, CreateInv, [Next]_vars, NEW s \in Sessions
  PROVE  /\ Settled(s) => Settled(s)'
         /\ proc[s] # "none" => proc'[s] # "none"
         /\ proc[s] = "dead" => proc'[s] = "dead"
         /\ s \in probed => s \in probed'
<1>1. proc[s] \in {"none", "running", "dead"}
  BY DEF TypeInv, ProcessOK
<1>2. \A c \in Conns : Reserving(c, s) => proc[s] = "none"
  BY DEF CreateInv, Unstarted
<1>3. \/ proc'[s] = proc[s]
      \/ proc[s] = "running" /\ proc'[s] = "dead"
      \/ proc'[s] = "running" /\ proc[s] = "none"
  BY <1>2, ProcessStep
<1>4. s \in pty => s \in pty' \/ proc'[s] # "running"
  BY ProcessStep
<1>5. s \in probed => s \in probed'
  BY TabStep
<1> QED  BY <1>1, <1>3, <1>4, <1>5 DEF Settled

\* A thread that has started a process reserved its session before.
LEMMA SpawnedStep ==
  ASSUME TypeInv, [Next]_vars, NEW c \in Conns, NEW s \in Sessions,
         thread'[c].step = "spawned", thread'[c].s = s
  PROVE  \/ thread[c].step = "spawned" /\ thread[c].s = s
         \/ proc'[s] = "running"
<1>1. ThreadsOK /\ ProcessOK
  BY DEF TypeInv
<1>2. ASSUME NEW step, NEW r, Busy(c, step, r) PROVE thread'[c].step = step
  <2> DEFINE t == [step |-> step, s |-> r, exit |-> FALSE]
  <2>1. thread'[c] = t
    BY <1>1, <1>2 DEF Busy, ThreadsOK
  <2> QED  BY <2>1
<1>3. ASSUME Done(c) \/ thread' = [thread EXCEPT ![c] = Gone]
      PROVE  thread'[c].step \in {"idle", "gone"}
  BY <1>1, <1>3, IdleType DEF Done, ThreadsOK
<1>4. CASE ~ThreadStep(c)
  BY <1>4, AloneStep
<1>5. CASE UNCHANGED thread
  BY <1>5
<1>6. CASE Spawn(c)
  <2>1. CASE Done(c)
    BY <1>3, <2>1
  <2>2. CASE proc' = [proc EXCEPT ![thread[c].s] = "running"] /\ Busy(c, "spawned", thread[c].s)
    <3>1. thread'[c].s = thread[c].s
      BY <1>1, <2>2 DEF Busy, ThreadsOK
    <3> QED  BY <1>1, <2>2, <3>1 DEF ProcessOK
  <2> QED  BY <1>6, <2>1, <2>2 DEF Spawn
<1>7. CASE Reserve(c)
  BY <1>2, <1>5, <1>7 DEF Reserve
<1>8. CASE Attach(c)
  BY <1>2, <1>5, <1>8 DEF Attach
<1>9. CASE Kill(c)
  BY <1>2, <1>9 DEF Kill
<1>10. CASE Register(c) \/ CompleteAttach(c) \/ FinishClose(c) \/ Leave(c)
  BY <1>3, <1>10 DEF Register, CompleteAttach, FinishClose, Leave
<1> QED  BY <1>4, <1>6, <1>7, <1>8, <1>9, <1>10 DEF ThreadStep

\* No step opens a tab, or reports a creation, of a session that is not settled.
LEMMA SettledStep ==
  ASSUME TypeInv, Quiet, CreateInv, QueueInv, AnswerInv, PendingInv, CloseInv, SettledInv,
         [Next]_vars
  PROVE  SettledInv'
<1> SUFFICES ASSUME NEW s \in Sessions
             PROVE  /\ \A c \in Conns : thread'[c].step = "spawned" /\ thread'[c].s = s => proc'[s] # "none"
                    /\ \A c \in Conns : In(Ok(Creation(s)), control'[c]) => Settled(s)'
                    /\ tab'[s] \in {"open", "saved", "closed"} /\ s \notin probed' => Settled(s)'
                    /\ \A c \in Conns : Closing(c, s)' => s \in probed' \/ proc'[s] = "dead"
  BY DEF SettledInv, Ok, Creation
<1>1. /\ \A c \in Conns : thread[c].step = "spawned" /\ thread[c].s = s => proc[s] # "none"
      /\ \A c \in Conns : In(Ok(Creation(s)), control[c]) => Settled(s)
      /\ tab[s] \in {"open", "saved", "closed"} /\ s \notin probed => Settled(s)
      /\ \A c \in Conns : Closing(c, s) => s \in probed \/ proc[s] = "dead"
  BY DEF SettledInv
<1>2. /\ Settled(s) => Settled(s)'
      /\ proc[s] # "none" => proc'[s] # "none"
      /\ proc[s] = "dead" => proc'[s] = "dead"
      /\ s \in probed => s \in probed'
  BY SettledStays
<1>3. ASSUME NEW c \in Conns, thread'[c].step = "spawned", thread'[c].s = s
      PROVE  proc'[s] # "none"
  BY <1>1, <1>2, <1>3, SpawnedStep
<1>4. ASSUME NEW c \in Conns, In(Ok(Creation(s)), control'[c])
      PROVE  Settled(s)'
  <2> DEFINE a == Ok(Creation(s))
  <2>1. Creation(s) \in Requests /\ Creation(s).op = "create" /\ Creation(s).s = s
    BY FrameType DEF Creation
  <2>2. CASE In(a, control[c])
    BY <1>1, <1>2, <2>2
  <2>3. CASE ~In(a, control[c])
    <3>1. c = conn /\ Queued(c)
      BY <1>4, <2>3, FramesStep DEF Shrunk
    <3>2. PICK g \in Frames :
            Reason(c, g) /\ (control'[c] = Append(control[c], g) \/ control'[c] = control[c])
      BY <3>1 DEF Queued
    <3>3. g = a
      <4>1. control'[c] = Append(control[c], g) /\ control[c] \in Seq(Frames)
        BY <1>4, <2>3, <3>2 DEF TypeInv, QueuesOK
      <4>2. In(a, Append(control[c], g)) => In(a, control[c]) \/ a = g
        BY <4>1, Appended
      <4> QED  BY <1>4, <2>3, <4>1, <4>2
    <3>4. PICK q \in Requests : ThreadStep(c) /\ Truthful(c, q, g) /\ g \in Answers(q)
      BY <3>2, <3>3, Distinct DEF Reason
    <3>5. q = Creation(s)
      BY <2>1, <3>3, <3>4, Distinct DEF Answers
    <3>6. Register(c) /\ thread[c].s = s
      <4>1. Register(c) /\ Creation(s) = Creation(thread[c].s)
        BY <2>1, <3>3, <3>4, <3>5 DEF Truthful
      <4> QED  BY <4>1 DEF Creation
    <3>7. proc[s] # "none" /\ proc' = proc /\ s \in pty'
      BY <1>1, <3>6 DEF Register, process
    <3> QED  BY <3>7 DEF Settled, TypeInv, ProcessOK
  <2> QED  BY <2>2, <2>3
<1>5. ASSUME tab'[s] \in {"open", "saved", "closed"}, s \notin probed' PROVE Settled(s)'
  <2>1. CASE tab[s] \in {"open", "saved", "closed"}
    BY <1>1, <1>2, <1>5, <2>1
  <2>2. CASE tab[s] \notin {"open", "saved", "closed"}
    <3>1. \E op \in Opening : Delivered(Ok(Request(op, s)))
      BY <1>5, <2>2, TabStep
    <3>2. ~Delivered(Ok(Request("probe", s)))
      BY <1>5, TabStep
    <3>3. Delivered(Ok(Creation(s)))
      BY <3>1, <3>2 DEF Opening, Creation, Request
    <3>4. /\ In(Ok(Creation(s)), control[conn]) \/ In(Ok(Creation(s)), output[conn])
          /\ conn \in Conns
      BY <3>3, DeliveredStep
    <3>5. ~In(Ok(Creation(s)), output[conn])
      BY <3>4, QueuedApart
    <3> QED  BY <1>1, <1>2, <3>4, <3>5
  <2> QED  BY <2>1, <2>2
<1>6. ASSUME NEW c \in Conns, Closing(c, s)' PROVE s \in probed' \/ proc'[s] = "dead"
  <2>1. CASE Closing(c, s)
    BY <1>1, <1>2, <2>1
  <2>2. CASE Kill(c) /\ Head(inbox[c]) = Request("close", s)
    <3>1. In(Request("close", s), inbox[c]) /\ Head(inbox[c]).s = s
      <4>1. In(Head(inbox[c]), inbox[c])
        BY <2>2, ReadOut DEF Kill
      <4> QED  BY <2>2, <4>1, Distinct
    <3>2. tab[s] = "closed"
      BY <3>1 DEF CloseInv
    <3>3. CASE s \in probed
      BY <1>2, <3>3
    <3>4. CASE s \notin probed
      <4>1. Settled(s) /\ Settled(s)'
        BY <1>1, <1>2, <3>2, <3>4
      <4>2. s \in pty => proc'[s] # "running"
        BY <2>2, <3>1, ProcessStep
      <4>3. CASE s \in pty
        BY <4>1, <4>2, <4>3 DEF Settled
      <4>4. CASE s \notin pty
        BY <1>2, <4>1, <4>4 DEF Settled
      <4> QED  BY <4>3, <4>4
    <3> QED  BY <3>3, <3>4
  <2> QED  BY <1>6, <2>1, <2>2, BusyStep
<1> QED  BY <1>3, <1>4, <1>5, <1>6

\* A process that runs, or is about to, has an entry, unless a probe opened its tab and the
\* tab has been closed.
OrphanInv ==
  \A s \in Sessions :
    (proc[s] = "running" \/ \E c \in Conns : Reserving(c, s)) /\ entry[s] = "none"
      => s \in probed /\ tab[s] = "closed"

\* At the start no process runs.
LEMMA OrphanInit == Init => OrphanInv
  BY IdleType DEF Init, OrphanInv, Reserving

\* No step takes the entry from a process that runs, but for the probe's exception.
LEMMA OrphanStep ==
  ASSUME TypeInv, CreateInv, FlowInv, AnswerInv, PendingInv, CloseInv, SettledInv, OrphanInv,
         [Next]_vars
  PROVE  OrphanInv'
<1> SUFFICES ASSUME NEW s \in Sessions,
                    proc'[s] = "running" \/ \E c \in Conns : Reserving(c, s)', entry'[s] = "none"
             PROVE  s \in probed' /\ tab'[s] = "closed"
  BY DEF OrphanInv
<1>1. ASSUME s \in probed, tab[s] = "closed" PROVE s \in probed' /\ tab'[s] = "closed"
  BY <1>1, SettledStays, ClosedStays
<1>2. proc[s] = "running" \/ \E c \in Conns : Reserving(c, s)
  <2>1. CASE proc'[s] = "running"
    BY <2>1, ProcessStep
  <2>2. CASE \E c \in Conns : Reserving(c, s)'
    <3>1. PICK c \in Conns : Reserving(c, s)'
      BY <2>2
    <3>2. ASSUME Reserve(c), Head(inbox[c]) = Creation(s) PROVE FALSE
      <4>1. Head(inbox[c]).s = s /\ ThreadStep(c)
        BY <3>2 DEF Creation, ThreadStep
      <4>2. entry'[s] = "alive" \/ UNCHANGED thread
        BY <3>2, <4>1 DEF Reserve, TypeInv, DaemonOK
      <4>3. UNCHANGED thread /\ thread[c].step = "idle"
        BY <3>2, <4>2 DEF Reserve, Reads
      <4> QED  BY <3>1, <4>3 DEF Reserving
    <3> QED  BY <3>1, <3>2, BusyStep
  <2> QED  BY <2>1, <2>2
<1>3. CASE entry[s] = "none"
  BY <1>1, <1>2, <1>3 DEF OrphanInv
<1>4. CASE entry[s] # "none"
  <2>1. \A c \in Conns : Reserving(c, s) => Unstarted(s)
    BY DEF CreateInv
  <2>2. CASE Crash
    <3>1. proc'[s] # "running" /\ \A c \in Conns : thread'[c] = Gone
      BY <2>2 DEF Crash, TypeInv, ProcessOK
    <3> QED  BY <3>1, IdleType DEF Reserving
  <2>3. ASSUME NEW c \in Conns, Spawn(c), Reserving(c, s), ~Reserving(c, s)', UNCHANGED proc
        PROVE  FALSE
    <3>1. proc'[s] = "none"
      BY <2>1, <2>3 DEF Unstarted
    <3>2. PICK d \in Conns : Reserving(d, s)'
      BY <3>1
    <3>3. d # c
      BY <2>3, <3>2
    <3>4. ThreadStep(c)
      BY <2>3 DEF ThreadStep
    <3>5. thread'[d] = thread[d]
      BY <3>3, <3>4, ThreadEffect
    <3>6. Reserving(d, s)
      BY <3>2, <3>5 DEF Reserving
    <3> QED  BY <2>3, <3>3, <3>6 DEF CreateInv, Creating, Reserving
  <2>4. ASSUME proc[s] = "dead" PROVE FALSE
    <3>1. proc'[s] = "dead"
      BY <2>4, SettledStays
    <3>2. \A c \in Conns : ~Reserving(c, s)
      BY <2>1, <2>4 DEF Unstarted
    <3> QED  BY <1>2, <2>4, <3>2
  <2>5. CASE \E c \in Conns : Closing(c, s)
    BY <1>1, <2>4, <2>5 DEF SettledInv, CloseInv
  <2>6. CASE entry[s] = "exited" \/ sink[s].status
    <3>1. sink[s].status /\ reader[s] = "done" /\ proc[s] = "dead"
      BY <2>6 DEF FlowInv, Flow
    <3> QED  BY <2>4, <3>1
  <2> QED  BY <1>4, <2>2, <2>3, <2>5, <2>6, EntryStep
<1> QED  BY <1>3, <1>4

-----------------------------------------------------------------------------
(* The first connection: while it lasts, a failed creation has left nothing. *)

FirstLink == conn = 1 \/ opened = 0
GivenUp(s) ==
  \/ Request("probe", s) \in todo \union waiting
  \/ tab[s] = "failed"
  \/ \E c \in Conns : In(Err(Creation(s)), control[c])
FirstInv ==
  FirstLink => /\ probed = {}
               /\ \A s \in Sessions : GivenUp(s) => entry[s] = "none"
               /\ \A s \in Sessions, c \in Conns : ~In(Ok(Request("probe", s)), output[c])

\* At the start nothing has been given up.
LEMMA FirstInit == Init => FirstInv
  BY EmptyQueue DEF Init, FirstInv, GivenUp

\* A link that is the first one was the first one before.
LEMMA FirstBefore ==
  ASSUME TypeInv, [Next]_vars, FirstLink'
  PROVE  FirstLink /\ ~Lost /\ ~Restart
<1>1. opened \in Nat /\ conn \in {0, opened}
  BY LifecycleAssumption DEF TypeInv, ClientOK
<1>2. Lost \/ Restart => conn # 0 /\ conn' = 0 /\ opened' = opened
  BY DEF Lost, Drop, Restart, Crash, Severed, Rejected
<1>3. \/ conn' = conn /\ opened' = opened
      \/ conn = 0 /\ opened' = opened + 1 /\ conn' = opened + 1
      \/ Lost \/ Restart
  <2>1. UNCHANGED client => conn' = conn /\ opened' = opened
    BY DEF client
  <2>2. CASE \E s \in Sessions : Write(s) \/ Exit(s) \/ SessionStep(s)
    BY <2>1, <2>2 DEF Write, Exit, SessionStep, Read, TakeEvent, EmitOutput, EmitStatus
  <2>3. CASE \E c \in Conns : ThreadStep(c)
    BY <2>1, <2>3, ThreadEffect
  <2>4. CASE \/ \E s \in Sessions : OpenTab(s) \/ CloseTab(s) \/ Restore(s)
             \/ Send \/ Reconnect \/ DeliverControl \/ DeliverOutput \/ UNCHANGED vars
    BY <2>1, <2>4 DEF OpenTab, CloseTab, Restore, Send, Reconnect, DeliverControl, DeliverOutput,
                      OnFrame, vars
  <2>5. CASE Connect
    BY <2>5 DEF Connect
  <2> QED  BY <2>2, <2>3, <2>4, <2>5 DEF Next, ClientStep, Lost
<1> QED  BY <1>1, <1>2, <1>3 DEF FirstLink

\* While the first link lasts, no step leaves an entry to a tab that is given up.
LEMMA FirstStep ==
  ASSUME TypeInv, Quiet, CreateInv, QueueInv, AnswerInv, PendingInv, FirstInv, [Next]_vars
  PROVE  FirstInv'
<1> SUFFICES ASSUME FirstLink'
             PROVE  /\ probed' = {}
                    /\ \A s \in Sessions : GivenUp(s)' => entry'[s] = "none"
                    /\ \A s \in Sessions, c \in Conns :
                         ~In(Ok(Request("probe", s)), output'[c])
  BY DEF FirstInv, Ok, Request
<1>1. FirstLink /\ ~Lost /\ ~Restart
  BY FirstBefore
<1>2. /\ probed = {} /\ \A s \in Sessions : GivenUp(s) => entry[s] = "none"
      /\ \A s \in Sessions, c \in Conns : ~In(Ok(Request("probe", s)), output[c])
  BY <1>1 DEF FirstInv
<1>3. ASSUME NEW s \in Sessions PROVE ~Delivered(Ok(Request("probe", s)))
  BY <1>2, DeliveredStep, QueuedApart
<1>4. probed' = {}
  <2>1. probed' \subseteq Sessions
    BY TypeStep DEF TypeInv, ClientOK
  <2>2. ASSUME NEW s \in Sessions PROVE probed' = {}
    BY <1>2, <1>3, TabStep
  <2> QED  BY <2>1, <2>2
\* No creation is on its way while its session is given up.
<1>5. ASSUME NEW s \in Sessions, GivenUp(s), NEW c \in Conns PROVE ~In(Creation(s), inbox[c])
  <2> DEFINE r == Creation(s)
  <2>1. r \in Requests /\ r.op = "create" /\ r.op \in Opening /\ r = Request("create", s)
    BY FrameType DEF Creation, Opening
  <2> HIDE DEF r
  <2>2. SUFFICES ASSUME In(r, inbox[c]) PROVE FALSE
    BY DEF r
  <2>3. inbox[c] # <<>>
    BY <2>2, EmptyQueue
  <2>4. c = conn /\ conn # 0
    <3>1. ~(c > opened)
      BY <2>3 DEF Quiet
    <3>2. c \in Nat /\ c # 0 /\ opened \in Nat /\ conn \in {0, opened}
      BY LifecycleAssumption DEF Conns, TypeInv, ClientOK
    <3> QED  BY <1>1, <3>1, <3>2 DEF FirstLink
  <2>5. r \in waiting /\ ~Answered(r, control[conn])
    <3>1. OneAnswer(r)
      BY <2>1, <2>4 DEF AnswerInv
    <3> QED  BY <2>2, <2>4, <3>1 DEF OneAnswer, Asked
  <2>6. tab[s] = "creating" /\ Request("probe", s) \notin todo \union waiting
    BY <2>1, <2>5 DEF PendingInv, Opening
  <2>7. PICK d \in Conns : In(Err(r), control[d])
    BY <1>5, <2>6 DEF GivenUp, r
  <2>8. d = conn
    BY <2>7, EmptyQueue DEF Quiet
  <2> QED  BY <2>5, <2>7, <2>8 DEF Answered, Answers
<1>6. ASSUME NEW s \in Sessions, GivenUp(s) PROVE entry'[s] = "none"
  <2>1. entry[s] = "none"
    BY <1>2, <1>6
  <2>2. \A c \in Conns : ~(Reserve(c) /\ Head(inbox[c]) = Creation(s))
    BY <1>5, <1>6, ReadOut DEF Reserve
  <2> QED  BY <2>1, <2>2, EntryMade
<1>7. ASSUME NEW s \in Sessions, GivenUp(s)', ~GivenUp(s) PROVE entry'[s] = "none"
  <2> DEFINE p == Request("probe", s)
  <2>1. /\ p \in Requests /\ p.op = "probe" /\ p.s = s /\ p.op \in Opening
        /\ \A t : p # Creation(t) /\ p # Request("close", t)
    BY FrameType DEF Request, Creation, Attaching, Opening
  <2>2. ~Delivered(Err(p))
    BY <1>7, <2>1, DeliveredAnswer DEF GivenUp
  <2>3. ~Delivered(Err(Creation(s)))
    BY <1>7, DeliveredStep, QueuedApart DEF GivenUp
  <2>4. p \notin todo' \union waiting'
    BY <1>1, <1>7, <2>1, <2>3, RequestStep DEF GivenUp
  <2>5. tab'[s] # "failed"
    BY <1>1, <1>7, <2>2, TabStep DEF GivenUp
  <2>6. PICK c \in Conns : In(Err(Creation(s)), control'[c]) /\ ~In(Err(Creation(s)), control[c])
    BY <1>7, <2>4, <2>5 DEF GivenUp, Err, Creation, Request
  <2>7. PICK g \in Frames :
          Reason(c, g) /\ (control'[c] = Append(control[c], g) \/ control'[c] = control[c])
    BY <2>6, FramesStep DEF Shrunk, Queued
  <2>8. g = Err(Creation(s))
    <3>1. control'[c] = Append(control[c], g) /\ control[c] \in Seq(Frames)
      BY <2>6, <2>7 DEF TypeInv, QueuesOK
    <3>2. \A x : In(x, Append(control[c], g)) => In(x, control[c]) \/ x = g
      BY <3>1, Appended
    <3> QED  BY <2>6, <3>1, <3>2
  <2>9. PICK q \in Requests : Truthful(c, q, g) /\ g \in Answers(q)
    BY <2>7, <2>8, Distinct DEF Reason
  <2>10. Creation(s) \in Requests /\ Creation(s).op = "create" /\ Creation(s).s = s
    BY FrameType DEF Creation
  <2>11. q = Creation(s)
    BY <2>8, <2>9, <2>10, Distinct DEF Answers
  <2>12. CASE Reserve(c) /\ Head(inbox[c]) = Creation(s)
    <3>1. In(Creation(s), inbox[c])
      BY <2>12, ReadOut DEF Reserve
    <3>2. entry[s] = "none"
      BY <3>1 DEF CreateInv, Fresh
    <3>3. UNCHANGED control \/ UNCHANGED entry
      BY <2>12 DEF Reserve
    <3>4. control' # control
      BY <2>6
    <3> QED  BY <3>2, <3>3, <3>4
  <2> QED  BY <2>8, <2>9, <2>10, <2>11, <2>12 DEF Truthful
<1>8. ASSUME NEW s \in Sessions, NEW c \in Conns, In(Ok(Request("probe", s)), output'[c])
      PROVE  FALSE
  <2> DEFINE p == Request("probe", s)
  <2>1. p \in Requests /\ p.op = "probe" /\ p.s = s /\ p.op \in Opening /\ p.op \in Attaching
    BY FrameType DEF Request, Attaching, Opening
  <2>2. ~In(Ok(p), output[c])
    BY <1>2
  <2> HIDE DEF p
  <2>3. c = conn /\ Queued(c)
    BY <1>8, <2>2, FramesStep DEF Shrunk, p
  <2>4. PICK g \in Frames :
          Reason(c, g) /\ (output'[c] = Append(output[c], g) \/ output'[c] = output[c])
    BY <2>3 DEF Queued
  <2>5. g = Ok(p)
    <3>1. output'[c] = Append(output[c], g) /\ output[c] \in Seq(Frames)
      BY <1>8, <2>2, <2>4 DEF TypeInv, QueuesOK, p
    <3>2. \A x : In(x, Append(output[c], g)) => In(x, output[c]) \/ x = g
      BY <3>1, Appended
    <3> QED  BY <1>8, <2>2, <3>1, <3>2 DEF p
  <2>6. OneAnswer(p)
    <3>1. conn # 0
      BY <2>3, LifecycleAssumption DEF Conns
    <3> QED  BY <2>1, <3>1 DEF AnswerInv
  <2>7. Truthful(c, p, g) /\ In(p, inbox[c])
    <3>1. Once({p}, inbox[c]) /\ g \in Answers(p)
      BY <2>3, <2>5, <2>6 DEF OneAnswer, Answers
    <3>2. p.op # "create"
      BY <2>1
    <3> QED  BY <2>1, <2>4, <3>1, <3>2, AnswerEnds
  <2>8. GivenUp(s)
    BY <2>3, <2>6, <2>7 DEF GivenUp, OneAnswer, Asked, p
  <2> QED  BY <1>2, <2>1, <2>5, <2>7, <2>8 DEF Truthful
<1> QED  BY <1>4, <1>6, <1>7, <1>8

-----------------------------------------------------------------------------
(* The theorems. *)

Inv ==
  /\ TypeInv /\ Quiet /\ CreateInv /\ QueueInv /\ AnswerInv /\ PendingInv
  /\ FlowInv /\ ExitInv /\ CloseInv /\ SettledInv /\ OrphanInv /\ FirstInv

\* The parts hold at the start, and every step of the system keeps them.
LEMMA Inductive == Spec => []Inv
<1>1. Init => Inv
  BY TypeInit, QuietInit, CreateInit, QueueInit, AnswerInit, PendingInit, FlowInit, ExitInit, CloseInit,
     SettledInit, OrphanInit, FirstInit DEF Inv
<1>2. Inv /\ [Next]_vars => Inv'
  <2> SUFFICES ASSUME Inv, [Next]_vars PROVE Inv'
    OBVIOUS
  <2>1. /\ TypeInv /\ Quiet /\ CreateInv /\ QueueInv /\ AnswerInv /\ PendingInv
        /\ FlowInv /\ ExitInv /\ CloseInv /\ SettledInv /\ OrphanInv /\ FirstInv
    BY DEF Inv
  <2>2. TypeInv' /\ Quiet' /\ CreateInv' /\ QueueInv'
    BY <2>1, TypeStep, QuietStep, CreateStep, QueueStep
  <2>3. AnswerInv' /\ PendingInv' /\ FlowInv' /\ ExitInv'
    BY <2>1, AnswerStep, PendingStep, FlowStep, ExitStep
  <2>4. CloseInv' /\ SettledInv' /\ OrphanInv' /\ FirstInv'
    BY <2>1, CloseStep, SettledStep, OrphanStep, FirstStep
  <2> QED  BY <2>2, <2>3, <2>4 DEF Inv
<1> QED  BY <1>1, <1>2, PTL DEF Spec

\* Every variable keeps its type; in particular no more is unread, or kept in a session's
\* buffer, than its process has written (reader thread, event thread and append_output).
THEOREM TypeCorrect == Spec => []TypeOK
<1>1. Inv => TypeOK
  <2> SUFFICES ASSUME Inv PROVE TypeOK
    OBVIOUS
  <2>1. ThreadsOK /\ DaemonOK /\ ProcessOK /\ QueuesOK /\ ClientOK /\ crashes \in 0..MaxCrashes
    BY DEF Inv, TypeInv
  <2>2. ASSUME NEW s \in Sessions PROVE unread[s] \in 0..MaxOut /\ kept[s] \in 0..MaxOut
    <3>1. unread[s] + InChannel(s) + sink[s].held + kept[s] <= made[s]
      BY DEF Inv, FlowInv, Flow, OnTheWay
    <3>2. /\ unread[s] \in Nat /\ InChannel(s) \in {0, 1} /\ sink[s].held \in 0..2 /\ kept[s] \in Nat
          /\ made[s] \in 0..MaxOut /\ MaxOut \in Nat
      BY FlowTypes, LifecycleAssumption DEF Inv, TypeInv, ProcessOK
    <3> QED  BY <3>1, <3>2
  <2>3. unread \in [Sessions -> 0..MaxOut] /\ kept \in [Sessions -> 0..MaxOut]
    BY <2>1, <2>2 DEF ProcessOK, DaemonOK
  <2>4. conn \in 0..opened
    BY <2>1, LifecycleAssumption DEF ClientOK
  <2>5. \A c \in Conns :
          /\ thread[c].step \in Steps
          /\ inbox[c] \in Seq(Requests) /\ control[c] \in Seq(Frames) /\ output[c] \in Seq(Frames)
    BY <2>1 DEF ThreadsOK, QueuesOK
  <2>6. \A s \in Sessions : chan[s] \in {<<>>, <<"output">>, <<"status">>}
    BY <2>1 DEF ProcessOK
  <2> QED  BY <2>1, <2>3, <2>4, <2>5, <2>6 DEF TypeOK, DaemonOK, ProcessOK, ClientOK, Steps
<1> QED  BY <1>1, Inductive, PTL

\* An exit is reported, and an entry marked as exited, only after all output of the process
\* has passed the channel and the event thread (run_session_events, emit_daemon_status).
THEOREM ExitsAfterOutput == Spec => []ExitAfterOutput
<1>1. Inv => ExitAfterOutput
  <2> SUFFICES ASSUME Inv, NEW s \in Sessions
               PROVE  /\ entry[s] = "exited" => kept[s] = made[s]
                      /\ (\E c \in Conns : \E i \in DOMAIN control[c] :
                            control[c][i] = [k |-> "exit", s |-> s])
                           => unread[s] = 0 /\ chan[s] = <<>> /\ sink[s].held = 0
    BY DEF ExitAfterOutput
  <2>1. Flow(s) /\ kept[s] \in Nat /\ <<>> # <<"output">>
    BY FlowTypes DEF Inv, FlowInv
  <2>2. ASSUME sink[s].ended
        PROVE  unread[s] = 0 /\ chan[s] = <<>> /\ sink[s].held = 0 /\ OnTheWay(s) = kept[s]
    BY <2>1, <2>2 DEF Flow, OnTheWay, InChannel
  <2>3. ASSUME entry[s] = "exited" PROVE kept[s] = made[s]
    BY <2>1, <2>2, <2>3 DEF Flow
  <2>4. ASSUME NEW c \in Conns, NEW i \in DOMAIN control[c],
               control[c][i] = [k |-> "exit", s |-> s]
        PROVE  sink[s].ended
    BY <2>4 DEF Inv, ExitInv, In, Exited
  <2> QED  BY <2>2, <2>3, <2>4
<1> QED  BY <1>1, Inductive, PTL

\* A running process has an entry that lists it, unless a probe opened its tab and the tab
\* has been closed since (reserve_session, create_with_launch, close_session).
THEOREM NoOrphans == Spec => []NoOrphanProcess
<1>1. Inv => NoOrphanProcess
  BY DEF Inv, OrphanInv, NoOrphanProcess
<1> QED  BY <1>1, Inductive, PTL

\* A tab that is open has had a process, and one that failed has left neither entry nor
\* process, as long as no link was lost (createSession of terminalStore, handle_create).
THEOREM CreationsTruthful == Spec => []CreationTruthful
<1>1. Inv => CreationTruthful
  <2> SUFFICES ASSUME Inv, NEW s \in Sessions
               PROVE  /\ tab[s] = "open" /\ (s \notin probed \/ conn = 1) => proc[s] # "none"
                      /\ tab[s] = "failed" /\ conn = 1 => entry[s] = "none" /\ proc[s] # "running"
    BY DEF CreationTruthful
  <2>1. conn = 1 => s \notin probed /\ (tab[s] = "failed" => entry[s] = "none")
    BY DEF Inv, FirstInv, FirstLink, GivenUp
  <2>2. tab[s] = "open" /\ s \notin probed => proc[s] # "none"
    BY DEF Inv, SettledInv, Settled
  <2>3. proc[s] = "running" /\ entry[s] = "none" => s \in probed
    BY DEF Inv, OrphanInv
  <2> QED  BY <2>1, <2>2, <2>3
<1> QED  BY <1>1, Inductive, PTL

=============================================================================
