--------------------------- MODULE WebResultProofs ---------------------------
(***************************************************************************)
(* What the browser is told of a management operation is the first result *)
(* the page reported: the order of the outbox and of the connection, and   *)
(* the server's transitions, put together; and the type invariant of       *)
(* WebOperations, for which the numbers of the outbox are needed.          *)
(***************************************************************************)
EXTENDS WebOperationsProofs, WellFoundedInduction

\* With a full outbox that turns down "running" the operation is reported as rejected
\* after it was accepted, and a later attempt can overtake that report.
RunningTaken == "running" \notin Refusable

Real == {"succeeded", "failed", "rejected"}

\* The server has recorded a report of an operation, or one that comes after it; until
\* then the outbox keeps the report.
Heard(o, to) ==
  \/ to = "accepted" /\ status[o] \notin Early \union {"none"}
  \/ to = "running" /\ status[o] \in Outcomes \union {"running"}
  \/ to \in Outcomes /\ Ended(o)
Kept(o, to) == \E f \in outbox : f.op = o /\ f.report = to
Fed(o, to) == Heard(o, to) \/ Kept(o, to)

\* The frames of the outbox are numbered.
NumberInv ==
  /\ outbox \subseteq Frames
  /\ \A f \in outbox : f.n \in Nat
  /\ \E b \in Nat : \A f \in outbox : f.n <= b
  /\ \A f, g \in outbox : f.n = g.n => f = g
CounterInv == losses \in Nat /\ reloads \in Nat /\ restarts \in Nat /\ refusals \in Nat

\* The steps of an execution, and what they say of its outcome.
StepInv ==
  /\ page.step \in {"accept", "execute"} => page.outcome = "none"
  /\ page.step = "run" => page.outcome \in {"none", "interrupted"}
  /\ \A o \in Ops : page.op = o /\ page.step = "report" /\ page.outcome \in Real => executed[o] > 0
  /\ \A o \in Ops : first[o] \in Real => executed[o] > 0

\* A confirmation says no more than the server's record does.
AckInv ==
  \A i \in 1..Len(acks) :
    /\ acks[i].status # "none"
    /\ acks[i].status \in Reports => Heard(acks[i].op, acks[i].status)

\* A report of an operation comes after those it follows from, in the outbox and on the
\* connection, unless the server has them; the first completion comes before the others.
BoxAfter(f, to) == \E g \in outbox : g.op = f.op /\ g.report = to /\ g.n < f.n
BoxInv ==
  \A f \in outbox :
    /\ f.report = "running" => Heard(f.op, "accepted") \/ BoxAfter(f, "accepted")
    /\ f.report \in Outcomes \ {"refused"} => Heard(f.op, "running") \/ BoxAfter(f, "running")
    /\ f.report \in Outcomes /\ ~Ended(f.op) => f.report = first[f.op] \/ BoxAfter(f, first[f.op])
    /\ f.report = "refused" => first[f.op] = "refused"
WireAfter(i, to) == \E j \in 1..(i - 1) : wire[j].op = wire[i].op /\ wire[j].report = to
WireInv ==
  \A i \in 1..Len(wire) :
    /\ wire[i].report = "running" => Heard(wire[i].op, "accepted") \/ WireAfter(i, "accepted")
    /\ wire[i].report \in Outcomes \ {"refused"}
         => Heard(wire[i].op, "running") \/ WireAfter(i, "running")
    /\ wire[i].report \in Outcomes /\ ~Ended(wire[i].op)
         => wire[i].report = first[wire[i].op] \/ WireAfter(i, first[wire[i].op])
    /\ wire[i].report = "refused" => first[wire[i].op] = "refused"

\* What was sent on the present connection has been recorded or is under way.
OnWire(o, to) == \E i \in 1..Len(wire) : wire[i].op = o /\ wire[i].report = to
SentInv ==
  link # "down" =>
    \A f \in outbox : f.sent => Heard(f.op, f.report) \/ OnWire(f.op, f.report)

\* How far the page believes an operation to be, the server knows or will be told.
PathInv ==
  \A o \in Ops :
    /\ queue[o] = "accepted" => Fed(o, "accepted")
    /\ <<o, "accepted">> \in snapshot => Fed(o, "accepted")
    /\ page.op = o /\ page.step = "run" => Fed(o, "accepted")
    /\ queue[o] = "running" => Fed(o, "running")
    /\ <<o, "running">> \in snapshot => Fed(o, "running")
    /\ page.op = o /\ page.step = "execute" => Fed(o, "running")
    /\ page.op = o /\ page.step = "report" /\ page.outcome # "refused" => Fed(o, "running")

\* A request for an operation that is new to the helper says what the record says.
AskedInv ==
  \A o \in Ops : o \notin known =>
    /\ <<o, "accepted">> \in requests => status[o] = "accepted"
    /\ <<o, "running">> \in requests => status[o] = "running"

\* What the page takes for a new operation is one of which nothing was reported yet.
Fresh(o) ==
  /\ status[o] \in Early /\ first[o] = "none"
  /\ \A f \in outbox : f.op # o
  /\ \A i \in 1..Len(wire) : wire[i].op # o
Declining(o) == page.op = o /\ page.step = "report" /\ page.outcome = "refused"
FreshInv ==
  \A o \in Ops :
    /\ queue[o] \in Early => Fresh(o)
    /\ \A st \in Early : <<o, st>> \in snapshot => Fresh(o)
    /\ page.op = o /\ page.step = "accept" => Fresh(o)
    /\ Declining(o) => Fresh(o) /\ executed[o] <= lost[o]
    /\ o \notin known => first[o] = "none" \/ Ended(o)

\* An operation that was rejected beforehand is not taken up again.
RefusedInv ==
  \A o \in Ops : first[o] = "refused" =>
    /\ executed[o] <= lost[o]
    /\ queue[o] \notin Pending /\ ~Working(o)
    /\ \A st \in Pending : <<o, st>> \notin snapshot
    /\ \A f \in outbox : f.op = o => f.report = "refused"
    /\ \A i \in 1..Len(wire) : wire[i].op = o => wire[i].report = "refused"
    /\ \A i \in 1..Len(acks) : acks[i].op = o => acks[i].status \in {"refused", "error"}
    /\ ~Ended(o) => status[o] \in Early

TruthInv ==
  \A o \in Ops :
    /\ Ended(o) => status[o] = first[o]
    /\ "running" \in stages[o] => status[o] \in Outcomes \union {"running"}

\* Without a reload, a restart or a refused report nothing is interrupted.
Faultless == reloads = 0 /\ restarts = 0 /\ refusals = 0
Halfway == {"accepted", "running"}
InterruptInv ==
  Faultless => \A o \in Ops :
    /\ first[o] # "interrupted"
    /\ o \notin known => status[o] \in Early \union {"none"}
    /\ \A st \in Halfway : <<o, st>> \in snapshot => first[o] # "none"
    /\ page.op = o /\ page.outcome = "interrupted" => first[o] # "none"
    /\ queue[o] \in Halfway /\ ~Working(o) => first[o] # "none"
    /\ queue[o] \in Outcomes => first[o] # "none"

DownInv == link = "down" => requests = {} /\ wire = <<>> /\ acks = <<>>

Whole ==
  /\ Inv /\ NumberInv /\ CounterInv /\ StepInv /\ AckInv /\ BoxInv /\ WireInv /\ SentInv
  /\ PathInv /\ AskedInv /\ FreshInv /\ RefusedInv /\ TruthInv /\ InterruptInv

-----------------------------------------------------------------------------
(* Lemmas about single operators. *)

\* A set of naturals that is bounded has a greatest element.
LEMMA MaxNat ==
  ASSUME NEW S, NEW b \in Nat, \A s \in S : s \in Nat /\ s <= b, S # {}
  PROVE  Max(S) \in S /\ \A s \in S : s <= Max(S)
<1>1. IsWellFoundedOn(OpToRel(<, Nat), Nat)
  BY NatLessThanWellFounded, Zenon
<1> DEFINE T == {b - s : s \in S}
<1>2. T \subseteq Nat /\ T # {}
  OBVIOUS
<1>3. PICK x \in T : \A y \in T : ~ (<<y, x>> \in OpToRel(<, Nat))
  BY <1>1, <1>2, WFMin, Zenon
<1>4. \A y \in T : ~ (y < x)
  BY <1>2, <1>3 DEF OpToRel
<1>5. PICK m \in S : x = b - m
  OBVIOUS
<1>6. \A s \in S : s <= m
  <2> SUFFICES ASSUME NEW s \in S PROVE s <= m
    OBVIOUS
  <2>1. b - s \in T
    OBVIOUS
  <2>2. ~ (b - s < b - m)
    BY <2>1, <1>4, <1>5
  <2>3. s \in Nat /\ m \in Nat
    BY <1>5
  <2> QED  BY <2>2, <2>3
<1>7. \A s \in S : m >= s
  BY <1>6, <1>5
<1>8. m \in S
  BY <1>5
<1> HIDE DEF T
<1> QED  BY <1>6, <1>7, <1>8 DEF Max

\* The numbers of the outbox do not exceed the newest one.
LEMMA NewestBound ==
  ASSUME NumberInv
  PROVE  Newest \in Nat /\ \A f \in outbox : f.n <= Newest
<1>1. CASE outbox = {}
  BY <1>1 DEF Newest
<1>2. CASE outbox # {}
  <2> DEFINE S == {f.n : f \in outbox}
  <2>1. PICK b \in Nat : \A f \in outbox : f.n <= b
    BY DEF NumberInv
  <2>2. S # {} /\ \A s \in S : s \in Nat /\ s <= b
    BY <1>2, <2>1 DEF NumberInv
  <2>3. Max(S) \in S /\ \A s \in S : s <= Max(S)
    BY <2>2, MaxNat
  <2>4. Newest = Max(S)
    BY <1>2 DEF Newest
  <2>5. \A f \in outbox : f.n \in S
    OBVIOUS
  <2> HIDE DEF S
  <2> QED  BY <2>2, <2>3, <2>4, <2>5
<1> QED  BY <1>1, <1>2

\* A report joins the outbox behind all others, not yet sent.
LEMMA Joins ==
  ASSUME NumberInv, NEW o \in Ops, NEW to \in Reports, Report(o, to)
  PROVE  \E g \in Frames : /\ outbox' = outbox \union {g}
                           /\ g.op = o /\ g.report = to /\ g.sent = FALSE
                           /\ g.n \in Nat /\ \A f \in outbox : f.n < g.n
<1> DEFINE g == [n |-> Newest + 1, op |-> o, report |-> to, sent |-> FALSE]
<1>1. Newest \in Nat /\ \A f \in outbox : f.n <= Newest
  BY NewestBound
<1>2. outbox' = outbox \union {g}
  BY DEF Report
<1>3. g.op = o /\ g.report = to /\ g.sent = FALSE /\ g.n = Newest + 1
  OBVIOUS
<1>3a. g \in Frames
  BY <1>1 DEF Frames, Reports
<1>4. \A f \in outbox : f.n < g.n
  BY <1>1, <1>3 DEF NumberInv
<1> HIDE DEF g
<1> QED  BY <1>1, <1>2, <1>3, <1>3a, <1>4

\* What the server records, it records because it follows from what it had.
LEMMA RecordOnce ==
  ASSUME Shape, ServerInv, NEW o \in Ops, NEW to \in Statuses \ {"submitted"}, Record(o, to)
  PROVE  /\ status'[o] = status[o] \/ (status'[o] = to /\ Allowed(o, to))
         /\ \A t \in Reports : Heard(o, t) => Heard(o, t)'
<1>1. status'[o] = status[o] \/ (status'[o] = to /\ Allowed(o, to))
  BY DEF Record, Shape, NetShape
<1>2. to # "none" /\ (to \notin Early \/ to = "waiting")
  BY DEF Statuses, Pending, Outcomes, Early
<1>3. Allowed(o, to) => \/ status[o] \in Early
                        \/ status[o] = "accepted" /\ to = "running"
                        \/ status[o] = "running" /\ to \in Outcomes
  BY DEF Allowed, Transition, StatusOf, Statuses, Pending, Outcomes, Early
<1> QED
  BY <1>1, <1>2, <1>3 DEF Heard, Ended, Early, Outcomes

\* What the server has heard of, it does not forget.
LEMMA HeardStep ==
  ASSUME Inv, [Next]_vars
  PROVE  \A o \in Ops, t \in Reports : Heard(o, t) => Heard(o, t)'
<1>0. \A o \in Ops, t \in Reports : Heard(o, t) => status[o] # "none"
  BY DEF Heard, Ended, Outcomes
<1>1. ASSUME NEW p \in Ops, Create(p)
      PROVE  \A o \in Ops, t \in Reports : Heard(o, t) => Heard(o, t)'
  <2>1. \A o \in Ops : status[o] # "none" => status'[o] = status[o]
    BY <1>1 DEF Create, Inv, Shape, NetShape
  <2> QED  BY <1>0, <2>1 DEF Heard, Ended
<1>2. ASSUME NEW p \in Ops, Dispatch(p)
      PROVE  \A o \in Ops, t \in Reports : Heard(o, t) => Heard(o, t)'
  <2>0. "waiting" \in Statuses \ {"submitted"}
    BY DEF Statuses, Pending, Early
  <2>1. CASE Record(p, "waiting")
    <3>1. \A t \in Reports : Heard(p, t) => Heard(p, t)'
      BY <2>0, <2>1, RecordOnce DEF Inv
    <3>2. \A o \in Ops \ {p} : status'[o] = status[o]
      BY <2>0, <2>1, RecordEffect DEF Inv
    <3> QED  BY <3>1, <3>2 DEF Heard, Ended
  <2>2. CASE status' = status
    BY <2>2 DEF Heard, Ended
  <2> QED  BY <1>2, <2>1, <2>2 DEF Dispatch
<1>3. ASSUME HandleUpdate
      PROVE  \A o \in Ops, t \in Reports : Heard(o, t) => Heard(o, t)'
  <2> DEFINE f == Head(wire)
  <2>1. f \in [op : Ops, report : Reports]
    BY <1>3, HeadTail DEF HandleUpdate, Inv, Shape, NetShape
  <2>2. f.op \in Ops /\ f.report \in Statuses \ {"submitted"}
    BY <2>1 DEF Reports, Early
  <2>3. Record(f.op, f.report)
    BY <1>3 DEF HandleUpdate
  <2> HIDE DEF f
  <2>a. PICK p \in Ops, to \in Statuses \ {"submitted"} : Record(p, to)
    BY <2>2, <2>3
  <2>4. \A t \in Reports : Heard(p, t) => Heard(p, t)'
    BY <2>a, RecordOnce DEF Inv
  <2>5. \A o \in Ops \ {p} : status'[o] = status[o]
    BY <2>a, RecordEffect DEF Inv
  <2> QED  BY <2>4, <2>5 DEF Heard, Ended
<1>4. CASE status' = status
  BY <1>4 DEF Heard, Ended
<1>5. \/ \E o \in Ops : Create(o) \/ Dispatch(o)
      \/ HandleUpdate
      \/ status' = status
  BY PageCalls DEF Next, Serve, Relay, Work, Resend, Connect, SendNext, TakeRequest, TakeAck,
    TakeError, Take, Begin, Execute, Lose, Reload, Restart, Inv, vars, server
<1> QED  BY <1>1, <1>2, <1>3, <1>4, <1>5

\* The same of the next state, for a report named by an expression of this one.
HeardNext(o, to) ==
  \/ to = "accepted" /\ status'[o] \notin Early \union {"none"}
  \/ to = "running" /\ status'[o] \in Outcomes \union {"running"}
  \/ to \in Outcomes /\ status'[o] \in Outcomes
LEMMA HeardOn ==
  ASSUME Inv, [Next]_vars
  PROVE  \A o \in Ops, t \in Reports : Heard(o, t) => HeardNext(o, t)
  BY HeardStep DEF Heard, HeardNext, Ended

\* Two frames that differ at most in having been sent.
Same(f, g) == f.n = g.n /\ f.op = g.op /\ f.report = g.report

\* The page works on an operation, its report names one, and the reports are among those.
LEMMA Calls ==
  ASSUME Inv
  PROVE  /\ Accept => page.op \in Ops /\ "accepted" \in Reports
         /\ Run => page.op \in Ops /\ "running" \in Reports
         /\ Complete => page.op \in Ops /\ page.outcome \in Reports /\ page.outcome \in Outcomes
         /\ Execute => page.op \in Ops
<1>1. /\ page.step # "rest" => page.op \in Ops
      /\ page.step = "report" => page.outcome \in Outcomes
  BY DEF Inv, Shape, PageShape
<1>2. {"accepted", "running"} \subseteq Reports /\ Outcomes \subseteq Reports
  BY DEF Reports, Statuses, Pending, Outcomes, Early
<1> QED  BY <1>1, <1>2 DEF Accept, Run, Complete, Execute

\* A report of the page, or nothing new in the outbox.
Reporting(o, to) ==
  \/ Accept /\ o = page.op /\ to = "accepted" /\ Report(o, to) /\ page' = [page EXCEPT !.step = "run"]
  \/ /\ Run /\ o = page.op /\ to = "running" /\ Report(o, to)
     /\ page' = [page EXCEPT !.step = IF page.outcome = "none" THEN "execute" ELSE "report"]
  \/ Complete /\ o = page.op /\ to = page.outcome /\ Report(o, to) /\ page' = Resting

\* What a step does to the outbox.
LEMMA BoxStep ==
  ASSUME Inv, [Next]_vars
  PROVE  \/ \E o \in Ops, to \in Reports : Reporting(o, to)
         \/ Restart
         \/ /\ \A h \in outbox' : \E f \in outbox : Same(h, f)
            /\ \A f \in outbox : (\E h \in outbox' : Same(h, f)) \/ Confirmed(f, Head(acks).status)
            /\ outbox' = outbox \/ Connect \/ SendNext \/ TakeAck
            /\ (\A f \in outbox : (\E h \in outbox' : Same(h, f)))
                 \/ (TakeAck /\ \A f \in outbox : f.op # Head(acks).op => f \in outbox')
            /\ first' = first
<1>0. \A f \in outbox : Same(f, f)
  BY DEF Same
<1>1. CASE UNCHANGED <<outbox, first>>
  BY <1>1, <1>0
<1>2. CASE Connect
  <2>1. outbox' = {Marked(f, FALSE) : f \in outbox} /\ first' = first
    BY <1>2 DEF Connect, history
  <2>2. \A f \in outbox : Same(Marked(f, FALSE), f) /\ Marked(f, FALSE) \in outbox'
    BY <2>1 DEF Same, Marked
  <2>3. \A h \in outbox' : \E f \in outbox : Same(h, f)
    BY <2>1, <2>2
  <2> QED  BY <1>2, <2>1, <2>2, <2>3
<1>3. CASE SendNext
  <2>1. PICK f \in outbox : outbox' = (outbox \ {f}) \union {Marked(f, TRUE)}
    BY <1>3 DEF SendNext
  <2>2. Same(Marked(f, TRUE), f) /\ first' = first
    BY <1>3 DEF Same, Marked, SendNext, history
  <2>3. \A h \in outbox' : \E g \in outbox : Same(h, g)
    BY <2>1, <2>2, <1>0
  <2>4. \A g \in outbox : \E h \in outbox' : Same(h, g)
    BY <2>1, <2>2, <1>0
  <2> QED  BY <1>3, <2>2, <2>3, <2>4
<1>4. CASE TakeAck
  <2>1. /\ outbox' = {f \in outbox : f.op # Head(acks).op \/ ~Confirmed(f, Head(acks).status)}
        /\ first' = first
    BY <1>4 DEF TakeAck, history
  <2> QED  BY <1>4, <2>1, <1>0
<1>5. CASE Accept
  BY <1>5, <1>1, Calls DEF Accept, Reporting, Refuse
<1>6. CASE Run
  BY <1>6, <1>1, Calls DEF Run, Reporting, Refuse
<1>7. CASE Complete
  BY <1>7, <1>1, Calls DEF Complete, Reporting, Refuse
<1> QED
  <2>1. (\E o \in Ops : Create(o) \/ Dispatch(o)) => UNCHANGED <<outbox, first>>
    BY DEF Create, Dispatch, helper, history
  <2>2. Resend \/ HandleUpdate \/ Lose \/ TakeRequest \/ TakeError => UNCHANGED <<outbox, first>>
    BY DEF Resend, HandleUpdate, Lose, TakeRequest, TakeError, helper, history
  <2>3. Take \/ Begin \/ Execute \/ Reload => UNCHANGED <<outbox, first>>
    BY DEF Take, Begin, Execute, Reload, helper, history
  <2>4. UNCHANGED vars => UNCHANGED <<outbox, first>>
    BY DEF vars, helper, history
  <2> QED
    BY <1>1, <1>2, <1>3, <1>4, <1>5, <1>6, <1>7, <2>1, <2>2, <2>3, <2>4 DEF Next, Serve, Relay, Work

\* The outbox lets go of what the server has heard of, and of nothing else.
LEMMA FrameKeep ==
  ASSUME Inv, AckInv, [Next]_vars, ~Restart
  PROVE  \A f \in outbox : (\E h \in outbox' : Same(h, f)) \/ Heard(f.op, f.report)'
<1> SUFFICES ASSUME NEW f \in outbox, \A h \in outbox' : ~Same(h, f)
             PROVE  Heard(f.op, f.report)'
  OBVIOUS
<1>1. f.op \in Ops /\ f.report \in Reports
  BY DEF Inv, Shape, HelperShape
<1>2. ~ \E o \in Ops, to \in Reports : Reporting(o, to)
  <2> SUFFICES ASSUME NEW o \in Ops, NEW to \in Reports, Reporting(o, to) PROVE FALSE
    OBVIOUS
  <2>1. outbox \subseteq outbox'
    BY DEF Reporting, Report
  <2> QED  BY <2>1 DEF Same
<1>3. TakeAck /\ f.op = Head(acks).op /\ Confirmed(f, Head(acks).status)
  <2>1. f \notin outbox'
    BY DEF Same
  <2> QED  BY <1>2, <2>1, BoxStep
<1>4. /\ acks \in Seq([op : Ops, status : Statuses \union {"none", "error"}])
      /\ acks # <<>>
  BY <1>3 DEF TakeAck, Inv, Shape, NetShape
<1>5. Head(acks) = acks[1] /\ 1 \in 1..Len(acks)
  BY <1>4, HeadTail
<1>6. acks[1].status # "error" /\ acks[1].status \in Statuses \union {"none", "error"}
  <2>1. acks[1].status # "error"
    BY <1>3, <1>5 DEF TakeAck
  <2>2. acks[1] \in [op : Ops, status : Statuses \union {"none", "error"}]
    BY <1>4, <1>5, Elements
  <2> QED  BY <2>1, <2>2
<1>7. acks[1].status \in Reports
  <2>1. acks[1].status \notin Early
    BY <1>5 DEF Inv, ServerInv
  <2>2. acks[1].status # "none"
    BY <1>5 DEF AckInv
  <2> QED  BY <1>6, <2>1, <2>2 DEF Reports
<1>8. Heard(f.op, acks[1].status)
  BY <1>3, <1>5, <1>7 DEF AckInv
<1>9. Heard(f.op, f.report)
  BY <1>3, <1>5, <1>7, <1>8 DEF Confirmed, Heard, Ended, Reports, Statuses, Pending, Outcomes, Early
<1> QED  BY <1>1, <1>9, HeardStep

\* The numbers stay numbers, and no two frames get the same one.
LEMMA NumberStep == Inv /\ NumberInv /\ [Next]_vars => NumberInv'
<1> SUFFICES ASSUME Inv, NumberInv, [Next]_vars PROVE NumberInv'
  OBVIOUS
<1>0. /\ outbox \subseteq Frames /\ \A f \in outbox : f.n \in Nat
      /\ \E b \in Nat : \A f \in outbox : f.n <= b
      /\ \A f, g \in outbox : f.n = g.n => f = g
  BY DEF NumberInv
<1>m. ASSUME NEW f \in outbox, NEW b \in BOOLEAN
      PROVE  Marked(f, b) \in Frames /\ Marked(f, b).n = f.n
  BY <1>0 DEF Marked, Frames
<1>1. CASE \E o \in Ops, to \in Reports : Reporting(o, to)
  <2>1. PICK o \in Ops : \E to \in Reports : Report(o, to)
    BY <1>1 DEF Reporting
  <2>2. PICK to \in Reports : Report(o, to)
    BY <2>1
  <2>3. PICK g \in Frames : /\ outbox' = outbox \union {g}
                            /\ g.n \in Nat /\ \A f \in outbox : f.n < g.n
    BY <2>2, Joins
  <2>4. \A f \in outbox' : f.n <= g.n
    BY <2>3, <1>0
  <2>5. outbox' \subseteq Frames /\ \A f \in outbox' : f.n \in Nat
    BY <2>3, <1>0
  <2>6. \A f, h \in outbox' : f.n = h.n => f = h
    BY <2>3, <1>0
  <2> QED  BY <2>3, <2>4, <2>5, <2>6 DEF NumberInv
<1>2. CASE Restart
  BY <1>2 DEF Restart, NumberInv
<1>3. CASE \A h \in outbox' : \E f \in outbox : Same(h, f)
  <2>1. \E b \in Nat : \A f \in outbox' : f.n <= b
    BY <1>3, <1>0 DEF Same
  <2>2. \A f \in outbox' : f.n \in Nat
    BY <1>3, <1>0 DEF Same
  <2>3. outbox' \subseteq Frames /\ (\A f, h \in outbox' : f.n = h.n => f = h)
    <3>1. CASE outbox' = outbox
      BY <3>1, <1>0
    <3>2. CASE Connect
      <4>1. outbox' = {Marked(f, FALSE) : f \in outbox}
        BY <3>2 DEF Connect
      <4>2. \A h \in outbox' : \E f \in outbox : h = Marked(f, FALSE) /\ h.n = f.n /\ h \in Frames
        BY <4>1, <1>m
      <4> QED  BY <4>2, <1>0
    <3>3. CASE SendNext
      <4>1. PICK f \in outbox : outbox' = (outbox \ {f}) \union {Marked(f, TRUE)}
        BY <3>3 DEF SendNext
      <4>2. Marked(f, TRUE).n = f.n /\ Marked(f, TRUE) \in Frames
        BY <1>m
      <4>3. outbox' \subseteq Frames
        BY <4>1, <4>2, <1>0
      <4>4. \A h, k \in outbox' : h.n = k.n => h = k
        BY <4>1, <4>2, <1>0
      <4> QED  BY <4>3, <4>4
    <3>4. CASE TakeAck
      <4>1. outbox' \subseteq outbox
        BY <3>4 DEF TakeAck
      <4> QED  BY <4>1, <1>0
    <3>5. CASE \E o \in Ops, to \in Reports : Reporting(o, to)
      BY <1>1, <3>5 DEF NumberInv
    <3>6. CASE Restart
      BY <1>2, <3>6 DEF NumberInv
    <3> QED  BY <3>1, <3>2, <3>3, <3>4, <3>5, <3>6, BoxStep
  <2> QED  BY <2>1, <2>2, <2>3 DEF NumberInv
<1> QED  BY <1>1, <1>2, <1>3, BoxStep

\* A first completion is reported when there is none in the outbox or on the connection;
\* otherwise what the first one was does not change in the helper's life.
LEMMA FirstStep ==
  ASSUME Inv, [Next]_vars, ~Restart
  PROVE  \A o \in Ops : \/ first'[o] = first[o]
                        \/ first[o] = "none" /\ Reporting(o, first'[o]) /\ first'[o] \in Outcomes
<1> SUFFICES ASSUME NEW o \in Ops, first'[o] # first[o]
             PROVE  first[o] = "none" /\ Reporting(o, first'[o]) /\ first'[o] \in Outcomes
  OBVIOUS
<1>1. PICK p \in Ops, to \in Reports : Reporting(p, to)
  BY BoxStep
<1>2. first' = [first EXCEPT ![p] = IF first[p] = "none" /\ to \in Outcomes THEN to ELSE first[p]]
  BY <1>1 DEF Reporting, Report
<1>3. p = o /\ first[o] = "none" /\ to \in Outcomes /\ first'[o] = to
  BY <1>2 DEF Inv, Shape, HelperShape
<1> QED  BY <1>1, <1>3

\* What a frame needs before it, in the next state.
Behind(h, to) ==
  HeardNext(h.op, to) \/ (\E g \in outbox' : g.op = h.op /\ g.report = to /\ g.n < h.n)
LEMMA BoxNext ==
  ASSUME \A h \in outbox' :
           /\ first'[h.op] \in Outcomes \union {"none"}
           /\ h.report = "running" => Behind(h, "accepted")
           /\ h.report \in Outcomes \ {"refused"} => Behind(h, "running")
           /\ h.report \in Outcomes /\ status'[h.op] \notin Outcomes
                => h.report = first'[h.op] \/ Behind(h, first'[h.op])
           /\ h.report = "refused" => first'[h.op] = "refused"
  PROVE  BoxInv'
<1> USE DEF Behind, HeardNext, Heard, Ended, BoxAfter
<1> SUFFICES ASSUME NEW h \in outbox'
             PROVE  /\ h.report = "running" => Heard(h.op, "accepted")' \/ BoxAfter(h, "accepted")'
                    /\ h.report \in Outcomes \ {"refused"}
                         => Heard(h.op, "running")' \/ BoxAfter(h, "running")'
                    /\ h.report \in Outcomes /\ ~Ended(h.op)'
                         => h.report = first'[h.op] \/ BoxAfter(h, first[h.op])'
                    /\ h.report = "refused" => first'[h.op] = "refused"
  BY DEF BoxInv
<1>1. h.report = "running" => Heard(h.op, "accepted")' \/ BoxAfter(h, "accepted")'
  OBVIOUS
<1>2. h.report \in Outcomes \ {"refused"} => Heard(h.op, "running")' \/ BoxAfter(h, "running")'
  OBVIOUS
<1>3. "accepted" \notin Outcomes \union {"none"} /\ "running" \notin Outcomes \union {"none"}
  BY DEF Outcomes
<1>4. h.report \in Outcomes /\ ~Ended(h.op)' => h.report = first'[h.op] \/ BoxAfter(h, first[h.op])'
  BY <1>3
<1> QED  BY <1>1, <1>2, <1>4

\* The order of the outbox: a report comes after those it follows from.
LEMMA BoxInvStep ==
  Whole /\ RunningTaken /\ [Next]_vars => BoxInv'
<1> SUFFICES ASSUME Whole, RunningTaken, [Next]_vars PROVE BoxInv'
  OBVIOUS
<1> USE DEF Whole
<1>h. \A f \in outbox : f.op \in Ops /\ f.report \in Reports /\ f.n \in Nat
  BY DEF Inv, Shape, HelperShape, NumberInv
<1>r. {"accepted", "running"} \subseteq Reports /\ "none" \notin Reports
  BY DEF Reports, Statuses, Pending, Outcomes, Early
<1>f. \A o \in Ops : first[o] \in Outcomes \union {"none"}
  BY DEF Inv, Shape, HelperShape
<1>o. Outcomes \subseteq Reports
  BY DEF Reports, Statuses, Pending, Outcomes, Early
<1>n. NumberInv
  OBVIOUS
<1>g. \A h \in outbox' : first'[h.op] \in Outcomes \union {"none"}
  BY ShapeStep DEF Inv, Shape, HelperShape
<1>1. CASE Restart
  BY <1>1 DEF Restart, BoxInv
<1>2. CASE ~Restart
  <2>1. ASSUME NEW f \in outbox, NEW to \in Reports, Heard(f.op, to) \/ BoxAfter(f, to)
        PROVE  Behind(f, to)
    <3>1. CASE Heard(f.op, to)
      BY <3>1, <1>h, HeardOn DEF Behind
    <3>2. CASE BoxAfter(f, to)
      <4>1. PICK g \in outbox : g.op = f.op /\ g.report = to /\ g.n < f.n
        BY <3>2 DEF BoxAfter
      <4>2. CASE Heard(g.op, g.report)'
        BY <4>1, <4>2 DEF Heard, Ended, HeardNext, Behind
      <4>3. CASE \E k \in outbox' : Same(k, g)
        <5>1. PICK k \in outbox' : k.n = g.n /\ k.op = g.op /\ k.report = g.report
          BY <4>3 DEF Same
        <5> QED  BY <4>1, <5>1 DEF Behind
      <4> QED  BY <1>2, <4>2, <4>3, FrameKeep
    <3> QED  BY <2>1, <3>1, <3>2
  <2>2. ASSUME NEW f \in outbox, f.report \in Outcomes, first[f.op] = "none" PROVE Ended(f.op)
    <3>1. ~BoxAfter(f, "none") /\ f.report # "none"
      BY <1>h, <1>r DEF BoxAfter
    <3> QED  BY <2>2, <3>1 DEF BoxInv
  <2>3. ASSUME NEW f \in outbox
        PROVE  /\ f.report = "running" => Behind(f, "accepted")
               /\ f.report \in Outcomes \ {"refused"} => Behind(f, "running")
               /\ f.report \in Outcomes /\ ~Ended(f.op) => f.report = first[f.op] \/ Behind(f, first[f.op])
               /\ f.report = "refused" => first[f.op] = "refused"
    <3>1. f.report = "running" => Behind(f, "accepted")
      BY <2>1, <1>r DEF BoxInv
    <3>2. f.report \in Outcomes \ {"refused"} => Behind(f, "running")
      BY <2>1, <1>r DEF BoxInv
    <3>3. f.report \in Outcomes /\ ~Ended(f.op) => f.report = first[f.op] \/ Behind(f, first[f.op])
      <4> SUFFICES ASSUME f.report \in Outcomes, ~Ended(f.op), f.report # first[f.op]
                   PROVE  Behind(f, first[f.op])
        OBVIOUS
      <4>1. first[f.op] \in Reports
        BY <2>2, <1>h, <1>f, <1>o
      <4>2. BoxAfter(f, first[f.op])
        BY DEF BoxInv
      <4> QED  BY <2>1, <4>1, <4>2
    <3>4. f.report = "refused" => first[f.op] = "refused"
      BY DEF BoxInv
    <3> QED  BY <3>1, <3>2, <3>3, <3>4
  <2>e. \A o \in Ops : Ended(o) => status'[o] \in Outcomes
    BY StatusStep DEF Ended
  <2>4. ASSUME NEW f \in outbox
        PROVE  /\ f.report \in Outcomes /\ status'[f.op] \notin Outcomes
                    => f.report = first'[f.op] \/ Behind(f, first'[f.op])
               /\ f.report = "refused" => first'[f.op] = "refused"
    <3>1. CASE first'[f.op] = first[f.op]
      BY <2>3, <2>e, <3>1, <1>h
    <3>2. CASE first[f.op] = "none"
      BY <2>2, <2>3, <2>e, <1>o, <3>2, <1>h
    <3> QED  BY <3>1, <3>2, <1>2, <1>h, FirstStep
  <2>5. CASE \A h \in outbox' : \E f \in outbox : Same(h, f)
    <3> SUFFICES ASSUME NEW h \in outbox'
                 PROVE  /\ h.report = "running" => Behind(h, "accepted")
                        /\ h.report \in Outcomes \ {"refused"} => Behind(h, "running")
                        /\ h.report \in Outcomes /\ status'[h.op] \notin Outcomes
                             => h.report = first'[h.op] \/ Behind(h, first'[h.op])
                        /\ h.report = "refused" => first'[h.op] = "refused"
      BY <1>g, BoxNext
    <3>1. PICK f \in outbox : h.n = f.n /\ h.op = f.op /\ h.report = f.report
      BY <2>5 DEF Same
    <3>2. ASSUME NEW to, Behind(f, to) PROVE Behind(h, to)
      BY <3>1, <3>2 DEF Behind
    <3> QED  BY <3>1, <3>2, <2>3, <2>4
  <2>6. CASE \E o \in Ops, to \in Reports : Reporting(o, to)
    <3>1. PICK o \in Ops : \E to \in Reports : Reporting(o, to)
      BY <2>6
    <3>2. PICK to \in Reports : Reporting(o, to)
      BY <3>1
    <3>3. Report(o, to)
      BY <3>2 DEF Reporting
    <3>4. PICK g \in Frames : /\ outbox' = outbox \union {g}
                              /\ g.op = o /\ g.report = to /\ \A f \in outbox : f.n < g.n
      BY <1>n, <3>3, Joins
    <3>5. ASSUME NEW t \in Reports, Fed(o, t) PROVE Behind(g, t)
      <4>1. CASE Heard(o, t)
        BY <3>4, <4>1, HeardOn DEF Behind
      <4>2. CASE Kept(o, t)
        BY <3>4, <4>2 DEF Kept, Behind
      <4> QED  BY <3>5, <4>1, <4>2 DEF Fed
    <3>6. g.report = "running" => Behind(g, "accepted")
      <4>1. to = "running" => page.step = "run" /\ page.op = o
        BY <3>2, Calls DEF Reporting, Run, Outcomes
      <4> QED  BY <3>4, <3>5, <4>1, <1>r DEF PathInv
    <3>7. to \in Outcomes => page.step = "report" /\ page.op = o /\ page.outcome = to
      BY <3>2 DEF Reporting, Complete, Outcomes
    <3>8. g.report \in Outcomes \ {"refused"} => Behind(g, "running")
      BY <3>4, <3>5, <3>7, <1>r DEF PathInv
    <3>9. first' = [first EXCEPT ![o] = IF first[o] = "none" /\ to \in Outcomes THEN to ELSE first[o]]
      BY <3>3 DEF Report
    <3>10. first'[o] = IF first[o] = "none" /\ to \in Outcomes THEN to ELSE first[o]
      BY <3>9 DEF Inv, Shape, HelperShape
    <3>11. g.report \in Outcomes /\ status'[g.op] \notin Outcomes
             => g.report = first'[g.op] \/ Behind(g, first'[g.op])
      <4> SUFFICES ASSUME to \in Outcomes, status'[o] \notin Outcomes
                   PROVE  to = first'[o] \/ Behind(g, first'[o])
        BY <3>4
      <4>1. CASE first[o] = "none"
        BY <3>10, <4>1
      <4>2. CASE first[o] # "none"
        <5>1. Kept(o, first[o]) /\ first[o] \in Reports
          BY <4>2, <2>e, <1>f, <1>o DEF Inv, CompletionKept, Kept
        <5> QED  BY <5>1, <4>2, <3>5, <3>10 DEF Fed
      <4> QED  BY <4>1, <4>2
    <3>12. g.report = "refused" => first'[g.op] = "refused"
      <4>1. to = "refused" => first[o] = "none" /\ to \in Outcomes
        BY <3>7 DEF FreshInv, Declining, Fresh, Outcomes
      <4> QED  BY <3>4, <3>10, <4>1
    <3> SUFFICES ASSUME NEW h \in outbox'
                 PROVE  /\ h.report = "running" => Behind(h, "accepted")
                        /\ h.report \in Outcomes \ {"refused"} => Behind(h, "running")
                        /\ h.report \in Outcomes /\ status'[h.op] \notin Outcomes
                             => h.report = first'[h.op] \/ Behind(h, first'[h.op])
                        /\ h.report = "refused" => first'[h.op] = "refused"
      BY <1>g, BoxNext
    <3>13. CASE h = g
      BY <3>6, <3>8, <3>11, <3>12, <3>13
    <3>14. CASE h \in outbox
      BY <2>3, <2>4, <3>14
    <3> QED  BY <3>4, <3>13, <3>14
  <2> QED  BY <1>2, <2>5, <2>6, BoxStep
<1> QED  BY <1>1, <1>2

-----------------------------------------------------------------------------
(* The connection. *)

\* The server's handling of a report is to the effect that it has heard of it: the
\* order of the connection leaves no report that does not follow from the record.
LEMMA HandleFacts ==
  ASSUME Whole, HandleUpdate
  PROVE  \E o \in Ops, r \in Reports :
           /\ 1 \in 1..Len(wire) /\ wire[1].op = o /\ wire[1].report = r /\ o \in known
           /\ \A i \in 1..Len(wire') : i + 1 \in 1..Len(wire) /\ wire'[i] = wire[i + 1]
           /\ \A i \in 1..Len(wire) : i # 1 => i - 1 \in 1..Len(wire') /\ wire'[i - 1] = wire[i]
           /\ \A p \in Ops \ {o} : status'[p] = status[p] /\ stages'[p] = stages[p]
           /\ status'[o] = status[o] \/ (status'[o] = r /\ Allowed(o, r))
           /\ stages'[o] = stages[o] \/ (status'[o] = r /\ stages'[o] = stages[o] \union ({r} \intersect Halfway))
           /\ HeardNext(o, r)
           /\ ~Ended(o) /\ status'[o] \in Outcomes => status'[o] = first[o]
           /\ \/ acks' = Append(acks, [op |-> o, status |-> "error"])
              \/ acks' = Append(acks, [op |-> o, status |-> status'[o]])
<1> DEFINE f == Head(wire)
<1>1. /\ f \in [op : Ops, report : Reports] /\ f = wire[1] /\ 1 \in 1..Len(wire)
      /\ \A i \in 1..Len(wire') : i + 1 \in 1..Len(wire) /\ wire'[i] = wire[i + 1]
  BY HeadTail DEF HandleUpdate, Whole, Inv, Shape, NetShape
<1>2. \A i \in 1..Len(wire) : i # 1 => i - 1 \in 1..Len(wire') /\ wire'[i - 1] = wire[i]
  <2>1. wire \in Seq([op : Ops, report : Reports]) /\ wire # <<>> /\ wire' = Tail(wire)
    BY DEF HandleUpdate, Whole, Inv, Shape, NetShape
  <2> QED  BY <2>1
<1>3. PICK o \in Ops : \E r \in Reports : o = f.op /\ r = f.report
  BY <1>1
<1>4. PICK r \in Reports : o = f.op /\ r = f.report
  BY <1>3
<1>5. /\ Record(o, r)
      /\ \/ acks' = Append(acks, [op |-> o, status |-> "error"])
         \/ acks' = Append(acks, [op |-> o, status |-> status'[o]])
  BY <1>4 DEF HandleUpdate
<1>6. wire[1].op = o /\ wire[1].report = r
  BY <1>1, <1>4
<1> HIDE DEF f
<1>7. o \in known /\ status[o] # "none"
  <2>1. o \in known
    BY <1>1, <1>6 DEF Whole, Inv, KnownInv
  <2> QED  BY <2>1 DEF Whole, Inv, RequestInv
<1>8. r \in Statuses \ {"submitted"} /\ r \notin Early
  BY DEF Reports, Early
<1>9. /\ status'[o] = status[o] \/ (status'[o] = r /\ Allowed(o, r))
      /\ \A t \in Reports : Heard(o, t) => Heard(o, t)'
      /\ \A p \in Ops \ {o} : status'[p] = status[p] /\ stages'[p] = stages[p]
  BY <1>5, <1>8, RecordOnce, RecordEffect DEF Whole, Inv
<1>10. stages'[o] = stages[o] \/ (status'[o] = r /\ stages'[o] = stages[o] \union ({r} \intersect Halfway))
  BY <1>5 DEF Record, Whole, Inv, Shape, NetShape, Halfway
<1>11. ~ WireAfter(1, "accepted") /\ ~ WireAfter(1, "running") /\ ~ WireAfter(1, first[o])
  BY DEF WireAfter
<1>12. stages[o] \subseteq {"accepted", "running"} /\ status[o] \in Statuses
  BY <1>7 DEF Whole, Inv, Shape, NetShape
<1>13. ~Repeated(o, r) /\ Allowed(o, r) => status'[o] = r
  BY <1>5 DEF Record, Whole, Inv, Shape, NetShape
<1>14. Heard(o, r) => HeardNext(o, r)
  BY <1>9 DEF Heard, HeardNext, Ended
<1>15. CASE r = "accepted"
  <2>1. CASE status[o] \in Early
    <3>1. stages[o] = {}
      BY <2>1 DEF Whole, Inv, ServerInv
    <3>2. ~Repeated(o, r) /\ Allowed(o, r)
      BY <1>15, <2>1, <3>1 DEF Repeated, Allowed, Transition, StatusOf, Early
    <3> QED  BY <1>1, <1>2, <1>5, <1>6, <1>7, <1>9, <1>10, <1>13, <1>15, <3>2 DEF HeardNext, Early, Outcomes
  <2>2. CASE status[o] \notin Early
    <3>1. Heard(o, r)
      BY <1>7, <1>15, <2>2 DEF Heard
    <3>2. ~Ended(o) => status'[o] \notin Outcomes
      BY <1>9, <1>15 DEF Ended, Outcomes
    <3> QED  BY <1>1, <1>2, <1>5, <1>6, <1>7, <1>9, <1>10, <1>14, <3>1, <3>2
  <2> QED  BY <2>1, <2>2
<1>16. CASE r = "running"
  <2>1. Heard(o, "accepted")
    BY <1>1, <1>6, <1>11, <1>16 DEF Whole, WireInv
  <2>2. ~Ended(o) => status'[o] \notin Outcomes
    BY <1>9, <1>16 DEF Ended, Outcomes
  <2>3. CASE Heard(o, "running")
    BY <1>1, <1>2, <1>5, <1>6, <1>7, <1>9, <1>10, <1>14, <1>16, <2>2, <2>3
  <2>4. CASE ~Heard(o, "running")
    <3>1. status[o] = "accepted"
      BY <1>12, <2>1, <2>4 DEF Heard, Ended, Statuses, Pending
    <3>2. "running" \notin stages[o]
      BY <3>1 DEF Whole, TruthInv, Outcomes
    <3>3. ~Repeated(o, r) /\ Allowed(o, r)
      BY <1>16, <3>1, <3>2 DEF Repeated, Allowed, Transition, StatusOf, Early
    <3> QED  BY <1>1, <1>2, <1>5, <1>6, <1>7, <1>9, <1>10, <1>13, <1>16, <2>2, <3>3 DEF HeardNext
  <2> QED  BY <2>3, <2>4
<1>17. CASE r \in Outcomes
  <2>1. CASE Ended(o)
    <3>1. HeardNext(o, r)
      BY <1>14, <1>17, <2>1 DEF Heard
    <3> QED  BY <1>1, <1>2, <1>5, <1>6, <1>7, <1>9, <1>10, <2>1, <3>1
  <2>2. CASE ~Ended(o)
    <3>1. r = first[o]
      BY <1>1, <1>6, <1>11, <1>17, <2>2 DEF Whole, WireInv
    <3>2. r # "refused" => status[o] = "running"
      <4>1. r # "refused" => Heard(o, "running")
        BY <1>1, <1>6, <1>11, <1>17 DEF Whole, WireInv
      <4> QED  BY <4>1, <2>2 DEF Heard, Ended, Outcomes
    <3>3. r = "refused" => status[o] \in Early
      BY <2>2, <3>1 DEF Whole, RefusedInv
    <3>4. r \notin stages[o]
      BY <1>12, <1>17 DEF Outcomes
    <3>5. ~Repeated(o, r) /\ Allowed(o, r)
      BY <1>17, <3>2, <3>3, <3>4 DEF Repeated, Allowed, Transition, StatusOf, Outcomes, Early
    <3>6. status'[o] = r /\ HeardNext(o, r)
      BY <1>13, <1>17, <3>5 DEF HeardNext
    <3> QED  BY <1>1, <1>2, <1>5, <1>6, <1>7, <1>9, <1>10, <3>1, <3>6
  <2> QED  BY <2>1, <2>2
<1> QED  BY <1>15, <1>16, <1>17 DEF Reports, Statuses, Pending

\* Apart from the sending and the handling of a frame, the connection is kept or lost.
LEMMA WireStep ==
  ASSUME Inv, [Next]_vars
  PROVE  /\ HandleUpdate \/ SendNext \/ UNCHANGED wire \/ (wire' = <<>> /\ link' = "down")
         /\ HandleUpdate \/ TakeAck \/ UNCHANGED acks \/ acks' = <<>>
         /\ link' = link \/ Connect \/ Resend \/ link' = "down"
<1>1. CASE Lose \/ TakeError \/ Restart
  BY <1>1 DEF Lose, TakeError, Restart, Cut
<1>2. CASE Accept \/ Run \/ Complete
  BY <1>2, PageCalls DEF Inv, net
<1>3. (\E o \in Ops : Create(o) \/ Dispatch(o)) => UNCHANGED <<wire, acks, link>>
  BY DEF Create, Dispatch, net
<1>4. Resend \/ Connect => UNCHANGED <<wire, acks>>
  BY DEF Resend, Connect
<1>5. SendNext => UNCHANGED <<acks, link>>
  BY DEF SendNext
<1>5a. HandleUpdate => UNCHANGED link
  BY DEF HandleUpdate
<1>6. TakeAck => UNCHANGED <<wire, link>>
  BY DEF TakeAck
<1>7. TakeRequest \/ Take \/ Begin \/ Execute \/ Reload => UNCHANGED <<wire, acks, link>>
  BY DEF TakeRequest, Take, Begin, Execute, Reload, net
<1>8. UNCHANGED vars => UNCHANGED <<wire, acks, link>>
  BY DEF vars, net
<1> QED
  BY <1>1, <1>2, <1>3, <1>4, <1>5, <1>5a, <1>6, <1>7, <1>8 DEF Next, Serve, Relay, Work

\* What the next frame to be sent needs before it, the server has or the connection holds.
LEMMA SendFacts ==
  ASSUME Whole, SendNext
  PROVE  \E f \in outbox :
           /\ outbox' = (outbox \ {f}) \union {Marked(f, TRUE)}
           /\ f.op \in Ops /\ f.report \in Reports
           /\ Len(wire') = Len(wire) + 1
           /\ \A i \in 1..Len(wire) : wire'[i] = wire[i]
           /\ wire'[Len(wire) + 1].op = f.op /\ wire'[Len(wire) + 1].report = f.report
           /\ UNCHANGED <<status, stages, first, link, acks>>
           /\ \A t : BoxAfter(f, t) => t \in Reports /\ (Heard(f.op, t) \/ OnWire(f.op, t))
<1>1. PICK f \in outbox :
         /\ ~f.sent /\ \A g \in outbox : g.n < f.n => g.sent
         /\ wire' = Append(wire, [op |-> f.op, report |-> f.report])
         /\ outbox' = (outbox \ {f}) \union {Marked(f, TRUE)}
  BY DEF SendNext
<1>2. f.op \in Ops /\ f.report \in Reports
  BY DEF Whole, Inv, Shape, HelperShape
<1>3. wire \in Seq([op : Ops, report : Reports])
  BY DEF Whole, Inv, Shape, NetShape
<1>4. /\ Len(wire') = Len(wire) + 1
      /\ \A i \in 1..Len(wire) : wire'[i] = wire[i]
      /\ wire'[Len(wire) + 1] = [op |-> f.op, report |-> f.report]
  BY <1>1, <1>2, <1>3
<1>4a. wire'[Len(wire) + 1].op = f.op /\ wire'[Len(wire) + 1].report = f.report
  BY <1>4
<1>5. \A t : BoxAfter(f, t) => t \in Reports /\ (Heard(f.op, t) \/ OnWire(f.op, t))
  <2> SUFFICES ASSUME NEW t, BoxAfter(f, t) PROVE t \in Reports /\ (Heard(f.op, t) \/ OnWire(f.op, t))
    OBVIOUS
  <2>1. PICK g \in outbox : g.op = f.op /\ g.report = t /\ g.n < f.n
    BY DEF BoxAfter
  <2>2. g.sent /\ link # "down"
    BY <1>1, <2>1 DEF SendNext
  <2>3. Heard(g.op, g.report) \/ OnWire(g.op, g.report)
    BY <2>2 DEF Whole, SentInv
  <2> QED  BY <2>1, <2>3 DEF Whole, Inv, Shape, HelperShape
<1>6. UNCHANGED <<status, stages, first, link, acks>>
  BY DEF SendNext, server, history
<1> QED  BY <1>1, <1>2, <1>4, <1>4a, <1>5, <1>6

\* What a frame on the connection needs before it, in the next state.
Preceded(i, to) ==
  \/ HeardNext(wire'[i].op, to)
  \/ \E j \in 1..(i - 1) : wire'[j].op = wire'[i].op /\ wire'[j].report = to
LEMMA WireNext ==
  ASSUME \A i \in 1..Len(wire') :
           /\ first'[wire'[i].op] \in Outcomes \union {"none"}
           /\ wire'[i].report = "running" => Preceded(i, "accepted")
           /\ wire'[i].report \in Outcomes \ {"refused"} => Preceded(i, "running")
           /\ wire'[i].report \in Outcomes /\ status'[wire'[i].op] \notin Outcomes
                => wire'[i].report = first'[wire'[i].op] \/ Preceded(i, first'[wire'[i].op])
           /\ wire'[i].report = "refused" => first'[wire'[i].op] = "refused"
  PROVE  WireInv'
<1> USE DEF Preceded, HeardNext, Heard, Ended, WireAfter
<1> SUFFICES ASSUME NEW i \in 1..Len(wire')
             PROVE  /\ wire'[i].report = "running"
                         => Heard(wire[i].op, "accepted")' \/ WireAfter(i, "accepted")'
                    /\ wire'[i].report \in Outcomes \ {"refused"}
                         => Heard(wire[i].op, "running")' \/ WireAfter(i, "running")'
                    /\ wire'[i].report \in Outcomes /\ ~Ended(wire[i].op)'
                         => wire'[i].report = first'[wire'[i].op] \/ WireAfter(i, first[wire[i].op])'
                    /\ wire'[i].report = "refused" => first'[wire'[i].op] = "refused"
  BY DEF WireInv
<1>1. wire'[i].report = "running" => Heard(wire[i].op, "accepted")' \/ WireAfter(i, "accepted")'
  OBVIOUS
<1>2. wire'[i].report \in Outcomes \ {"refused"}
        => Heard(wire[i].op, "running")' \/ WireAfter(i, "running")'
  OBVIOUS
<1>3. "accepted" \notin Outcomes \union {"none"} /\ "running" \notin Outcomes \union {"none"}
  BY DEF Outcomes
<1>4. wire'[i].report \in Outcomes /\ ~Ended(wire[i].op)'
        => wire'[i].report = first'[wire'[i].op] \/ WireAfter(i, first[wire[i].op])'
  BY <1>3
<1> QED  BY <1>1, <1>2, <1>4

\* The order of the connection: a report comes after those it follows from.
LEMMA WireInvStep == Whole /\ [Next]_vars => WireInv'
<1> SUFFICES ASSUME Whole, [Next]_vars PROVE WireInv'
  OBVIOUS
<1>i. Inv /\ WireInv /\ BoxInv
  BY DEF Whole
<1>h. \A i \in 1..Len(wire) : wire[i].op \in Ops /\ wire[i].report \in Reports
  <2>1. wire \in Seq([op : Ops, report : Reports])
    BY <1>i DEF Inv, Shape, NetShape
  <2>2. \A i \in 1..Len(wire) : wire[i] \in [op : Ops, report : Reports]
    BY <2>1, Elements
  <2> QED  BY <2>2
<1>s. Shape'
  BY <1>i, ShapeStep DEF Inv
<1>g. \A i \in 1..Len(wire') : first'[wire'[i].op] \in Outcomes \union {"none"}
  <2>1. wire' \in Seq([op : Ops, report : Reports])
    BY <1>s DEF Shape, NetShape
  <2>2. \A i \in 1..Len(wire') : wire'[i] \in [op : Ops, report : Reports]
    BY <2>1, Elements
  <2> QED  BY <2>2, <1>s DEF Shape, HelperShape
<1>r. {"accepted", "running"} \subseteq Reports /\ "none" \notin Reports /\ Outcomes \subseteq Reports
  BY DEF Reports, Statuses, Pending, Outcomes, Early
<1>f. \A o \in Ops : first[o] \in Outcomes \union {"none"}
  BY <1>i DEF Inv, Shape, HelperShape
<1>e. \A o \in Ops : Ended(o) => status'[o] \in Outcomes
  BY <1>i, StatusStep DEF Ended
<1>k. \A o \in Ops, t \in Reports : Heard(o, t) => HeardNext(o, t)
  BY <1>i, HeardOn
<1>w. \A i \in 1..Len(wire) :
        /\ wire[i].report = "running" => Heard(wire[i].op, "accepted") \/ WireAfter(i, "accepted")
        /\ wire[i].report \in Outcomes \ {"refused"} => Heard(wire[i].op, "running") \/ WireAfter(i, "running")
        /\ wire[i].report \in Outcomes /\ ~Ended(wire[i].op)
             => wire[i].report = first[wire[i].op] \/ WireAfter(i, first[wire[i].op])
        /\ wire[i].report = "refused" => first[wire[i].op] = "refused"
  BY <1>i DEF WireInv
<1>n. \A i \in 1..Len(wire) : ~WireAfter(i, "none")
  BY <1>h, <1>r DEF WireAfter
<1>u. \A i \in 1..Len(wire) :
        wire[i].report \in Outcomes /\ ~Ended(wire[i].op) => first[wire[i].op] \in Reports
  BY <1>w, <1>n, <1>f, <1>h, <1>r
<1>1. CASE UNCHANGED wire
  <2>1. CASE Restart
    BY <2>1 DEF Restart, Cut, WireInv
  <2>2. CASE ~Restart
    <3>1. \A i \in 1..Len(wire), t \in Reports :
            Heard(wire[i].op, t) \/ WireAfter(i, t) => Preceded(i, t)
      BY <1>1, <1>h, <1>k DEF Preceded, WireAfter
    <3>2. ASSUME NEW i \in 1..Len(wire), wire[i].report \in Outcomes, ~Ended(wire[i].op)
          PROVE  first'[wire[i].op] = first[wire[i].op] 
      <4>1. first[wire[i].op] # "none"
        BY <1>u, <1>r, <3>2
      <4> QED  BY <4>1, <2>2, <1>i, <1>h, FirstStep
    <3>3. ASSUME NEW i \in 1..Len(wire), wire[i].report = "refused"
          PROVE  first'[wire[i].op] = "refused"
      <4>1. first[wire[i].op] = "refused"
        BY <1>w, <3>3
      <4> QED  BY <4>1, <2>2, <1>i, <1>h, FirstStep
    <3> SUFFICES ASSUME NEW i \in 1..Len(wire)
                 PROVE  /\ wire[i].report = "running" => Preceded(i, "accepted")
                        /\ wire[i].report \in Outcomes \ {"refused"} => Preceded(i, "running")
                        /\ wire[i].report \in Outcomes /\ status'[wire[i].op] \notin Outcomes
                             => wire[i].report = first'[wire[i].op] \/ Preceded(i, first'[wire[i].op])
                        /\ wire[i].report = "refused" => first'[wire[i].op] = "refused"
      BY <1>1, <1>g, WireNext
    <3>4. wire[i].report \in Outcomes /\ status'[wire[i].op] \notin Outcomes
            => wire[i].report = first'[wire[i].op] \/ Preceded(i, first'[wire[i].op])
      BY <1>w, <1>u, <1>e, <1>h, <3>1, <3>2
    <3> QED  BY <1>w, <1>r, <3>1, <3>3, <3>4
  <2> QED  BY <2>1, <2>2
<1>2. CASE wire' = <<>>
  BY <1>2 DEF WireInv
<1>3. CASE SendNext
  <2>1. PICK f \in outbox :
           /\ f.op \in Ops /\ f.report \in Reports
           /\ Len(wire') = Len(wire) + 1
           /\ \A i \in 1..Len(wire) : wire'[i] = wire[i]
           /\ wire'[Len(wire) + 1].op = f.op /\ wire'[Len(wire) + 1].report = f.report
           /\ UNCHANGED <<status, first>>
           /\ \A t : BoxAfter(f, t) => t \in Reports /\ (Heard(f.op, t) \/ OnWire(f.op, t))
    BY <1>3, SendFacts
  <2>l. Len(wire) \in Nat
    BY <1>i DEF Inv, Shape, NetShape
  <2>2. \A i \in 1..Len(wire), t \in Reports :
          Heard(wire[i].op, t) \/ WireAfter(i, t) => Preceded(i, t)
    BY <2>1, <2>l, <1>h, <1>k DEF Preceded, WireAfter
  <2>3. \A t : (Heard(f.op, t) /\ t \in Reports) \/ BoxAfter(f, t) => Preceded(Len(wire) + 1, t)
    BY <2>1, <2>l, <1>k DEF Preceded, OnWire
  <2>4. \A i \in 1..Len(wire') : i \in 1..Len(wire) \/ i = Len(wire) + 1
    BY <2>1, <2>l
  <2> SUFFICES ASSUME NEW i \in 1..Len(wire')
               PROVE  /\ wire'[i].report = "running" => Preceded(i, "accepted")
                      /\ wire'[i].report \in Outcomes \ {"refused"} => Preceded(i, "running")
                      /\ wire'[i].report \in Outcomes /\ status'[wire'[i].op] \notin Outcomes
                           => wire'[i].report = first'[wire'[i].op] \/ Preceded(i, first'[wire'[i].op])
                      /\ wire'[i].report = "refused" => first'[wire'[i].op] = "refused"
    BY <1>g, WireNext
  <2>5. CASE i \in 1..Len(wire)
    <3>1. wire'[i] = wire[i] /\ first' = first /\ status' = status
      BY <2>1, <2>5
    <3> QED  BY <2>2, <2>5, <3>1, <1>w, <1>u, <1>r, <1>h DEF Ended
  <2>6. CASE i = Len(wire) + 1
    <3>1. wire'[i].op = f.op /\ wire'[i].report = f.report /\ first' = first /\ status' = status
      BY <2>1, <2>6
    <3>2. /\ f.report = "running" => Heard(f.op, "accepted") \/ BoxAfter(f, "accepted")
          /\ f.report \in Outcomes \ {"refused"} => Heard(f.op, "running") \/ BoxAfter(f, "running")
          /\ f.report \in Outcomes /\ ~Ended(f.op) => f.report = first[f.op] \/ BoxAfter(f, first[f.op])
          /\ f.report = "refused" => first[f.op] = "refused"
      BY <1>i DEF BoxInv
    <3> QED  BY <2>3, <2>6, <3>1, <3>2, <1>r DEF Ended
  <2> QED  BY <2>4, <2>5, <2>6
<1>4. CASE HandleUpdate
  <2>1. PICK o \in Ops : \E r \in Reports :
           /\ 1 \in 1..Len(wire) /\ wire[1].op = o /\ wire[1].report = r
           /\ \A i \in 1..Len(wire') : i + 1 \in 1..Len(wire) /\ wire'[i] = wire[i + 1]
           /\ \A i \in 1..Len(wire) : i # 1 => i - 1 \in 1..Len(wire') /\ wire'[i - 1] = wire[i]
           /\ HeardNext(o, r)
    BY <1>4, HandleFacts
  <2>2. PICK r \in Reports :
           /\ 1 \in 1..Len(wire) /\ wire[1].op = o /\ wire[1].report = r
           /\ \A i \in 1..Len(wire') : i + 1 \in 1..Len(wire) /\ wire'[i] = wire[i + 1]
           /\ \A i \in 1..Len(wire) : i # 1 => i - 1 \in 1..Len(wire') /\ wire'[i - 1] = wire[i]
           /\ HeardNext(o, r)
    BY <2>1
  <2>3. first' = first
    BY <1>4 DEF HandleUpdate, history
  <2>4. ASSUME NEW i \in 1..Len(wire'), NEW t \in Reports,
               Heard(wire[i + 1].op, t) \/ WireAfter(i + 1, t)
        PROVE  Preceded(i, t)
    <3>0. i + 1 \in 1..Len(wire) /\ wire'[i] = wire[i + 1]
      BY <2>2
    <3>1. CASE Heard(wire[i + 1].op, t)
      BY <3>0, <3>1, <1>h, <1>k DEF Preceded
    <3>2. CASE WireAfter(i + 1, t)
      <4>1. PICK j \in 1..i : wire[j].op = wire[i + 1].op /\ wire[j].report = t
        BY <3>2 DEF WireAfter
      <4>2. CASE j = 1
        BY <2>2, <3>0, <4>1, <4>2 DEF Preceded
      <4>3. CASE j # 1
        <5>1. j \in 1..Len(wire) /\ j - 1 \in 1..(i - 1)
          BY <3>0, <4>3
        <5>2. wire'[j - 1] = wire[j]
          BY <2>2, <4>3, <5>1
        <5> QED  BY <3>0, <4>1, <5>1, <5>2 DEF Preceded
      <4> QED  BY <4>2, <4>3
    <3> QED  BY <2>4, <3>1, <3>2
  <2> SUFFICES ASSUME NEW i \in 1..Len(wire')
               PROVE  /\ wire'[i].report = "running" => Preceded(i, "accepted")
                      /\ wire'[i].report \in Outcomes \ {"refused"} => Preceded(i, "running")
                      /\ wire'[i].report \in Outcomes /\ status'[wire'[i].op] \notin Outcomes
                           => wire'[i].report = first'[wire'[i].op] \/ Preceded(i, first'[wire'[i].op])
                      /\ wire'[i].report = "refused" => first'[wire'[i].op] = "refused"
    BY <1>g, WireNext
  <2>5. i + 1 \in 1..Len(wire) /\ wire'[i] = wire[i + 1]
    BY <2>2
  <2>6. Ended(wire[i + 1].op) => status'[wire[i + 1].op] \in Outcomes
    BY <1>e, <1>h, <2>5
  <2> QED  BY <1>w, <1>u, <1>r, <2>3, <2>4, <2>5, <2>6
<1> QED  BY <1>1, <1>2, <1>3, <1>4, <1>i, WireStep

\* What was sent on the present connection is under way until the server has heard of it.
LEMMA SentStep == Whole /\ [Next]_vars => SentInv'
<1> SUFFICES ASSUME Whole, [Next]_vars PROVE SentInv'
  OBVIOUS
<1>i. Inv /\ SentInv /\ NumberInv
  BY DEF Whole
<1>h. \A f \in outbox : f.op \in Ops /\ f.report \in Reports
  BY <1>i DEF Inv, Shape, HelperShape
<1>k. \A o \in Ops, t \in Reports : Heard(o, t) => HeardNext(o, t)
  BY <1>i, HeardOn
<1> DEFINE OnNext(o, to) == \E i \in 1..Len(wire') : wire'[i].op = o /\ wire'[i].report = to
           Held(f) == HeardNext(f.op, f.report) \/ OnNext(f.op, f.report)
<1>g. (link' # "down" => \A f \in outbox' : f.sent => Held(f)) => SentInv'
  BY DEF SentInv, OnWire, HeardNext, Heard, Ended
<1> HIDE DEF OnNext
<1>1. CASE link' = "down"
  BY <1>1 DEF SentInv
<1>2. CASE link' # "down" /\ Connect
  <2>1. \A f \in outbox' : f.sent = FALSE
    BY <1>2 DEF Connect, Marked
  <2> QED  BY <2>1, <1>g
<1>3. CASE link' # "down" /\ ~Connect
  <2>0. link # "down"
    BY <1>3, <1>i, WireStep DEF Resend
  <2>1. CASE SendNext
    <3>1. PICK f \in outbox :
             /\ outbox' = (outbox \ {f}) \union {Marked(f, TRUE)}
             /\ Len(wire') = Len(wire) + 1
             /\ \A i \in 1..Len(wire) : wire'[i] = wire[i]
             /\ wire'[Len(wire) + 1].op = f.op /\ wire'[Len(wire) + 1].report = f.report
      BY <2>1, SendFacts
    <3>2. Len(wire) \in Nat
      BY <1>i DEF Inv, Shape, NetShape
    <3>3. \A o, t : OnWire(o, t) => OnNext(o, t)
      BY <3>1, <3>2 DEF OnWire, OnNext
    <3>4. OnNext(f.op, f.report) /\ Marked(f, TRUE).op = f.op /\ Marked(f, TRUE).report = f.report
      BY <3>1, <3>2 DEF OnNext, Marked
    <3>5. \A g \in outbox : g.sent => Held(g)
      BY <2>0, <3>3, <1>i, <1>h, <1>k DEF SentInv
    <3> QED  BY <3>1, <3>4, <3>5, <1>g
  <2>2. CASE HandleUpdate
    <3>1. PICK o \in Ops : \E r \in Reports :
             /\ wire[1].op = o /\ wire[1].report = r
             /\ \A i \in 1..Len(wire) : i # 1 => i - 1 \in 1..Len(wire') /\ wire'[i - 1] = wire[i]
             /\ HeardNext(o, r)
      BY <2>2, HandleFacts
    <3>2. outbox' = outbox
      BY <2>2 DEF HandleUpdate, helper
    <3>3. \A p, t : OnWire(p, t) => OnNext(p, t) \/ HeardNext(p, t)
      BY <3>1 DEF OnWire, OnNext
    <3>4. \A g \in outbox : g.sent => Held(g)
      BY <2>0, <3>3, <1>i, <1>h, <1>k DEF SentInv
    <3> QED  BY <3>2, <3>4, <1>g
  <2>3. CASE UNCHANGED wire
    <3>1. \A o, t : OnWire(o, t) => OnNext(o, t)
      BY <2>3 DEF OnWire, OnNext
    <3>2. \A g \in outbox : g.sent => Held(g)
      BY <2>0, <3>1, <1>i, <1>h, <1>k DEF SentInv
    <3>3. \A g \in outbox' : g \in outbox \/ ~g.sent \/ SendNext
      <4>1. CASE \E o \in Ops, to \in Reports : Reporting(o, to)
        <5>1. PICK o \in Ops : \E to \in Reports : Report(o, to)
          BY <4>1 DEF Reporting
        <5>2. PICK to \in Reports : Report(o, to)
          BY <5>1
        <5>3. PICK g \in Frames : outbox' = outbox \union {g} /\ g.sent = FALSE
          BY <5>2, <1>i, Joins
        <5> QED  BY <5>3
      <4>2. CASE Restart
        BY <4>2 DEF Restart
      <4>3. TakeAck => outbox' \subseteq outbox
        BY DEF TakeAck
      <4> QED  BY <4>1, <4>2, <4>3, <1>i, <1>3, BoxStep
    <3> QED  BY <2>1, <3>2, <3>3, <1>g
  <2> QED  BY <2>1, <2>2, <2>3, <1>3, <1>i, WireStep
<1> QED  BY <1>1, <1>2, <1>3

\* A confirmation says no more than the record it was made from.
LEMMA AckStep == Whole /\ [Next]_vars => AckInv'
<1> SUFFICES ASSUME Whole, [Next]_vars PROVE AckInv'
  OBVIOUS
<1>i. Inv /\ AckInv
  BY DEF Whole
<1>h. acks \in Seq([op : Ops, status : Statuses \union {"none", "error"}])
  BY <1>i DEF Inv, Shape, NetShape
<1>o. \A i \in 1..Len(acks) : acks[i].op \in Ops
  <2>1. \A i \in 1..Len(acks) : acks[i] \in [op : Ops, status : Statuses \union {"none", "error"}]
    BY <1>h, Elements
  <2> QED  BY <2>1
<1>k. \A o \in Ops, t \in Reports : Heard(o, t) => HeardNext(o, t)
  BY <1>i, HeardOn
<1>g. (\A i \in 1..Len(acks') :
         /\ acks'[i].status # "none"
         /\ acks'[i].status \in Reports => HeardNext(acks'[i].op, acks'[i].status)) => AckInv'
  BY DEF AckInv, HeardNext, Heard, Ended
<1>a. \A i \in 1..Len(acks) :
         /\ acks[i].status # "none"
         /\ acks[i].status \in Reports => HeardNext(acks[i].op, acks[i].status)
  BY <1>i, <1>o, <1>k DEF AckInv
<1>1. CASE UNCHANGED acks
  BY <1>1, <1>a, <1>g
<1>2. CASE acks' = <<>>
  BY <1>2, <1>g
<1>3. CASE TakeAck
  <2>1. \A i \in 1..Len(acks') : i + 1 \in 1..Len(acks) /\ acks'[i] = acks[i + 1]
    BY <1>3, <1>h, HeadTail DEF TakeAck
  <2> QED  BY <2>1, <1>a, <1>g
<1>4. CASE HandleUpdate
  <2>1. PICK o \in Ops :
           /\ o \in known
           /\ \/ acks' = Append(acks, [op |-> o, status |-> "error"])
              \/ acks' = Append(acks, [op |-> o, status |-> status'[o]])
    BY <1>4, HandleFacts
  <2>2. status'[o] \in Statuses /\ status'[o] # "none"
    <3>1. Shape' /\ status[o] # "none"
      BY <1>i, <2>1, ShapeStep DEF Inv, RequestInv
    <3>2. status'[o] # "none"
      BY <1>4, <1>i, <3>1, HandleUpdateEffect DEF Inv
    <3> QED  BY <3>1, <3>2 DEF Shape, NetShape
  <2>3. \A t \in Reports : t = status'[o] => HeardNext(o, t)
    BY DEF HeardNext, Reports, Statuses, Pending, Outcomes, Early
  <2>4. PICK st \in {"error", status'[o]} : acks' = Append(acks, [op |-> o, status |-> st])
    BY <2>1
  <2>5. \A i \in 1..Len(acks') : (i \in 1..Len(acks) /\ acks'[i] = acks[i])
                                 \/ acks'[i] = [op |-> o, status |-> st]
    BY <2>4, <1>h
  <2>6. \A i \in 1..Len(acks') : (i \in 1..Len(acks) /\ acks'[i] = acks[i])
                                 \/ (acks'[i].op = o /\ acks'[i].status = st)
    BY <2>5
  <2>7. st # "none" /\ (st \in Reports => HeardNext(o, st))
    BY <2>2, <2>3, <2>4 DEF Reports, Statuses, Pending, Outcomes, Early
  <2> QED  BY <2>6, <2>7, <1>a, <1>g
<1> QED  BY <1>1, <1>2, <1>3, <1>4, <1>i, WireStep

\* What has ended, has ended with the first result.
LEMMA TruthStep == Whole /\ [Next]_vars => TruthInv'
<1> SUFFICES ASSUME Whole, [Next]_vars PROVE TruthInv'
  OBVIOUS
<1>i. Inv /\ TruthInv
  BY DEF Whole
<1>e. \A o \in Ops : Ended(o) => status'[o] = status[o]
  BY <1>i, StatusStep
<1>f. ASSUME NEW o \in Ops, Ended(o) PROVE first'[o] = first[o]
  <2>1. CASE Restart
    BY <1>i, <1>f, <2>1 DEF Restart, TruthInv
  <2>2. CASE ~Restart
    <3>1. first[o] # "none"
      BY <1>i, <1>f DEF TruthInv, Ended, Outcomes
    <3> QED  BY <1>i, <2>2, <3>1, FirstStep
  <2> QED  BY <2>1, <2>2
<1>g. ASSUME \A o \in Ops : /\ status'[o] \in Outcomes => Ended(o) \/ status'[o] = first'[o]
                            /\ "running" \in stages'[o] => status'[o] \in Outcomes \union {"running"}
      PROVE  TruthInv'
  BY <1>g, <1>i, <1>e, <1>f DEF TruthInv, Ended
<1>1. ASSUME NEW p \in Ops, Create(p) PROVE TruthInv'
  <2>1. stages' = stages /\ status[p] = "none" /\ status' = [status EXCEPT ![p] = "submitted"]
    BY <1>1 DEF Create
  <2>2. \A o \in Ops : status'[o] = IF o = p THEN "submitted" ELSE status[o]
    BY <2>1, <1>i DEF Inv, Shape, NetShape
  <2> QED  BY <2>1, <2>2, <1>g, <1>i DEF TruthInv, Ended, Outcomes
<1>2. ASSUME NEW p \in Ops, Dispatch(p) PROVE TruthInv'
  <2>0. "waiting" \in Statuses \ {"submitted"} /\ "waiting" \notin Outcomes
    BY DEF Statuses, Pending, Early, Outcomes
  <2>1. CASE Record(p, "waiting")
    <3>1. \A o \in Ops \ {p} : status'[o] = status[o] /\ stages'[o] = stages[o]
      BY <2>0, <2>1, <1>i, RecordEffect DEF Inv
    <3>2. status'[p] = status[p] \/ (status'[p] = "waiting" /\ Allowed(p, "waiting"))
      BY <2>0, <2>1, <1>i, RecordOnce DEF Inv
    <3>3. stages'[p] = stages[p]
      BY <2>1, <1>i DEF Record, Inv, Shape, NetShape
    <3>4. Allowed(p, "waiting") => status[p] = "submitted"
      BY DEF Allowed, Transition, StatusOf, Early
    <3>5. status[p] = "submitted" => stages[p] = {}
      BY <1>i DEF Inv, ServerInv, Early
    <3> QED  BY <2>0, <3>1, <3>2, <3>3, <3>4, <3>5, <1>g, <1>i DEF TruthInv, Ended
  <2>2. CASE UNCHANGED <<status, stages>>
    BY <2>2, <1>g, <1>i DEF TruthInv, Ended
  <2> QED  BY <1>2, <2>1, <2>2 DEF Dispatch
<1>3. CASE HandleUpdate
  <2>1. PICK o \in Ops : \E r \in Reports :
           /\ \A p \in Ops \ {o} : status'[p] = status[p] /\ stages'[p] = stages[p]
           /\ status'[o] = status[o] \/ status'[o] = r
           /\ stages'[o] = stages[o] \/ (status'[o] = r /\ stages'[o] = stages[o] \union ({r} \intersect Halfway))
           /\ HeardNext(o, r)
           /\ ~Ended(o) /\ status'[o] \in Outcomes => status'[o] = first[o]
    BY <1>3, HandleFacts
  <2>2. first' = first
    BY <1>3 DEF HandleUpdate, history
  <2>3. "running" \in stages[o] => HeardNext(o, "running")
    <3>1. "running" \in Reports
      BY DEF Reports, Statuses, Pending, Early
    <3>2. "running" \in stages[o] => Heard(o, "running")
      BY <1>i DEF TruthInv, Heard
    <3> QED  BY <3>1, <3>2, <1>i, HeardOn
  <2>4. "running" \in stages'[o] => status'[o] \in Outcomes \union {"running"}
    BY <2>1, <2>3 DEF HeardNext, Outcomes
  <2> QED  BY <2>1, <2>2, <2>4, <1>g, <1>i DEF TruthInv, Ended
<1>4. CASE UNCHANGED <<status, stages>>
  BY <1>4, <1>g, <1>i DEF TruthInv, Ended
<1>5. \/ \E o \in Ops : Create(o) \/ Dispatch(o)
      \/ HandleUpdate
      \/ UNCHANGED <<status, stages>>
  BY <1>i, PageCalls DEF Next, Serve, Relay, Work, Resend, Connect, SendNext, TakeRequest, TakeAck,
    TakeError, Take, Begin, Execute, Lose, Reload, Restart, Inv, vars, server
<1> QED  BY <1>1, <1>2, <1>3, <1>4, <1>5

-----------------------------------------------------------------------------
(* The page and the helper's copy. *)

\* What the server knows or will be told, it knows or will be told after a step.
LEMMA FedStep ==
  ASSUME Inv, AckInv, [Next]_vars, ~Restart
  PROVE  \A o \in Ops, t \in Reports : Fed(o, t) => Fed(o, t)'
<1> SUFFICES ASSUME NEW o \in Ops, NEW t \in Reports, Fed(o, t) PROVE Fed(o, t)'
  OBVIOUS
<1>1. CASE Heard(o, t)
  BY <1>1, HeardStep DEF Fed
<1>2. CASE Kept(o, t)
  <2>1. PICK f \in outbox : f.op = o /\ f.report = t
    BY <1>2 DEF Kept
  <2>2. CASE Heard(f.op, f.report)'
    BY <2>1, <2>2 DEF Fed
  <2>3. CASE \E h \in outbox' : Same(h, f)
    BY <2>1, <2>3 DEF Fed, Kept, Same
  <2> QED  BY <2>2, <2>3, FrameKeep
<1> QED  BY <1>1, <1>2 DEF Fed

\* A report of the page moves the helper's copy, if there is one, and is the first
\* completion, if it is one and there was none.
LEMMA ReportFacts ==
  ASSUME Shape, NEW o \in Ops, NEW to, Report(o, to)
  PROVE  /\ \A p \in Ops : queue'[p] = IF p = o /\ queue[o] # "none" THEN to ELSE queue[p]
         /\ \A p \in Ops : first'[p] = IF p = o /\ first[o] = "none" /\ to \in Outcomes
                                       THEN to ELSE first[p]
<1>1. queue' = [queue EXCEPT ![o] = IF queue[o] = "none" THEN "none" ELSE to]
  BY DEF Report
<1>2. first' = [first EXCEPT ![o] = IF first[o] = "none" /\ to \in Outcomes THEN to ELSE first[o]]
  BY DEF Report
<1> QED  BY <1>1, <1>2 DEF Shape, HelperShape

\* The calls of the page, taken or refused.
CallTaken(o, to, step) ==
  /\ Report(o, to) /\ UNCHANGED refusals
  /\ page'.op = o /\ page'.step = step /\ page'.outcome = page.outcome
CallRefused == UNCHANGED <<queue, outbox, first>> /\ refusals' = refusals + 1
LEMMA CallCases ==
  ASSUME Inv, Accept \/ Run \/ Complete
  PROVE  /\ page.op \in Ops /\ UNCHANGED <<server, net, known, snapshot, executed, lost, reloads, restarts>>
         /\ \/ Accept /\ CallTaken(page.op, "accepted", "run")
            \/ Run /\ page.outcome = "none" /\ CallTaken(page.op, "running", "execute")
            \/ Run /\ page.outcome # "none" /\ CallTaken(page.op, "running", "report")
            \/ Complete /\ Report(page.op, page.outcome) /\ page' = Resting /\ UNCHANGED refusals
            \/ /\ Accept \/ (Run /\ "running" \in Refusable)
               /\ CallRefused /\ page'.op = page.op /\ page'.step = "report" /\ page'.outcome = "refused"
            \/ Complete /\ CallRefused /\ page' = Resting
            \/ /\ Complete /\ CallRefused
               /\ page'.op = page.op /\ page'.step = page.step /\ page'.outcome = page.outcome
<1>1. page.op \in Ops
  BY Calls
<1>2. page \in [op : Ops \union {"none"}, step : {"rest", "accept", "run", "execute", "report"},
                outcome : Outcomes \union {"none"}, tries : Nat]
  BY DEF Inv, Shape, PageShape
<1>3. UNCHANGED <<server, net, known, snapshot, executed, lost, reloads, restarts>>
  BY DEF Accept, Run, Complete
<1>4. CASE Accept
  <2>1. CASE Report(page.op, "accepted") /\ page' = [page EXCEPT !.step = "run"] /\ UNCHANGED refusals
    BY <1>1, <1>2, <1>3, <1>4, <2>1 DEF CallTaken
  <2>2. CASE Refuse("accepted") /\ Reject
    <3>1. page'.op = page.op /\ page'.step = "report" /\ page'.outcome = "refused"
      BY <1>2, <2>2 DEF Reject
    <3> QED  BY <1>1, <1>3, <1>4, <2>2, <3>1 DEF Refuse, CallRefused
  <2> QED  BY <1>4, <2>1, <2>2 DEF Accept
<1>5. CASE Run
  <2>1. CASE /\ Report(page.op, "running") /\ UNCHANGED refusals
             /\ page' = [page EXCEPT !.step = IF page.outcome = "none" THEN "execute" ELSE "report"]
    BY <1>1, <1>2, <1>3, <1>5, <2>1 DEF CallTaken
  <2>2. CASE Refuse("running") /\ Reject
    <3>1. page'.op = page.op /\ page'.step = "report" /\ page'.outcome = "refused"
      BY <1>2, <2>2 DEF Reject
    <3> QED  BY <1>1, <1>3, <1>5, <2>2, <3>1 DEF Refuse, CallRefused
  <2> QED  BY <1>5, <2>1, <2>2 DEF Run
<1>6. CASE Complete
  <2>1. CASE Report(page.op, page.outcome) /\ page' = Resting /\ UNCHANGED refusals
    BY <1>1, <1>3, <1>6, <2>1
  <2>2. CASE /\ Refuse("completed")
             /\ page' = IF page.tries + 1 = Attempts THEN Resting ELSE [page EXCEPT !.tries = @ + 1]
    <3>1. page' = Resting \/ page' = [page EXCEPT !.tries = @ + 1]
      BY <2>2
    <3>2. page' = Resting \/ (page'.op = page.op /\ page'.step = page.step /\ page'.outcome = page.outcome)
      BY <1>2, <3>1
    <3> QED  BY <1>1, <1>3, <1>6, <2>2, <3>2 DEF Refuse, CallRefused
  <2> QED  BY <1>6, <2>1, <2>2 DEF Complete
<1> QED  BY <1>4, <1>5, <1>6

\* The page has reported what it is past of.
LEMMA StepStep == Whole /\ [Next]_vars => StepInv'
<1> SUFFICES ASSUME Whole, [Next]_vars PROVE StepInv'
  OBVIOUS
<1>i. Inv /\ StepInv /\ TruthInv
  BY DEF Whole
<1>h. executed \in [Ops -> Nat] /\ first \in [Ops -> Outcomes \union {"none"}]
  BY <1>i DEF Inv, Shape, HelperShape, HistoryShape
<1>p. page \in [op : Ops \union {"none"}, step : {"rest", "accept", "run", "execute", "report"},
                outcome : Outcomes \union {"none"}, tries : Nat]
  BY <1>i DEF Inv, Shape, PageShape
<1>1. CASE UNCHANGED <<page, first, executed>>
  BY <1>1, <1>i DEF StepInv
<1>2. CASE Begin
  <2>1. UNCHANGED <<first, executed>>
    BY <1>2 DEF Begin, history
  <2>2. /\ page'.step \in {"run", "report", "accept"}
        /\ page'.step = "accept" => page'.outcome = "none"
        /\ page'.step \in {"run", "report"} => page'.outcome \in {"interrupted", "refused"}
        /\ page'.step = "run" => page'.outcome = "interrupted"
    BY <1>2 DEF Begin, Undertake
  <2> QED  BY <2>1, <2>2, <1>i DEF StepInv, Real
<1>3. CASE page' = Resting /\ UNCHANGED <<first, executed>>
  BY <1>3, <1>i DEF StepInv, Resting
<1>4. CASE Restart
  <2>1. page' = Resting /\ executed' = executed
    BY <1>4 DEF Restart
  <2>2. \A o \in Ops : first'[o] = "none" \/ first'[o] = first[o]
    BY <1>4, <1>i DEF Restart, TruthInv
  <2> QED  BY <2>1, <2>2, <1>i DEF StepInv, Resting, Real
<1>5. CASE Execute
  <2>1. page.op \in Ops /\ executed' = [executed EXCEPT ![page.op] = @ + 1] /\ first' = first
    BY <1>5, <1>i, Calls DEF Execute
  <2>2. page'.step = "report" /\ page'.op = page.op
    BY <1>5, <1>p DEF Execute
  <2>3. executed'[page.op] > 0 /\ \A o \in Ops : executed'[o] >= executed[o]
    BY <2>1, <1>h
  <2>4. \A o \in Ops : executed[o] > 0 => executed'[o] > 0
    BY <2>1, <1>h
  <2>5. \A o \in Ops : first'[o] \in Real => executed'[o] > 0
    BY <2>1, <2>4, <1>i DEF StepInv
  <2>6. \A o \in Ops : page'.op = o => executed'[o] > 0
    BY <2>2, <2>3
  <2> QED  BY <2>2, <2>5, <2>6 DEF StepInv
<1>6. CASE Accept \/ Run \/ Complete
  <2>0. /\ Accept => page.step = "accept"
        /\ Run => page.step = "run"
        /\ Complete => page.step = "report"
    BY DEF Accept, Run, Complete
  <2>1. executed' = executed /\ page.op \in Ops
    BY <1>6, <1>i, CallCases
  <2>2. \A to : Report(page.op, to) =>
          \A o \in Ops : first'[o] = IF o = page.op /\ first[o] = "none" /\ to \in Outcomes THEN to ELSE first[o]
    BY <2>1, <1>i, ReportFacts DEF Inv
  <2>3. CASE CallRefused /\ page'.step = "report" /\ page'.outcome = "refused"
    BY <2>1, <2>3, <1>i DEF StepInv, CallRefused, Real
  <2>4. CASE Complete /\ CallRefused /\ page' = Resting
    BY <2>1, <2>4, <1>i DEF StepInv, CallRefused, Resting
  <2>5. CASE /\ Complete /\ CallRefused
             /\ page'.op = page.op /\ page'.step = page.step /\ page'.outcome = page.outcome
    BY <2>1, <2>5, <1>i DEF StepInv, CallRefused
  <2>6. CASE Complete /\ Report(page.op, page.outcome) /\ page' = Resting
    <3>1. \A o \in Ops : first'[o] = first[o] \/ (o = page.op /\ first'[o] = page.outcome)
      BY <2>2, <2>6
    <3>2. \A o \in Ops : first'[o] \in Real => executed[o] > 0
      BY <3>1, <2>0, <2>6, <1>i DEF StepInv
    <3> QED  BY <3>2, <2>1, <2>6 DEF StepInv, Resting
  <2>7. CASE /\ Accept \/ Run
             /\ \E t \in {"accepted", "running"}, st \in {"run", "execute", "report"} :
                  CallTaken(page.op, t, st) /\ (st = "run" => Accept)
                    /\ (st = "execute" => page.outcome = "none") /\ (st = "report" => Run)
    <3>1. \A o \in Ops : first'[o] = first[o]
      BY <2>2, <2>7 DEF CallTaken, Outcomes
    <3>2. /\ page'.step \in {"run", "execute", "report"} /\ page'.outcome = page.outcome
          /\ page'.step = "run" => page.outcome = "none"
          /\ page'.step = "execute" => page.outcome = "none"
          /\ page'.step = "report" => page.outcome \in {"none", "interrupted"}
      BY <2>0, <2>7, <1>i DEF CallTaken, StepInv
    <3> QED  BY <3>1, <3>2, <2>1, <1>i DEF StepInv, Real
  <2> QED  BY <2>3, <2>4, <2>5, <2>6, <2>7, <1>6, <1>i, CallCases
<1> QED
  <2>1. (\E o \in Ops : Create(o) \/ Dispatch(o)) => UNCHANGED <<page, first, executed>>
    BY DEF Create, Dispatch, ui, history
  <2>2. Resend \/ HandleUpdate \/ Connect \/ Lose \/ SendNext \/ TakeRequest \/ TakeAck \/ TakeError \/ Take
          => UNCHANGED <<page, first, executed>>
    BY DEF Resend, HandleUpdate, Connect, Lose, SendNext, TakeRequest, TakeAck, TakeError, Take, ui, history
  <2>3. UNCHANGED vars => UNCHANGED <<page, first, executed>>
    BY DEF vars, ui, history
  <2>4. Reload => page' = Resting /\ UNCHANGED <<first, executed>>
    BY DEF Reload, history
  <2> QED
    BY <1>1, <1>2, <1>3, <1>4, <1>5, <1>6, <2>1, <2>2, <2>3, <2>4 DEF Next, Serve, Relay, Work

\* A step keeps the requests for new operations true to the record.
LEMMA AskedStep == Whole /\ [Next]_vars => AskedInv'
<1> SUFFICES ASSUME Whole, [Next]_vars PROVE AskedInv'
  OBVIOUS
<1>i. Inv /\ AskedInv
  BY DEF Whole
<1>1. ASSUME NEW o \in Ops, Create(o) PROVE AskedInv'
  BY <1>1, <1>i DEF Create, net, helper, AskedInv, Inv, Shape, NetShape
<1>2. ASSUME NEW o \in Ops, Dispatch(o) PROVE AskedInv'
  <2>1. \A p \in Ops : status[p] \in Halfway => status'[p] = status[p]
    <3>1. CASE Record(o, "waiting")
      <4>0. "waiting" \in Statuses \ {"submitted"}
        BY DEF Statuses, Pending, Early
      <4>1. \A p \in Ops \ {o} : status'[p] = status[p]
        BY <3>1, <4>0, <1>i, RecordEffect DEF Inv
      <4>2. status'[o] = status[o] \/ Allowed(o, "waiting")
        BY <3>1, <4>0, <1>i, RecordOnce DEF Inv
      <4>3. Allowed(o, "waiting") => status[o] \notin Halfway
        BY DEF Allowed, Transition, StatusOf, Early, Halfway
      <4> QED  BY <4>1, <4>2, <4>3
    <3>2. CASE status' = status
      BY <3>2
    <3> QED  BY <1>2, <3>1, <3>2 DEF Dispatch
  <2>2. \A p \in Ops, st \in Halfway : <<p, st>> \in requests' => <<p, st>> \in requests
    BY <1>2 DEF Dispatch, Halfway
  <2>3. known' = known
    BY <1>2 DEF Dispatch, helper
  <2> QED  BY <2>1, <2>2, <2>3, <1>i DEF AskedInv, Halfway
<1>3. CASE Resend
  <2>1. \A p \in Ops, st \in Halfway : <<p, st>> \in requests' => <<p, st>> \in requests \/ status[p] = st
    BY <1>3 DEF Resend
  <2> QED  BY <1>3, <2>1, <1>i DEF Resend, server, helper, AskedInv, Halfway
<1>4. CASE HandleUpdate
  <2>1. PICK o \in Ops : o \in known /\ \A p \in Ops \ {o} : status'[p] = status[p]
    BY <1>4, <1>i, HandleUpdateEffect DEF Inv
  <2> QED  BY <1>4, <2>1, <1>i DEF HandleUpdate, helper, AskedInv
<1>5. CASE TakeRequest
  <2>1. requests' \subseteq requests /\ known \subseteq known' /\ status' = status
    BY <1>5 DEF TakeRequest, server
  <2> QED  BY <2>1, <1>i DEF AskedInv
<1>6. CASE requests' = {}
  BY <1>6 DEF AskedInv
<1>7. CASE UNCHANGED <<requests, known, status>>
  BY <1>7, <1>i DEF AskedInv
<1> QED
  <2>1. Lose \/ TakeError \/ Restart => requests' = {}
    BY DEF Lose, TakeError, Restart, Cut
  <2>2. Connect \/ SendNext \/ TakeAck \/ Take \/ Begin \/ Execute \/ Reload
          => UNCHANGED <<requests, known, status>>
    BY DEF Connect, SendNext, TakeAck, Take, Begin, Execute, Reload, server, net, helper
  <2>3. Accept \/ Run \/ Complete => UNCHANGED <<requests, known, status>>
    BY <1>i, PageCalls DEF Inv, server, net
  <2>4. UNCHANGED vars => UNCHANGED <<requests, known, status>>
    BY DEF vars, server, net, helper
  <2> QED
    BY <1>1, <1>2, <1>3, <1>4, <1>5, <1>6, <1>7, <2>1, <2>2, <2>3, <2>4 DEF Next, Serve, Relay, Work

\* A step of the page or the helper goes no further than what was reported.
LEMMA PathStep == Whole /\ RunningTaken /\ [Next]_vars => PathInv'
<1> SUFFICES ASSUME Whole, RunningTaken, [Next]_vars PROVE PathInv'
  OBVIOUS
<1>i. Inv /\ PathInv /\ AckInv /\ AskedInv
  BY DEF Whole
<1>r. {"accepted", "running"} \subseteq Reports
  BY DEF Reports, Statuses, Pending, Early
<1>1. CASE Restart
  BY <1>1 DEF Restart, Resting, PathInv
<1>2. CASE ~Restart
  <2>f. \A o \in Ops : /\ Fed(o, "accepted") => Fed(o, "accepted")'
                       /\ Fed(o, "running") => Fed(o, "running")'
    BY <1>2, <1>i, <1>r, FedStep
  <2>h. \A o \in Ops : /\ Heard(o, "accepted") => Fed(o, "accepted")'
                       /\ Heard(o, "running") => Fed(o, "running")'
    BY <1>i, <1>r, HeardStep DEF Fed
  <2>1. CASE UNCHANGED <<queue, snapshot, page>>
    BY <2>1, <2>f, <1>i DEF PathInv
  <2>2. CASE TakeRequest
    <3>1. PICK q \in requests :
            IF q[1] \in known THEN UNCHANGED queue ELSE queue' = [queue EXCEPT ![q[1]] = q[2]]
      BY <2>2 DEF TakeRequest
    <3>2. PICK p \in Ops, st \in Pending : q = <<p, st>>
      BY <3>1, <1>i DEF Inv, Shape, NetShape
    <3>3. \A o \in Ops : queue'[o] = IF o = p /\ p \notin known THEN st ELSE queue[o]
      BY <3>1, <3>2, <1>i DEF Inv, Shape, HelperShape
    <3>4. p \notin known => /\ st = "accepted" => Heard(p, "accepted")
                            /\ st = "running" => Heard(p, "running")
      BY <3>1, <3>2, <1>i DEF AskedInv, Heard, Early
    <3>5. UNCHANGED <<snapshot, page>>
      BY <2>2 DEF TakeRequest, ui
    <3> QED  BY <3>3, <3>4, <3>5, <2>f, <2>h, <1>i DEF PathInv
  <2>3. CASE TakeAck
    <3>1. acks # <<>> /\ Head(acks) = acks[1] /\ 1 \in 1..Len(acks)
      BY <2>3, <1>i, HeadTail DEF TakeAck, Inv, Shape, NetShape
    <3>2. \A o \in Ops : queue'[o] \in {queue[o], "none"} \/ (o = acks[1].op /\ queue'[o] = acks[1].status)
      BY <2>3, <3>1, <1>i DEF TakeAck, Inv, Shape, HelperShape
    <3>3. /\ acks[1].status = "accepted" => Heard(acks[1].op, "accepted")
          /\ acks[1].status = "running" => Heard(acks[1].op, "running")
      BY <3>1, <1>i, <1>r DEF AckInv
    <3>4. UNCHANGED <<snapshot, page>>
      BY <2>3 DEF TakeAck, ui
    <3> QED  BY <3>2, <3>3, <3>4, <2>f, <2>h, <1>i DEF PathInv
  <2>4. CASE Take
    <3>1. \A o \in Ops, st \in Pending : <<o, st>> \in snapshot' => queue[o] = st
      BY <2>4 DEF Take
    <3>2. UNCHANGED <<queue, page>> /\ {"accepted", "running"} \subseteq Pending
      BY <2>4 DEF Take, helper, Pending
    <3> QED  BY <3>1, <3>2, <2>f, <1>i DEF PathInv
  <2>5. CASE Begin
    <3>1. PICK t \in snapshot :
            /\ snapshot' = snapshot \ {t}
            /\ \/ t[2] = "accepted" /\ Undertake(t[1], "run", "interrupted")
               \/ t[2] = "running" /\ Undertake(t[1], "report", "interrupted")
               \/ t[2] \in Early /\ Undertake(t[1], "accept", "none")
               \/ t[2] \in Early /\ Undertake(t[1], "report", "refused")
      BY <2>5 DEF Begin
    <3>2. PICK p \in Ops, st \in Pending : t = <<p, st>>
      BY <3>1, <1>i DEF Inv, Shape, PageShape
    <3>3. /\ page'.op = p
          /\ page'.step = "run" => <<p, "accepted">> \in snapshot
          /\ page'.step # "execute"
          /\ page'.step = "report" /\ page'.outcome # "refused" => <<p, "running">> \in snapshot
      BY <3>1, <3>2 DEF Undertake
    <3>4. queue' = queue /\ snapshot' \subseteq snapshot
      BY <2>5, <3>1 DEF Begin, helper
    <3> QED  BY <3>3, <3>4, <2>f, <1>i DEF PathInv
  <2>6. CASE Accept \/ Run \/ Complete
    <3>0. /\ Accept => page.step = "accept"
          /\ Run => page.step = "run"
          /\ Complete => page.step = "report" /\ page.outcome \in Outcomes
      BY <1>i, Calls DEF Accept, Run, Complete
    <3>1. page.op \in Ops /\ snapshot' = snapshot
      BY <2>6, <1>i, CallCases
    <3>2. \A to : Report(page.op, to) =>
            /\ \A o \in Ops : queue'[o] \in {queue[o], to} /\ (o # page.op => queue'[o] = queue[o])
            /\ \E h \in outbox' : h.op = page.op /\ h.report = to
      <4> SUFFICES ASSUME NEW to, Report(page.op, to)
                   PROVE  /\ \A o \in Ops : queue'[o] \in {queue[o], to} /\ (o # page.op => queue'[o] = queue[o])
                          /\ \E h \in outbox' : h.op = page.op /\ h.report = to
        OBVIOUS
      <4>1. \A o \in Ops : queue'[o] \in {queue[o], to} /\ (o # page.op => queue'[o] = queue[o])
        BY <3>1, <1>i, ReportFacts DEF Inv
      <4>2. \E h \in outbox' : h.op = page.op /\ h.report = to
        <5> DEFINE h == [n |-> Newest + 1, op |-> page.op, report |-> to, sent |-> FALSE]
        <5>1. h \in outbox' /\ h.op = page.op /\ h.report = to
          BY DEF Report
        <5> QED  BY <5>1
      <4> QED  BY <4>1, <4>2
    <3>p. PICK p \in Ops : p = page.op
      BY <3>1
    <3>3. CASE Accept /\ CallTaken(page.op, "accepted", "run")
      <4>1. Fed(p, "accepted")'
        BY <3>2, <3>3, <3>p DEF CallTaken, Fed, Kept
      <4>2. page'.op = p /\ page'.step = "run"
        BY <3>3, <3>p DEF CallTaken
      <4>3. \A o \in Ops : queue'[o] \in {queue[o], "accepted"} /\ (o # p => queue'[o] = queue[o])
        BY <3>2, <3>3, <3>p DEF CallTaken
      <4> QED  BY <4>1, <4>2, <4>3, <3>1, <2>f, <1>i DEF PathInv
    <3>4. CASE Run /\ (CallTaken(page.op, "running", "execute") \/ CallTaken(page.op, "running", "report"))
      <4>1. Fed(p, "running")'
        BY <3>2, <3>4, <3>p DEF CallTaken, Fed, Kept
      <4>2. page'.op = p /\ page'.step \in {"execute", "report"}
        BY <3>4, <3>p DEF CallTaken
      <4>3. \A o \in Ops : queue'[o] \in {queue[o], "running"} /\ (o # p => queue'[o] = queue[o])
        BY <3>2, <3>4, <3>p DEF CallTaken
      <4> QED  BY <4>1, <4>2, <4>3, <3>1, <2>f, <1>i DEF PathInv
    <3>5. CASE Complete /\ Report(page.op, page.outcome) /\ page' = Resting
      <4>1. \A o \in Ops : queue'[o] \in {queue[o], page.outcome}
        BY <3>2, <3>5
      <4>2. page.outcome \notin {"accepted", "running"} /\ page'.step = "rest"
        BY <3>0, <3>5 DEF Outcomes, Resting
      <4> QED  BY <4>1, <4>2, <3>1, <2>f, <1>i DEF PathInv
    <3>6. CASE CallRefused /\ page'.step = "report" /\ page'.outcome = "refused"
      BY <3>1, <3>6, <2>f, <1>i DEF PathInv, CallRefused
    <3>7. CASE Complete /\ CallRefused /\ page' = Resting
      BY <3>1, <3>7, <2>f, <1>i DEF PathInv, CallRefused, Resting
    <3>8. CASE /\ Complete /\ CallRefused
               /\ page'.op = page.op /\ page'.step = page.step /\ page'.outcome = page.outcome
      BY <3>1, <3>8, <2>f, <1>i DEF PathInv, CallRefused
    <3> QED  BY <2>6, <3>3, <3>4, <3>5, <3>6, <3>7, <3>8, <1>i, CallCases
  <2>7. CASE Execute
    <3>1. page'.op = page.op /\ page'.step = "report" /\ page.step = "execute"
      BY <2>7, <1>i DEF Execute, Inv, Shape, PageShape
    <3>2. UNCHANGED <<queue, snapshot>>
      BY <2>7 DEF Execute, helper
    <3> QED  BY <3>1, <3>2, <2>f, <1>i DEF PathInv
  <2>8. CASE Reload
    BY <2>8, <2>f, <1>i DEF Reload, helper, Resting, PathInv
  <2> QED
    <3>1. (\E o \in Ops : Create(o) \/ Dispatch(o)) => UNCHANGED <<queue, snapshot, page>>
      BY DEF Create, Dispatch, helper, ui
    <3>2. Resend \/ HandleUpdate \/ Connect \/ Lose \/ SendNext \/ TakeError
            => UNCHANGED <<queue, snapshot, page>>
      BY DEF Resend, HandleUpdate, Connect, Lose, SendNext, TakeError, helper, ui
    <3>3. UNCHANGED vars => UNCHANGED <<queue, snapshot, page>>
      BY DEF vars, helper, ui
    <3> QED
      BY <1>2, <2>1, <2>2, <2>3, <2>4, <2>5, <2>6, <2>7, <2>8, <3>1, <3>2, <3>3
      DEF Next, Serve, Relay, Work
<1> QED  BY <1>1, <1>2

\* An operation of which nothing was reported stays so until the page reports something.
LEMMA FreshKeep ==
  ASSUME Whole, [Next]_vars, NEW o \in Ops, Fresh(o), \A to \in Reports : ~Reporting(o, to)
  PROVE  Fresh(o)'
<1>i. Inv
  BY DEF Whole
<1>1. status'[o] \in Early
  <2>1. ASSUME NEW p \in Ops, Create(p) PROVE status'[o] \in Early
    <3>1. p # o
      BY <2>1 DEF Create, Fresh, Early
    <3> QED  BY <3>1, <2>1, <1>i DEF Create, Fresh, Inv, Shape, NetShape
  <2>2. ASSUME NEW p \in Ops, Dispatch(p) PROVE status'[o] \in Early
    <3>0. "waiting" \in Statuses \ {"submitted"}
      BY DEF Statuses, Pending, Early
    <3>1. Record(p, "waiting") => status'[o] \in Early
      BY <3>0, <1>i, RecordEffect DEF Inv, Fresh
    <3> QED  BY <3>1, <2>2 DEF Dispatch, Fresh
  <2>3. HandleUpdate => status'[o] = status[o]
    BY HandleFacts DEF Fresh
  <2>4. \/ \E p \in Ops : Create(p) \/ Dispatch(p)
        \/ HandleUpdate
        \/ UNCHANGED status
    BY <1>i, PageCalls DEF Next, Serve, Relay, Work, Resend, Connect, SendNext, TakeRequest, TakeAck,
      TakeError, Take, Begin, Execute, Lose, Reload, Restart, Inv, vars, server
  <2> QED  BY <2>1, <2>2, <2>3, <2>4 DEF Fresh
<1>2. first'[o] = "none"
  <2>1. CASE Restart
    <3>1. ~Ended(o)
      BY DEF Fresh, Ended, Early, Outcomes
    <3> QED  BY <2>1, <3>1 DEF Restart
  <2>2. CASE ~Restart
    <3>1. Outcomes \subseteq Reports
      BY DEF Reports, Statuses, Pending, Outcomes, Early
    <3> QED  BY <2>2, <3>1, <1>i, FirstStep DEF Fresh
  <2> QED  BY <2>1, <2>2
<1>3. \A f \in outbox' : f.op # o
  <2>1. CASE \E p \in Ops, to \in Reports : Reporting(p, to)
    <3>1. PICK p \in Ops : \E to \in Reports : Reporting(p, to)
      BY <2>1
    <3>2. PICK to \in Reports : Reporting(p, to)
      BY <3>1
    <3>3. p # o /\ Report(p, to)
      BY <3>2 DEF Reporting
    <3>4. \A f \in outbox' : f \in outbox \/ f.op = p
      BY <3>3, <1>i, ReportEffect DEF Inv
    <3> QED  BY <3>3, <3>4 DEF Fresh
  <2>2. CASE Restart
    BY <2>2 DEF Restart
  <2>3. CASE \A h \in outbox' : \E f \in outbox : Same(h, f)
    BY <2>3 DEF Same, Fresh
  <2> QED  BY <2>1, <2>2, <2>3, <1>i, BoxStep
<1>4. \A i \in 1..Len(wire') : wire'[i].op # o
  <2>1. CASE SendNext
    <3>1. PICK f \in outbox :
             /\ Len(wire') = Len(wire) + 1
             /\ \A i \in 1..Len(wire) : wire'[i] = wire[i]
             /\ wire'[Len(wire) + 1].op = f.op
      BY <2>1, SendFacts
    <3>2. Len(wire) \in Nat
      BY <1>i DEF Inv, Shape, NetShape
    <3>3. \A i \in 1..Len(wire') : i \in 1..Len(wire) \/ i = Len(wire) + 1
      BY <3>1, <3>2
    <3> QED  BY <3>1, <3>3 DEF Fresh
  <2>2. CASE HandleUpdate
    <3>1. \A i \in 1..Len(wire') : i + 1 \in 1..Len(wire) /\ wire'[i] = wire[i + 1]
      BY <2>2, HandleFacts
    <3> QED  BY <3>1 DEF Fresh
  <2>3. CASE wire' = wire
    BY <2>3 DEF Fresh
  <2>4. CASE wire' = <<>>
    BY <2>4
  <2> QED  BY <2>1, <2>2, <2>3, <2>4, <1>i, WireStep
<1> QED  BY <1>1, <1>2, <1>3, <1>4 DEF Fresh

\* What a step makes of the helper's copy: an early status comes from a request only.
LEMMA QueueStep ==
  ASSUME Whole, [Next]_vars, ~Restart, NEW o \in Ops
  PROVE  /\ known \subseteq known'
         /\ \/ queue'[o] = queue[o]
            \/ queue'[o] \in Outcomes \union {"none"}
            \/ queue'[o] \in Halfway /\ o \in known /\
                 ((\E i \in 1..Len(acks) : acks[i].op = o /\ acks[i].status = queue'[o])
                    \/ Reporting(o, queue'[o]))
            \/ /\ o \notin known /\ TakeRequest /\ queue'[o] \in Pending
               /\ <<o, queue'[o]>> \in requests
<1>i. Inv
  BY DEF Whole
<1>1. CASE TakeRequest
  <2>1. PICK q \in requests :
          IF q[1] \in known THEN UNCHANGED <<queue, known>>
          ELSE queue' = [queue EXCEPT ![q[1]] = q[2]] /\ known' = known \union {q[1]}
    BY <1>1 DEF TakeRequest
  <2>2. PICK p \in Ops, st \in Pending : q = <<p, st>>
    BY <2>1, <1>i DEF Inv, Shape, NetShape
  <2>3. queue'[o] = IF o = p /\ p \notin known THEN st ELSE queue[o]
    BY <2>1, <2>2, <1>i DEF Inv, Shape, HelperShape
  <2>4. known \subseteq known'
    BY <2>1
  <2> QED  BY <1>1, <2>1, <2>2, <2>3, <2>4
<1>2. CASE TakeAck
  <2>1. acks # <<>> /\ Head(acks) = acks[1] /\ 1 \in 1..Len(acks)
    BY <1>2, <1>i, HeadTail DEF TakeAck, Inv, Shape, NetShape
  <2>2. queue' = [queue EXCEPT ![acks[1].op] =
                    IF acks[1].status \in Outcomes \/ @ = "none" THEN "none" ELSE acks[1].status]
    BY <1>2, <2>1 DEF TakeAck
  <2>3. \/ queue'[o] = queue[o] \/ queue'[o] = "none"
        \/ o = acks[1].op /\ queue'[o] = acks[1].status /\ queue[o] # "none" /\ acks[1].status \notin Outcomes
    BY <2>2, <1>i DEF Inv, Shape, HelperShape
  <2>4. queue[o] # "none" => o \in known
    BY <1>i DEF Inv, KnownInv
  <2>5. acks[1] \in [op : Ops, status : Statuses \union {"none", "error"}]
    BY <2>1, <1>i, Elements DEF Inv, Shape, NetShape
  <2>6. acks[1].status \in Statuses
    <3>1. acks[1].status # "error" /\ acks[1].status # "none"
      BY <1>2, <2>1 DEF TakeAck, Whole, AckInv
    <3> QED  BY <2>5, <3>1
  <2>7. acks[1].status \notin Early
    BY <2>1, <1>i DEF Inv, ServerInv
  <2>8. acks[1].status \in Outcomes \union Halfway
    BY <2>6, <2>7 DEF Statuses, Pending, Halfway
  <2>9. known' = known
    BY <1>2 DEF TakeAck
  <2> QED  BY <2>1, <2>3, <2>4, <2>8, <2>9
<1>3. CASE Accept \/ Run \/ Complete
  <2>0. page.op \in Ops /\ known' = known
    BY <1>3, <1>i, CallCases
  <2>1. \A to : Report(page.op, to) =>
          queue'[o] = IF o = page.op /\ queue[o] # "none" THEN to ELSE queue[o]
    BY <2>0, <1>i, ReportFacts DEF Inv
  <2>2. queue[o] # "none" => o \in known
    BY <1>i DEF Inv, KnownInv
  <2>3. CASE \E p \in Ops, to \in Reports : Reporting(p, to)
    <3>1. PICK p \in Ops : \E to \in Reports : Reporting(p, to)
      BY <2>3
    <3>2. PICK to \in Reports : Reporting(p, to)
      BY <3>1
    <3>3. Report(page.op, to) /\ p = page.op
      BY <3>2 DEF Reporting
    <3>4. to \in Outcomes \union Halfway
      BY DEF Reports, Statuses, Pending, Halfway
    <3> QED  BY <2>0, <2>1, <2>2, <3>2, <3>3, <3>4
  <2>4. CASE UNCHANGED queue
    BY <2>0, <2>4
  <2>5. (\E p \in Ops, to \in Reports : Reporting(p, to)) \/ UNCHANGED queue
    BY <1>3, <1>i, Calls DEF Accept, Run, Complete, Reporting, Refuse
  <2> QED  BY <2>3, <2>4, <2>5
<1>4. CASE UNCHANGED <<queue, known>>
  BY <1>4
<1> QED
  <2>1. (\E p \in Ops : Create(p) \/ Dispatch(p)) => UNCHANGED <<queue, known>>
    BY DEF Create, Dispatch, helper
  <2>2. Resend \/ HandleUpdate \/ Connect \/ Lose \/ SendNext \/ TakeError => UNCHANGED <<queue, known>>
    BY DEF Resend, HandleUpdate, Connect, Lose, SendNext, TakeError, helper
  <2>3. Take \/ Begin \/ Execute \/ Reload \/ UNCHANGED vars => UNCHANGED <<queue, known>>
    BY DEF Take, Begin, Execute, Reload, vars, helper
  <2> QED
    BY <1>1, <1>2, <1>3, <1>4, <2>1, <2>2, <2>3 DEF Next, Serve, Relay, Work

\* What the page has before it comes from what it had, or from the helper's copy.
LEMMA SnapshotStep ==
  ASSUME Inv, [Next]_vars, NEW o \in Ops, NEW st \in Pending, <<o, st>> \in snapshot'
  PROVE  <<o, st>> \in snapshot \/ (Take /\ queue[o] = st)
<1>1. Begin \/ Reload \/ Restart => snapshot' \subseteq snapshot
  BY DEF Begin, Reload, Restart
<1>2. Take => queue[o] = st
  BY DEF Take
<1>3. Accept \/ Run \/ Complete => UNCHANGED snapshot
  BY PageCalls DEF Inv
<1>4. (\E p \in Ops : Create(p) \/ Dispatch(p)) => UNCHANGED snapshot
  BY DEF Create, Dispatch, ui
<1>5. Resend \/ HandleUpdate \/ Connect \/ Lose \/ SendNext \/ TakeRequest \/ TakeAck \/ TakeError \/ Execute
        => UNCHANGED snapshot
  BY DEF Resend, HandleUpdate, Connect, Lose, SendNext, TakeRequest, TakeAck, TakeError, Execute, ui
<1>6. UNCHANGED vars => UNCHANGED snapshot
  BY DEF vars, ui
<1> QED  BY <1>1, <1>2, <1>3, <1>4, <1>5, <1>6 DEF Next, Serve, Relay, Work

\* How the page comes to be where it is.
Begun(p, st) ==
  /\ <<p, st>> \in snapshot /\ snapshot' = snapshot \ {<<p, st>>} /\ page'.op = p
  /\ \/ st = "accepted" /\ page'.step = "run" /\ page'.outcome = "interrupted"
     \/ st = "running" /\ page'.step = "report" /\ page'.outcome = "interrupted"
     \/ st \in Early /\ page'.step = "accept" /\ page'.outcome = "none"
     \/ st \in Early /\ page'.step = "report" /\ page'.outcome = "refused"
Called(to) ==
  /\ page.op \in Ops /\ UNCHANGED <<snapshot, known>> /\ page'.op = page.op
  /\ \/ Reporting(page.op, to) /\ page'.step \in {"run", "execute"} /\ page'.outcome = page.outcome
     \/ /\ Run /\ Reporting(page.op, to) /\ page'.step = "report" /\ page'.outcome = page.outcome
        /\ page.outcome # "none"
     \/ /\ page.step = "accept" /\ CallRefused
        /\ page'.step = "report" /\ page'.outcome = "refused"
     \/ /\ page.step = "report" /\ CallRefused
        /\ page'.step = "report" /\ page'.outcome = page.outcome
LEMMA PageMoves ==
  ASSUME Whole, RunningTaken, [Next]_vars
  PROVE  \/ UNCHANGED <<page, executed, lost>>
         \/ page'.step = "rest" /\ page' = Resting
         \/ UNCHANGED <<executed, lost>> /\ Begin /\ \E p \in Ops, st \in Pending : Begun(p, st)
         \/ Execute /\ page'.op = page.op /\ page'.step = "report" /\ page'.outcome \in Real
         \/ UNCHANGED <<executed, lost>> /\ \E to \in Reports : Called(to)
<1>i. Inv
  BY DEF Whole
<1>p. page \in [op : Ops \union {"none"}, step : {"rest", "accept", "run", "execute", "report"},
                outcome : Outcomes \union {"none"}, tries : Nat]
  BY <1>i DEF Inv, Shape, PageShape
<1>1. CASE Begin
  <2>1. PICK t \in snapshot :
          /\ snapshot' = snapshot \ {t}
          /\ \/ t[2] = "accepted" /\ Undertake(t[1], "run", "interrupted")
             \/ t[2] = "running" /\ Undertake(t[1], "report", "interrupted")
             \/ t[2] \in Early /\ Undertake(t[1], "accept", "none")
             \/ t[2] \in Early /\ Undertake(t[1], "report", "refused")
    BY <1>1 DEF Begin
  <2>2. PICK p \in Ops, st \in Pending : t = <<p, st>>
    BY <2>1, <1>i DEF Inv, Shape, PageShape
  <2>3. Begun(p, st)
    BY <2>1, <2>2 DEF Undertake, Begun
  <2> QED  BY <1>1, <2>3 DEF Begin, history
<1>2. CASE Execute
  BY <1>2, <1>p DEF Execute, Real
<1>3. CASE Accept \/ Run \/ Complete
  <2>0. /\ Accept => page.step = "accept" /\ "accepted" \in Reports
        /\ Run => page.step = "run" /\ "running" \in Reports
        /\ Complete => page.step = "report" /\ page.outcome \in Reports
    BY <1>i, Calls DEF Accept, Run, Complete
  <2>1. page.op \in Ops /\ UNCHANGED <<snapshot, known, executed, lost>>
    BY <1>3, <1>i, CallCases
  <2>a. CASE Accept
    <3>1. CASE Report(page.op, "accepted") /\ page' = [page EXCEPT !.step = "run"]
      <4>1. page'.op = page.op /\ page'.step = "run" /\ page'.outcome = page.outcome
        BY <3>1, <1>p
      <4>2. Reporting(page.op, "accepted")
        BY <2>a, <3>1 DEF Reporting
      <4> QED  BY <2>0, <2>1, <2>a, <4>1, <4>2 DEF Called
    <3>2. CASE Refuse("accepted") /\ Reject
      <4>1. page'.op = page.op /\ page'.step = "report" /\ page'.outcome = "refused"
        BY <3>2, <1>p DEF Reject
      <4> QED  BY <2>0, <2>1, <2>a, <3>2, <4>1 DEF Called, CallRefused, Refuse
    <3> QED  BY <2>a, <3>1, <3>2 DEF Accept
  <2>b. CASE Run
    <3>1. CASE /\ Report(page.op, "running")
               /\ page' = [page EXCEPT !.step = IF page.outcome = "none" THEN "execute" ELSE "report"]
      <4>1. /\ page'.op = page.op /\ page'.outcome = page.outcome
            /\ page'.step = IF page.outcome = "none" THEN "execute" ELSE "report"
        BY <3>1, <1>p
      <4>2. Reporting(page.op, "running")
        BY <2>b, <3>1 DEF Reporting
      <4> QED  BY <2>0, <2>1, <2>b, <4>1, <4>2 DEF Called
    <3>2. CASE Refuse("running")
      BY <3>2 DEF Refuse, RunningTaken
    <3> QED  BY <2>b, <3>1, <3>2 DEF Run
  <2>c. CASE Complete
    <3>1. CASE page' = Resting
      BY <3>1 DEF Resting
    <3>2. CASE Refuse("completed") /\ page' = [page EXCEPT !.tries = @ + 1]
      <4>1. page'.op = page.op /\ page'.step = page.step /\ page'.outcome = page.outcome
        BY <3>2, <1>p
      <4> QED  BY <2>0, <2>1, <2>c, <3>2, <4>1 DEF Called, CallRefused, Refuse
    <3> QED  BY <2>c, <3>1, <3>2 DEF Complete
  <2> QED  BY <1>3, <2>a, <2>b, <2>c
<1>4. Reload \/ Restart => page' = Resting /\ page'.step = "rest"
  BY DEF Reload, Restart, Resting
<1>5. (\E p \in Ops : Create(p) \/ Dispatch(p)) => UNCHANGED <<page, executed, lost>>
  BY DEF Create, Dispatch, ui, history
<1>6. Resend \/ HandleUpdate \/ Connect \/ Lose \/ SendNext \/ TakeRequest \/ TakeAck \/ TakeError \/ Take
        => UNCHANGED <<page, executed, lost>>
  BY DEF Resend, HandleUpdate, Connect, Lose, SendNext, TakeRequest, TakeAck, TakeError, Take, ui, history
<1>7. UNCHANGED vars => UNCHANGED <<page, executed, lost>>
  BY DEF vars, ui, history
<1> QED
  BY <1>1, <1>2, <1>3, <1>4, <1>5, <1>6, <1>7 DEF Next, Serve, Relay, Work

\* A report takes the page on, and its operation's copy is no longer early.
LEMMA ReportingMoves ==
  ASSUME Whole, NEW o \in Ops, NEW to \in Reports, Reporting(o, to)
  PROVE  /\ Working(o) /\ page.op = o /\ queue'[o] \notin Early /\ Report(o, to)
         /\ page'.step \in {"run", "execute", "report", "rest"}
         /\ page'.step = "report" => page'.outcome = page.outcome /\ Run
         /\ UNCHANGED <<snapshot, known, requests, status, acks>>
<1>i. Inv
  BY DEF Whole
<1>p. page \in [op : Ops \union {"none"}, step : {"rest", "accept", "run", "execute", "report"},
                outcome : Outcomes \union {"none"}, tries : Nat]
  BY <1>i DEF Inv, Shape, PageShape
<1>1. Accept \/ Run \/ Complete
  BY DEF Reporting
<1>2. page.step # "rest" /\ page.op = o /\ Report(o, to)
  BY <1>i, <1>1, PageCalls DEF Inv, Reporting
<1>3. queue'[o] \notin Early
  BY <1>i, <1>2, ReportEffect DEF Inv
<1>4. UNCHANGED <<snapshot, known, requests, status, acks>>
  BY <1>i, <1>1, CallCases DEF net, server
<1>5. CASE page' = [page EXCEPT !.step = "run"]
  <2>1. page'.step = "run"
    BY <1>5, <1>p
  <2> QED  BY <1>2, <1>3, <1>4, <2>1 DEF Working
<1>6. CASE Run /\ page' = [page EXCEPT !.step = IF page.outcome = "none" THEN "execute" ELSE "report"]
  <2>1. page'.step \in {"execute", "report"} /\ page'.outcome = page.outcome
    BY <1>6, <1>p
  <2> QED  BY <1>2, <1>3, <1>4, <1>6, <2>1 DEF Working
<1>7. CASE page' = Resting
  <2>1. page'.step = "rest"
    BY <1>7 DEF Resting
  <2> QED  BY <1>2, <1>3, <1>4, <2>1 DEF Working
<1> QED  BY <1>5, <1>6, <1>7 DEF Reporting

\* What is taken for new stays new until the page reports on it.
LEMMA FreshStep == Whole /\ RunningTaken /\ [Next]_vars => FreshInv'
<1> SUFFICES ASSUME Whole, RunningTaken, [Next]_vars, NEW o \in Ops
             PROVE  /\ queue'[o] \in Early => Fresh(o)'
                    /\ \A st \in Early : <<o, st>> \in snapshot' => Fresh(o)'
                    /\ page'.op = o /\ page'.step = "accept" => Fresh(o)'
                    /\ Declining(o)' => Fresh(o)' /\ executed'[o] <= lost'[o]
                    /\ o \notin known' => first'[o] = "none" \/ Ended(o)'
  BY DEF FreshInv
<1>i. Inv /\ FreshInv /\ StepInv
  BY DEF Whole
<1>k. Fresh(o) /\ (\A to \in Reports : ~Reporting(o, to)) => Fresh(o)'
  BY FreshKeep
<1>r. \A to \in Reports : Reporting(o, to) =>
         /\ Working(o) /\ page.op = o /\ queue'[o] \notin Early
         /\ page'.step \in {"run", "execute", "report", "rest"}
         /\ page'.step = "report" => Run
  BY ReportingMoves
<1>w. Working(o) => o \in known /\ \A st \in Pending : <<o, st>> \notin snapshot
  BY <1>i DEF Inv, KnownInv, PageInv
<1>s. Early \subseteq Pending /\ "none" \notin Early /\ \A st \in Early : st \notin Outcomes \union Halfway
  BY DEF Pending, Early, Outcomes, Halfway
<1>1. queue'[o] \in Early => Fresh(o)'
  <2> SUFFICES ASSUME queue'[o] \in Early PROVE Fresh(o)'
    OBVIOUS
  <2>0. ~Restart
    <3>1. Restart => queue'[o] = "none"
      BY DEF Restart
    <3> QED  BY <3>1, <1>s
  <2>1. CASE queue'[o] = queue[o]
    BY <2>1, <1>i, <1>k, <1>r DEF FreshInv
  <2>2. CASE o \notin known /\ <<o, queue'[o]>> \in requests
    <3>1. status[o] \in Early
      BY <2>2, <1>i DEF Inv, RequestInv
    <3>2. first[o] = "none"
      BY <2>2, <3>1, <1>i, <1>s DEF FreshInv, Ended
    <3>3. Fresh(o)
      BY <2>2, <3>1, <3>2, <1>i DEF Fresh, Inv, KnownInv
    <3> QED  BY <3>3, <2>2, <1>k, <1>r, <1>w
  <2> QED  BY <2>0, <2>1, <2>2, <1>s, QueueStep
<1>2. ASSUME NEW st \in Early, <<o, st>> \in snapshot' PROVE Fresh(o)'
  <2>1. st \in Pending
    BY <1>s
  <2>2. CASE <<o, st>> \in snapshot
    <3>1. Fresh(o)
      BY <2>2, <1>i DEF FreshInv
    <3> QED  BY <2>1, <2>2, <3>1, <1>k, <1>r, <1>w
  <2>3. CASE Take /\ queue[o] = st
    <3>1. Fresh(o)
      BY <2>3, <1>i DEF FreshInv
    <3>2. page.step = "rest"
      BY <2>3 DEF Take, Resting
    <3> QED  BY <3>1, <3>2, <1>k, <1>r DEF Working
  <2> QED  BY <2>1, <2>2, <2>3, <1>2, <1>i, SnapshotStep
<1>b. ASSUME Begin, NEW p \in Ops, NEW st \in Pending, Begun(p, st), page'.op = o,
             page'.step = "accept" \/ page'.outcome = "refused"
      PROVE  Fresh(o)' /\ executed[o] <= lost[o]
  <2>1. p = o /\ st \in Early /\ <<o, st>> \in snapshot
    BY <1>b DEF Begun
  <2>2. page.step = "rest"
    BY <1>b DEF Begin, Resting
  <2>3. Fresh(o) /\ ~Spent(o)
    BY <2>1, <1>i DEF FreshInv, Inv, OnceInv
  <2>4. executed[o] \in Nat /\ lost[o] \in Nat
    BY <1>i DEF Inv, Shape, HistoryShape
  <2> QED  BY <2>2, <2>3, <2>4, <1>k, <1>r DEF Working, Spent
<1>3. page'.op = o /\ page'.step = "accept" => Fresh(o)'
  <2> SUFFICES ASSUME page'.op = o, page'.step = "accept" PROVE Fresh(o)'
    OBVIOUS
  <2>1. CASE UNCHANGED page
    BY <2>1, <1>i, <1>k, <1>r DEF FreshInv
  <2>2. CASE Begin /\ \E p \in Ops, st \in Pending : Begun(p, st)
    BY <2>2, <1>b
  <2>3. \A to : ~Called(to)
    BY DEF Called
  <2> QED  BY <2>1, <2>2, <2>3, PageMoves
<1>4. Declining(o)' => Fresh(o)' /\ executed'[o] <= lost'[o]
  <2> SUFFICES ASSUME Declining(o)' PROVE Fresh(o)' /\ executed'[o] <= lost'[o]
    OBVIOUS
  <2>0. page'.op = o /\ page'.step = "report" /\ page'.outcome = "refused"
    BY DEF Declining
  <2>n. page.step # "run" => \A to \in Reports : ~Reporting(o, to)
    BY <2>0, <1>r DEF Run
  <2>1. CASE UNCHANGED <<page, executed, lost>>
    BY <2>0, <2>1, <2>n, <1>i, <1>k DEF FreshInv, Declining
  <2>2. CASE UNCHANGED <<executed, lost>> /\ Begin /\ \E p \in Ops, st \in Pending : Begun(p, st)
    BY <2>0, <2>2, <1>b
  <2>3. CASE UNCHANGED <<executed, lost>> /\ \E to \in Reports : Called(to)
    <3>1. PICK to \in Reports : Called(to)
      BY <2>3
    <3>2. page.op = o
      BY <2>0, <3>1 DEF Called
    <3>3. CASE page.step = "accept"
      <4>1. Fresh(o) /\ ~Spent(o)
        BY <3>2, <3>3, <1>i DEF FreshInv, Inv, OnceInv, Before
      <4>2. executed[o] \in Nat /\ lost[o] \in Nat
        BY <1>i DEF Inv, Shape, HistoryShape
      <4> QED  BY <2>3, <2>n, <3>3, <4>1, <4>2, <1>k DEF Spent
    <3>4. CASE page.step = "report" /\ page.outcome = "refused"
      BY <2>3, <2>n, <3>2, <3>4, <1>i, <1>k DEF FreshInv, Declining
    <3>5. page.step = "run" => page.outcome # "refused"
      BY <1>i DEF StepInv
    <3> QED  BY <2>0, <3>1, <3>3, <3>4, <3>5 DEF Called, Run
  <2>4. "refused" \notin Real
    BY DEF Real
  <2> QED  BY <2>0, <2>1, <2>2, <2>3, <2>4, PageMoves
<1>5. o \notin known' => first'[o] = "none" \/ Ended(o)'
  <2>1. CASE Restart
    BY <2>1 DEF Restart, server, Ended
  <2>2. CASE ~Restart
    <3> SUFFICES ASSUME o \notin known' PROVE first'[o] = "none" \/ Ended(o)'
      OBVIOUS
    <3>1. o \notin known
      BY <2>2, QueueStep
    <3>2. \A to \in Reports : ~Reporting(o, to)
      BY <3>1, <1>r, <1>w
    <3>3. Outcomes \subseteq Reports
      BY DEF Reports, Statuses, Pending, Outcomes, Early
    <3>4. first[o] # "none" => Ended(o)
      BY <3>1, <1>i DEF FreshInv
    <3>5. Ended(o) => Ended(o)'
      BY <1>i, StatusStep DEF Ended
    <3> QED  BY <2>2, <3>2, <3>3, <3>4, <3>5, <1>i, FirstStep
  <2> QED  BY <2>1, <2>2
<1> QED  BY <1>1, <1>2, <1>3, <1>4, <1>5

\* Only the page carries an operation out, the one it works on; losses are only added.
LEMMA HistoryStep ==
  ASSUME Inv, [Next]_vars, NEW o \in Ops
  PROVE  /\ executed'[o] = executed[o] \/ (Execute /\ page.op = o)
         /\ lost[o] \in Nat /\ lost'[o] \in Nat /\ lost[o] <= lost'[o] /\ executed[o] \in Nat
<1>1. executed \in [Ops -> Nat] /\ lost \in [Ops -> Nat]
  BY DEF Inv, Shape, HistoryShape
<1>2. CASE Restart
  <2>1. lost'[o] = lost[o] + (IF status[o] \in Early THEN 1 ELSE 0) /\ executed' = executed
    BY <1>2 DEF Restart
  <2> QED  BY <2>1, <1>1
<1>3. CASE Execute
  <2>1. lost' = lost /\ executed' = [executed EXCEPT ![page.op] = executed[page.op] + 1]
    BY <1>3 DEF Execute
  <2>2. page.op # o => executed'[o] = executed[o]
    BY <2>1, <1>1
  <2> QED  BY <2>1, <2>2, <1>1, <1>3
<1>4. CASE UNCHANGED <<executed, lost>>
  BY <1>1, <1>4
<1> QED
  <2>1. (\E p \in Ops : Create(p) \/ Dispatch(p)) => UNCHANGED <<executed, lost>>
    BY DEF Create, Dispatch, history
  <2>2. Resend \/ HandleUpdate \/ Connect \/ Lose \/ SendNext \/ TakeRequest \/ TakeAck \/ TakeError
          => UNCHANGED <<executed, lost>>
    BY DEF Resend, HandleUpdate, Connect, Lose, SendNext, TakeRequest, TakeAck, TakeError, history
  <2>3. Take \/ Begin \/ Reload \/ UNCHANGED vars => UNCHANGED <<executed, lost>>
    BY DEF Take, Begin, Reload, vars, history
  <2>4. Accept \/ Run \/ Complete => UNCHANGED <<executed, lost>>
    BY CallCases
  <2> QED  BY <1>2, <1>3, <1>4, <2>1, <2>2, <2>3, <2>4 DEF Next, Serve, Relay, Work

\* The first result of an operation is that it was rejected beforehand.
RefusedNext(o) ==
  /\ executed'[o] <= lost'[o]
  /\ queue'[o] \notin Pending /\ ~Working(o)'
  /\ \A st \in Pending : <<o, st>> \notin snapshot'
  /\ \A f \in outbox' : f.op = o => f.report = "refused"
  /\ \A i \in 1..Len(wire') : wire'[i].op = o => wire'[i].report = "refused"
  /\ \A i \in 1..Len(acks') : acks'[i].op = o => acks'[i].status \in {"refused", "error"}
  /\ status'[o] \notin Outcomes => status'[o] \in Early
LEMMA RefusedFirst ==
  ASSUME Whole, [Next]_vars, NEW o \in Ops, Reporting(o, "refused"), first[o] = "none"
  PROVE  RefusedNext(o)
<1>i. Inv /\ FreshInv /\ AckInv
  BY DEF Whole
<1>0. "refused" \in Reports /\ "refused" \notin Pending
  BY DEF Reports, Statuses, Pending, Outcomes, Early
<1>1. Complete /\ o = page.op /\ page.outcome = "refused" /\ page' = Resting /\ Report(o, "refused")
  BY DEF Reporting
<1>2. Declining(o) /\ Working(o)
  BY <1>1 DEF Complete, Declining, Working
<1>3. Fresh(o) /\ executed[o] <= lost[o]
  BY <1>2, <1>i DEF FreshInv
<1>4. UNCHANGED <<server, net, snapshot, executed, lost>>
  BY <1>1, <1>i, CallCases
<1>5. executed'[o] <= lost'[o]
  BY <1>3, <1>4
<1>6. queue'[o] \notin Pending
  <2>1. queue'[o] = IF queue[o] # "none" THEN "refused" ELSE queue[o]
    BY <1>1, <1>i, ReportFacts DEF Inv
  <2>2. "none" \notin Pending
    BY DEF Pending, Early
  <2> QED  BY <2>1, <2>2, <1>0
<1>7. ~Working(o)'
  BY <1>1 DEF Working, Resting
<1>8. \A st \in Pending : <<o, st>> \notin snapshot'
  BY <1>2, <1>4, <1>i DEF Inv, PageInv
<1>9. \A f \in outbox' : f.op = o => f.report = "refused"
  BY <1>0, <1>1, <1>3, <1>i, ReportEffect DEF Inv, Fresh
<1>10. \A i \in 1..Len(wire') : wire'[i].op # o
  BY <1>3, <1>4 DEF Fresh, net
<1>11. ASSUME NEW i \in 1..Len(acks), acks[i].op = o PROVE acks[i].status = "error"
  <2>1. acks[i] \in [op : Ops, status : Statuses \union {"none", "error"}]
    BY <1>i, Elements DEF Inv, Shape, NetShape
  <2>2. acks[i].status \in Statuses \union {"none", "error"}
    BY <2>1
  <2>3. acks[i].status \notin Early /\ acks[i].status # "none"
    BY <1>i DEF Inv, ServerInv, AckInv
  <2>4. acks[i].status \notin Reports
    BY <1>3, <1>11, <1>i DEF AckInv, Fresh, Heard, Ended, Early, Outcomes
  <2> QED  BY <2>2, <2>3, <2>4 DEF Reports
<1>12. acks' = acks /\ status'[o] \in Early
  BY <1>3, <1>4 DEF net, server, Fresh
<1> QED  BY <1>5, <1>6, <1>7, <1>8, <1>9, <1>10, <1>11, <1>12 DEF RefusedNext

\* What is new on the connection and in the outbox says the same.
LEMMA RefusedFrames ==
  ASSUME Whole, [Next]_vars, ~Restart, NEW o \in Ops, first[o] = "refused"
  PROVE  /\ \A f \in outbox' : f.op = o => f.report = "refused"
         /\ \A i \in 1..Len(wire') : wire'[i].op = o => wire'[i].report = "refused"
         /\ \A i \in 1..Len(acks') : acks'[i].op = o => acks'[i].status \in {"refused", "error"}
         /\ status'[o] \notin Outcomes => status'[o] \in Early
<1>i. Inv /\ RefusedInv /\ TruthInv
  BY DEF Whole
<1>1. /\ ~Working(o) /\ \A f \in outbox : f.op = o => f.report = "refused"
      /\ \A i \in 1..Len(wire) : wire[i].op = o => wire[i].report = "refused"
      /\ \A i \in 1..Len(acks) : acks[i].op = o => acks[i].status \in {"refused", "error"}
      /\ ~Ended(o) => status[o] \in Early
  BY <1>i DEF RefusedInv
<1>2. \A f \in outbox' : f.op = o => f.report = "refused"
  <2>1. CASE \E p \in Ops, to \in Reports : Reporting(p, to)
    <3>1. PICK p \in Ops : \E to \in Reports : Reporting(p, to)
      BY <2>1
    <3>2. PICK to \in Reports : Reporting(p, to)
      BY <3>1
    <3>3. p # o /\ Report(p, to)
      BY <3>2, <1>1, ReportingMoves
    <3>4. \A f \in outbox' : f \in outbox \/ f.op = p
      BY <3>3, <1>i, ReportEffect DEF Inv
    <3> QED  BY <3>3, <3>4, <1>1
  <2>2. CASE \A h \in outbox' : \E f \in outbox : Same(h, f)
    BY <2>2, <1>1 DEF Same
  <2> QED  BY <2>1, <2>2, <1>i, BoxStep
<1>l. Len(wire) \in Nat /\ Len(acks) \in Nat
  BY <1>i DEF Inv, Shape, NetShape
<1>3. \A i \in 1..Len(wire') : wire'[i].op = o => wire'[i].report = "refused"
  <2>1. CASE SendNext
    <3>1. PICK f \in outbox :
             /\ Len(wire') = Len(wire) + 1
             /\ \A i \in 1..Len(wire) : wire'[i] = wire[i]
             /\ wire'[Len(wire) + 1].op = f.op /\ wire'[Len(wire) + 1].report = f.report
      BY <2>1, SendFacts
    <3>2. \A i \in 1..Len(wire') : i \in 1..Len(wire) \/ i = Len(wire) + 1
      BY <3>1, <1>l
    <3> QED  BY <3>1, <3>2, <1>1
  <2>2. CASE HandleUpdate
    <3>1. \A i \in 1..Len(wire') : i + 1 \in 1..Len(wire) /\ wire'[i] = wire[i + 1]
      BY <2>2, HandleFacts
    <3> QED  BY <3>1, <1>1
  <2>3. CASE wire' = wire \/ wire' = <<>>
    BY <2>3, <1>1
  <2> QED  BY <2>1, <2>2, <2>3, <1>i, WireStep
<1>h. ASSUME HandleUpdate
      PROVE  \E p \in Ops : /\ status'[o] = status[o] \/ p = o
                            /\ p = o => status'[o] = "refused"
                            /\ \/ acks' = Append(acks, [op |-> p, status |-> "error"])
                               \/ acks' = Append(acks, [op |-> p, status |-> status'[p]])
  <2>1. PICK p \in Ops : \E r \in Reports :
           /\ 1 \in 1..Len(wire) /\ wire[1].op = p /\ wire[1].report = r
           /\ \A q \in Ops \ {p} : status'[q] = status[q]
           /\ HeardNext(p, r)
           /\ ~Ended(p) /\ status'[p] \in Outcomes => status'[p] = first[p]
           /\ \/ acks' = Append(acks, [op |-> p, status |-> "error"])
              \/ acks' = Append(acks, [op |-> p, status |-> status'[p]])
    BY <1>h, HandleFacts
  <2>2. ASSUME p = o PROVE status'[o] = "refused"
    <3>1. HeardNext(o, "refused")
      BY <2>1, <2>2, <1>1
    <3>2. status'[o] \in Outcomes
      BY <3>1 DEF HeardNext
    <3>3. Ended(o) => status'[o] = first[o]
      BY <1>i, StatusStep DEF TruthInv
    <3> QED  BY <2>1, <2>2, <3>2, <3>3
  <2> QED  BY <2>1, <2>2
<1>4. \A i \in 1..Len(acks') : acks'[i].op = o => acks'[i].status \in {"refused", "error"}
  <2>1. CASE HandleUpdate
    <3>1. PICK p \in Ops :
            /\ p = o => status'[o] = "refused"
            /\ \/ acks' = Append(acks, [op |-> p, status |-> "error"])
               \/ acks' = Append(acks, [op |-> p, status |-> status'[p]])
      BY <2>1, <1>h
    <3>2. PICK st : acks' = Append(acks, [op |-> p, status |-> st]) /\ (st = "error" \/ st = status'[p])
      BY <3>1
    <3>3. acks \in Seq([op : Ops, status : Statuses \union {"none", "error"}])
      BY <1>i DEF Inv, Shape, NetShape
    <3>4. \A i \in 1..Len(acks') : (i \in 1..Len(acks) /\ acks'[i] = acks[i])
                                     \/ acks'[i] = [op |-> p, status |-> st]
      BY <3>2, <3>3
    <3>5. \A i \in 1..Len(acks') : (i \in 1..Len(acks) /\ acks'[i] = acks[i])
                                     \/ (acks'[i].op = p /\ acks'[i].status = st)
      BY <3>4
    <3> QED  BY <3>1, <3>2, <3>5, <1>1
  <2>2. CASE TakeAck
    <3>1. \A i \in 1..Len(acks') : i + 1 \in 1..Len(acks) /\ acks'[i] = acks[i + 1]
      BY <2>2, <1>i, HeadTail DEF TakeAck, Inv, Shape, NetShape
    <3> QED  BY <3>1, <1>1
  <2>3. CASE acks' = acks \/ acks' = <<>>
    BY <2>3, <1>1
  <2> QED  BY <2>1, <2>2, <2>3, <1>i, WireStep
<1>5. status'[o] \notin Outcomes => status'[o] \in Early
  <2>e. Ended(o) => status'[o] \in Outcomes
    BY <1>i, StatusStep DEF Ended
  <2> SUFFICES ASSUME status[o] \in Early, status'[o] \notin Outcomes PROVE status'[o] \in Early
    BY <1>1, <2>e
  <2>1. ASSUME NEW p \in Ops, Create(p) PROVE status'[o] \in Early
    <3>1. p # o
      BY <2>1 DEF Create, Early
    <3> QED  BY <3>1, <2>1, <1>i DEF Create, Inv, Shape, NetShape
  <2>2. ASSUME NEW p \in Ops, Dispatch(p) PROVE status'[o] \in Early
    <3>0. "waiting" \in Statuses \ {"submitted"}
      BY DEF Statuses, Pending, Early
    <3>1. Record(p, "waiting") => status'[o] \in Early
      BY <3>0, <1>i, RecordEffect DEF Inv
    <3> QED  BY <3>1, <2>2 DEF Dispatch
  <2>3. CASE HandleUpdate
    BY <2>3, <1>h DEF Outcomes
  <2>4. \/ \E p \in Ops : Create(p) \/ Dispatch(p)
        \/ HandleUpdate
        \/ UNCHANGED status
    BY <1>i, PageCalls DEF Next, Serve, Relay, Work, Resend, Connect, SendNext, TakeRequest, TakeAck,
      TakeError, Take, Begin, Execute, Lose, Reload, Restart, Inv, vars, server
  <2> QED  BY <2>1, <2>2, <2>3, <2>4
<1> QED  BY <1>2, <1>3, <1>4, <1>5

\* What was rejected beforehand stays away from the page.
LEMMA RefusedStep == Whole /\ RunningTaken /\ [Next]_vars => RefusedInv'
<1> SUFFICES ASSUME Whole, RunningTaken, [Next]_vars, NEW o \in Ops, first'[o] = "refused"
             PROVE  RefusedNext(o)
  BY DEF RefusedInv, RefusedNext, Ended
<1>i. Inv /\ FreshInv /\ AskedInv /\ RefusedInv /\ TruthInv
  BY DEF Whole
<1>h. /\ executed'[o] = executed[o] \/ (Execute /\ page.op = o)
      /\ lost[o] \in Nat /\ lost'[o] \in Nat /\ lost[o] <= lost'[o] /\ executed[o] \in Nat
  BY <1>i, HistoryStep
<1>0. "none" \notin Pending /\ \A st \in Outcomes : st \notin Pending
  BY DEF Pending, Early, Outcomes
<1>1. CASE Restart
  <2>1. status[o] = "refused" /\ Ended(o)
    BY <1>1 DEF Restart
  <2>2. first[o] = "refused"
    BY <2>1, <1>i DEF TruthInv
  <2>3. executed[o] <= lost[o]
    BY <2>2, <1>i DEF RefusedInv
  <2>4. executed'[o] <= lost'[o]
    BY <2>3, <1>1, <1>h DEF Restart
  <2>5. /\ queue'[o] = "none" /\ page'.step = "rest" /\ snapshot' = {} /\ outbox' = {}
        /\ wire' = <<>> /\ acks' = <<>> /\ status' = status
    BY <1>1 DEF Restart, Cut, Resting, server
  <2> QED  BY <2>1, <2>4, <2>5, <1>0 DEF RefusedNext, Working, Ended
<1>2. CASE ~Restart /\ first[o] = "none" /\ Reporting(o, "refused")
  BY <1>2, RefusedFirst
<1>3. CASE ~Restart /\ first[o] = "refused"
  <2>1. /\ executed[o] <= lost[o] /\ queue[o] \notin Pending /\ ~Working(o)
        /\ \A st \in Pending : <<o, st>> \notin snapshot
        /\ \A i \in 1..Len(acks) : acks[i].op = o => acks[i].status \in {"refused", "error"}
    BY <1>3, <1>i DEF RefusedInv
  <2>2. executed'[o] <= lost'[o]
    <3>1. executed'[o] = executed[o]
      BY <2>1, <1>h DEF Execute, Working
    <3> QED  BY <2>1, <3>1, <1>h
  <2>r. \A to \in Reports : ~Reporting(o, to)
    BY <2>1, ReportingMoves
  <2>3. queue'[o] \notin Pending
    <3>1. Halfway \subseteq Reports /\ \A st \in Halfway : st \notin {"refused", "error"}
      BY DEF Halfway, Reports, Statuses, Pending, Early
    <3>2. o \notin known => Ended(o)
      BY <1>3, <1>i DEF FreshInv
    <3>3. ASSUME o \notin known, NEW st \in Pending, <<o, st>> \in requests PROVE FALSE
      <4>1. status[o] \in Pending
        BY <3>3, <1>i DEF AskedInv, Inv, RequestInv, Pending
      <4> QED  BY <4>1, <3>2, <3>3, <1>0 DEF Ended
    <3> QED  BY <1>3, <2>1, <2>r, <3>1, <3>3, <1>0, QueueStep
  <2>4. ~Working(o)'
    <3>1. CASE UNCHANGED page
      BY <3>1, <2>1 DEF Working
    <3>2. ASSUME NEW p \in Ops, NEW st \in Pending, Begun(p, st) PROVE ~Working(o)'
      BY <3>2, <2>1 DEF Begun, Working
    <3>3. ASSUME NEW to \in Reports, Called(to) PROVE ~Working(o)'
      <4>1. page.op # o
        BY <3>3, <2>1, <2>r DEF Called, Working
      <4> QED  BY <3>3, <4>1 DEF Called, Working
    <3>4. Execute /\ page'.op = page.op => ~Working(o)'
      BY <2>1 DEF Execute, Working
    <3>5. page'.step = "rest" => ~Working(o)'
      BY DEF Working
    <3> QED  BY <3>1, <3>2, <3>3, <3>4, <3>5, PageMoves
  <2>5. \A st \in Pending : <<o, st>> \notin snapshot'
    BY <2>1, <1>i, SnapshotStep
  <2> QED  BY <1>3, <2>2, <2>3, <2>4, <2>5, RefusedFrames DEF RefusedNext
<1> QED  BY <1>1, <1>2, <1>3, <1>i, FirstStep

-----------------------------------------------------------------------------
(* Interruptions. *)

\* The counters count.
LEMMA CounterStep ==
  ASSUME Inv, CounterInv, [Next]_vars
  PROVE  /\ CounterInv'
         /\ reloads <= reloads' /\ restarts <= restarts' /\ refusals <= refusals'
         /\ Reload => reloads' = reloads + 1
         /\ Restart => restarts' = restarts + 1
<1> USE DEF CounterInv
<1>1. CASE Lose
  <2>1. losses' = losses + 1 /\ UNCHANGED <<reloads, restarts, refusals>>
    BY <1>1 DEF Lose
  <2>2. ~Reload /\ ~Restart
    BY <2>1 DEF Reload, Restart
  <2> QED  BY <2>1, <2>2
<1>2. CASE Reload
  <2>1. reloads' = reloads + 1 /\ UNCHANGED <<losses, restarts, refusals>>
    BY <1>2 DEF Reload
  <2>2. ~Restart
    BY <2>1 DEF Restart
  <2> QED  BY <2>1, <2>2
<1>3. CASE Restart
  <2>1. restarts' = restarts + 1 /\ UNCHANGED <<losses, reloads, refusals>>
    BY <1>3 DEF Restart
  <2>2. ~Reload
    BY <2>1 DEF Reload
  <2> QED  BY <2>1, <2>2
<1>4. CASE Accept \/ Run \/ Complete
  <2>1. losses' = losses /\ reloads' = reloads /\ restarts' = restarts
    BY <1>4 DEF Accept, Run, Complete
  <2>2. refusals' = refusals \/ refusals' = refusals + 1
    BY <1>4, CallCases DEF CallTaken, CallRefused
  <2>3. ~Reload /\ ~Restart
    BY <2>1 DEF Reload, Restart
  <2> QED  BY <2>1, <2>2, <2>3
<1>5. CASE UNCHANGED counters
  <2>1. UNCHANGED <<losses, reloads, restarts, refusals>>
    BY <1>5 DEF counters
  <2>2. ~Reload /\ ~Restart
    BY <2>1 DEF Reload, Restart
  <2> QED  BY <2>1, <2>2
<1> QED
  <2>1. (\E p \in Ops : Create(p) \/ Dispatch(p)) => UNCHANGED counters
    BY DEF Create, Dispatch
  <2>2. Resend \/ HandleUpdate \/ Connect \/ SendNext \/ TakeRequest \/ TakeAck \/ TakeError
          => UNCHANGED counters
    BY DEF Resend, HandleUpdate, Connect, SendNext, TakeRequest, TakeAck, TakeError
  <2>3. Take \/ Begin \/ Execute \/ UNCHANGED vars => UNCHANGED counters
    BY DEF Take, Begin, Execute, vars
  <2> QED
    BY <1>1, <1>2, <1>3, <1>4, <1>5, <2>1, <2>2, <2>3 DEF Next, Serve, Relay, Work

\* What has gone without a fault until the next state has gone without one so far.
LEMMA FaultlessStep ==
  ASSUME Inv, CounterInv, [Next]_vars, Faultless'
  PROVE  Faultless /\ ~Reload /\ ~Restart /\ ~CallRefused
<1>1. /\ CounterInv'
      /\ reloads <= reloads' /\ restarts <= restarts' /\ refusals <= refusals'
      /\ Reload => reloads' = reloads + 1
      /\ Restart => restarts' = restarts + 1
  BY CounterStep
<1>2. reloads' = 0 /\ restarts' = 0 /\ refusals' = 0
  BY DEF Faultless
<1>3. losses \in Nat /\ reloads \in Nat /\ restarts \in Nat /\ refusals \in Nat
  BY DEF CounterInv
<1>4. CallRefused => refusals' = refusals + 1
  BY DEF CallRefused
<1>5. reloads = 0 /\ restarts = 0 /\ refusals = 0
  BY <1>1, <1>2, <1>3
<1>6. ~Reload /\ ~Restart /\ ~CallRefused
  BY <1>1, <1>2, <1>4, <1>5
<1> QED  BY <1>5, <1>6 DEF Faultless

\* The page leaves an operation with a result, unless there is a fault.
LEMMA PageEnds ==
  ASSUME Whole, RunningTaken, [Next]_vars, NEW o \in Ops, Working(o), ~Working(o)',
         ~Reload, ~Restart, ~CallRefused
  PROVE  \E to \in Outcomes : Reporting(o, to)
<1>i. Inv
  BY DEF Whole
<1>1. page.op = o /\ page.step # "rest" /\ (page'.op = o => page'.step = "rest")
  BY DEF Working
<1>2. CASE Accept \/ Run \/ Complete
  <2>1. Accept \/ Run => page'.op = page.op /\ page'.step # "rest"
    BY <1>i, CallCases DEF CallTaken, Accept, Run, Complete
  <2>2. Complete /\ page.outcome \in Outcomes
    BY <1>1, <1>2, <1>i, <2>1, Calls
  <2>3. Report(page.op, page.outcome) /\ page' = Resting
    BY <2>2, <1>i, CallCases DEF Accept, Run, Complete
  <2> QED  BY <2>2, <2>3, <1>1 DEF Reporting
<1>3. Execute => page'.op = page.op /\ page'.step # "rest"
  <2>1. page \in [op : Ops \union {"none"}, step : {"rest", "accept", "run", "execute", "report"},
                  outcome : Outcomes \union {"none"}, tries : Nat]
    BY <1>i DEF Inv, Shape, PageShape
  <2> QED  BY <2>1 DEF Execute
<1>4. ~Begin
  BY <1>1 DEF Begin, Resting
<1>5. (\E p \in Ops : Create(p) \/ Dispatch(p)) => UNCHANGED page
  BY DEF Create, Dispatch, ui
<1>6. Resend \/ HandleUpdate \/ Connect \/ Lose \/ SendNext \/ TakeRequest \/ TakeAck \/ TakeError \/ Take
        => UNCHANGED page
  BY DEF Resend, HandleUpdate, Connect, Lose, SendNext, TakeRequest, TakeAck, TakeError, Take, ui
<1>7. UNCHANGED vars => UNCHANGED page
  BY DEF vars, ui
<1>8. ~UNCHANGED page
  BY <1>1
<1> QED  BY <1>1, <1>2, <1>3, <1>4, <1>5, <1>6, <1>7, <1>8 DEF Next, Serve, Relay, Work

\* The helper's copy of an operation ends with a report, and does not come back.
LEMMA QueueEnds ==
  ASSUME Inv, [Next]_vars, ~Restart, NEW o \in Ops
  PROVE  /\ queue'[o] \in Outcomes
              => queue[o] \in Outcomes \/ \E to \in Outcomes : Reporting(o, to)
         /\ o \in known /\ queue[o] = "none" => queue'[o] = "none"
<1>0. "none" \notin Outcomes /\ Pending \intersect Outcomes = {}
  BY DEF Outcomes, Pending, Early
<1>1. CASE TakeRequest
  <2>1. PICK q \in requests :
          IF q[1] \in known THEN UNCHANGED <<queue, known>>
          ELSE queue' = [queue EXCEPT ![q[1]] = q[2]] /\ known' = known \union {q[1]}
    BY <1>1 DEF TakeRequest
  <2>2. PICK p \in Ops, st \in Pending : q = <<p, st>>
    BY <2>1 DEF Inv, Shape, NetShape
  <2>3. queue'[o] = IF o = p /\ p \notin known THEN st ELSE queue[o]
    BY <2>1, <2>2 DEF Inv, Shape, HelperShape
  <2> QED  BY <2>2, <2>3, <1>0
<1>2. CASE TakeAck
  <2> DEFINE a == Head(acks)
  <2>1. queue' = [queue EXCEPT ![a.op] = IF a.status \in Outcomes \/ @ = "none" THEN "none" ELSE a.status]
    BY <1>2 DEF TakeAck
  <2> HIDE DEF a
  <2>2. \/ queue'[o] = queue[o] \/ queue'[o] = "none"
        \/ queue'[o] = a.status /\ queue[o] # "none" /\ a.status \notin Outcomes
    BY <2>1 DEF Inv, Shape, HelperShape
  <2> QED  BY <2>2, <1>0
<1>3. CASE Accept \/ Run \/ Complete
  <2>1. (\E p \in Ops, to \in Reports : Reporting(p, to)) \/ UNCHANGED queue
    BY <1>3, Calls DEF Accept, Run, Complete, Reporting, Refuse
  <2>2. CASE \E p \in Ops, to \in Reports : Reporting(p, to)
    <3>1. PICK p \in Ops : \E to \in Reports : Reporting(p, to)
      BY <2>2
    <3>2. PICK to \in Reports : Reporting(p, to)
      BY <3>1
    <3>3. Report(p, to)
      BY <3>2 DEF Reporting
    <3>4. queue'[o] = IF o = p /\ queue[p] # "none" THEN to ELSE queue[o]
      BY <3>3, ReportFacts DEF Inv
    <3> QED  BY <3>2, <3>4, <1>0
  <2>3. CASE UNCHANGED queue
    BY <2>3
  <2> QED  BY <2>1, <2>2, <2>3
<1>4. CASE UNCHANGED queue
  BY <1>4
<1> QED
  <2>1. (\E p \in Ops : Create(p) \/ Dispatch(p)) => UNCHANGED queue
    BY DEF Create, Dispatch, helper
  <2>2. Resend \/ HandleUpdate \/ Connect \/ Lose \/ SendNext \/ TakeError => UNCHANGED queue
    BY DEF Resend, HandleUpdate, Connect, Lose, SendNext, TakeError, helper
  <2>3. Take \/ Begin \/ Execute \/ Reload \/ UNCHANGED vars => UNCHANGED queue
    BY DEF Take, Begin, Execute, Reload, vars, helper
  <2> QED
    BY <1>1, <1>2, <1>3, <1>4, <2>1, <2>2, <2>3 DEF Next, Serve, Relay, Work

\* Without a fault, what the page finds half done was reported to have ended.
LEMMA InterruptStep == Whole /\ RunningTaken /\ [Next]_vars => InterruptInv'
<1> SUFFICES ASSUME Whole, RunningTaken, [Next]_vars, Faultless', NEW o \in Ops
             PROVE  /\ first'[o] # "interrupted"
                    /\ o \notin known' => status'[o] \in Early \union {"none"}
                    /\ \A st \in Halfway : <<o, st>> \in snapshot' => first'[o] # "none"
                    /\ page'.op = o /\ page'.outcome = "interrupted" => first'[o] # "none"
                    /\ queue'[o] \in Halfway /\ ~Working(o)' => first'[o] # "none"
                    /\ queue'[o] \in Outcomes => first'[o] # "none"
  BY DEF InterruptInv
<1>i. Inv /\ CounterInv /\ InterruptInv /\ FreshInv /\ AckInv /\ AskedInv
  BY DEF Whole
<1>f. Faultless /\ ~Reload /\ ~Restart /\ ~CallRefused
  BY <1>i, FaultlessStep
<1>g. /\ first[o] # "interrupted"
      /\ o \notin known => status[o] \in Early \union {"none"}
      /\ \A st \in Halfway : <<o, st>> \in snapshot => first[o] # "none"
      /\ page.op = o /\ page.outcome = "interrupted" => first[o] # "none"
      /\ queue[o] \in Halfway /\ ~Working(o) => first[o] # "none"
      /\ queue[o] \in Outcomes => first[o] # "none"
  BY <1>i, <1>f DEF InterruptInv
<1>m. \/ first'[o] = first[o]
      \/ first[o] = "none" /\ Reporting(o, first'[o]) /\ first'[o] \in Outcomes
  BY <1>i, <1>f, FirstStep
<1>n. first[o] # "none" => first'[o] # "none"
  BY <1>m
<1>r. ASSUME NEW to \in Outcomes, Reporting(o, to) PROVE first'[o] # "none"
  <2>1. Report(o, to)
    BY <1>r DEF Reporting
  <2> QED  BY <2>1, <1>n, <1>i, ReportFacts DEF Inv, Outcomes
<1>1. first'[o] # "interrupted"
  <2>1. Reporting(o, "interrupted") => page.op = o /\ page.outcome = "interrupted"
    BY DEF Reporting
  <2> QED  BY <2>1, <1>g, <1>m
<1>2. o \notin known' => status'[o] \in Early \union {"none"}
  <2> SUFFICES ASSUME o \notin known' PROVE status'[o] \in Early \union {"none"}
    OBVIOUS
  <2>0. o \notin known
    BY <1>f, QueueStep
  <2>1. ASSUME NEW p \in Ops, Create(p) PROVE status'[o] \in Early \union {"none"}
    BY <2>0, <2>1, <1>g, <1>i DEF Create, Early, Inv, Shape, NetShape
  <2>2. ASSUME NEW p \in Ops, Dispatch(p) PROVE status'[o] \in Early \union {"none"}
    <3>0. "waiting" \in Statuses \ {"submitted"}
      BY DEF Statuses, Pending, Early
    <3>1. Record(p, "waiting") => status'[o] \in Early \union {"none"}
      BY <3>0, <2>0, <1>g, <1>i, RecordEffect DEF Inv
    <3> QED  BY <3>1, <2>0, <2>2, <1>g DEF Dispatch
  <2>3. HandleUpdate => status'[o] = status[o]
    BY <2>0, HandleFacts
  <2>4. \/ \E p \in Ops : Create(p) \/ Dispatch(p)
        \/ HandleUpdate
        \/ UNCHANGED status
    BY <1>i, PageCalls DEF Next, Serve, Relay, Work, Resend, Connect, SendNext, TakeRequest, TakeAck,
      TakeError, Take, Begin, Execute, Lose, Reload, Restart, Inv, vars, server
  <2> QED  BY <2>0, <2>1, <2>2, <2>3, <2>4, <1>g
<1>3. ASSUME NEW st \in Halfway, <<o, st>> \in snapshot' PROVE first'[o] # "none"
  <2>1. st \in Pending
    BY DEF Halfway, Pending
  <2>2. Take => ~Working(o)
    BY DEF Take, Resting, Working
  <2> QED  BY <2>1, <2>2, <1>3, <1>g, <1>i, <1>n, SnapshotStep
<1>4. ASSUME page'.op = o, page'.outcome = "interrupted" PROVE first'[o] # "none"
  <2>1. ASSUME NEW p \in Ops, NEW st \in Pending, Begun(p, st) PROVE first[o] # "none"
    BY <1>4, <2>1, <1>g DEF Begun, Halfway
  <2>2. ASSUME NEW to \in Reports, Called(to) PROVE first[o] # "none"
    BY <1>4, <2>2, <1>g DEF Called
  <2>3. page' = Resting => page'.outcome = "none"
    BY DEF Resting
  <2>4. "interrupted" \notin Real
    BY DEF Real
  <2> QED  BY <1>4, <2>1, <2>2, <2>3, <2>4, <1>g, <1>n, PageMoves
<1>5. ASSUME queue'[o] \in Halfway, ~Working(o)' PROVE first'[o] # "none"
  <2>1. CASE Working(o)
    BY <1>5, <2>1, <1>f, <1>r, PageEnds
  <2>2. CASE ~Working(o)
    <3>1. \A to \in Reports : ~Reporting(o, to)
      BY <2>2, ReportingMoves
    <3>2. Halfway \subseteq Reports /\ \A st \in Halfway : st \notin Outcomes \union {"none"}
      BY DEF Halfway, Reports, Statuses, Pending, Early, Outcomes
    <3>3. CASE queue'[o] = queue[o]
      BY <1>5, <2>2, <3>3, <1>g, <1>n
    <3>4. CASE o \in known /\ \E i \in 1..Len(acks) : acks[i].op = o /\ acks[i].status = queue'[o]
      <4>1. Heard(o, queue'[o])
        BY <1>5, <3>2, <3>4, <1>i DEF AckInv
      <4>2. ~Fresh(o)
        BY <4>1 DEF Fresh, Heard, Ended, Early, Outcomes
      <4>3. queue[o] \notin Early
        BY <4>2, <1>i DEF FreshInv
      <4>4. queue[o] # "none"
        BY <1>5, <3>2, <3>4, <1>f, <1>i, QueueEnds
      <4>5. queue[o] \in Halfway \union Outcomes
        BY <4>3, <4>4, <1>i DEF Inv, Shape, HelperShape, Statuses, Pending, Halfway
      <4> QED  BY <4>5, <2>2, <1>g, <1>n
    <3>5. CASE o \notin known /\ <<o, queue'[o]>> \in requests
      <4>1. status[o] \in Halfway
        BY <1>5, <3>5, <1>i DEF AskedInv, Halfway
      <4> QED  BY <4>1, <3>5, <1>g DEF Halfway, Early
    <3> QED  BY <1>5, <1>f, <3>1, <3>2, <3>3, <3>4, <3>5, QueueStep
  <2> QED  BY <2>1, <2>2
<1>6. queue'[o] \in Outcomes => first'[o] # "none"
  BY <1>f, <1>g, <1>i, <1>n, <1>r, QueueEnds
<1> QED  BY <1>1, <1>2, <1>3, <1>4, <1>5, <1>6

-----------------------------------------------------------------------------
(* The theorems. *)

\* At first nothing was created, sent or reported.
LEMMA InitWhole == Init => Whole
<1> SUFFICES ASSUME Init PROVE Whole
  OBVIOUS
<1>1. Inv
  BY InitInv
<1>2. NumberInv /\ CounterInv
  BY DEF Init, NumberInv, CounterInv
<1>3. StepInv
  BY DEF Init, StepInv, Resting, Real
<1>4. AckInv /\ BoxInv /\ WireInv /\ SentInv
  BY DEF Init, AckInv, BoxInv, WireInv, SentInv
<1>5. PathInv /\ AskedInv
  BY DEF Init, PathInv, AskedInv, Resting
<1>6. FreshInv
  BY DEF Init, FreshInv, Declining, Resting, Early
<1>7. RefusedInv
  BY DEF Init, RefusedInv
<1>8. TruthInv
  BY DEF Init, TruthInv, Ended, Outcomes
<1>9. InterruptInv
  BY DEF Init, InterruptInv, Resting, Halfway, Early, Outcomes
<1> QED  BY <1>1, <1>2, <1>3, <1>4, <1>5, <1>6, <1>7, <1>8, <1>9 DEF Whole

\* The conjuncts of Whole together are inductive.
LEMMA WholeStep == Whole /\ RunningTaken /\ [Next]_vars => Whole'
<1> SUFFICES ASSUME Whole, RunningTaken, [Next]_vars PROVE Whole'
  OBVIOUS
<1>1. Inv' /\ NumberInv' /\ CounterInv'
  BY InvStep, NumberStep, CounterStep DEF Whole
<1>2. StepInv' /\ AckInv' /\ BoxInv' /\ WireInv' /\ SentInv'
  BY StepStep, AckStep, BoxInvStep, WireInvStep, SentStep
<1>3. PathInv' /\ AskedInv' /\ FreshInv' /\ RefusedInv' /\ TruthInv' /\ InterruptInv'
  BY PathStep, AskedStep, FreshStep, RefusedStep, TruthStep, InterruptStep
<1> QED  BY <1>1, <1>2, <1>3 DEF Whole

\* The browser is told the truth: whatever connections are lost, pages loaded again,
\* requests repeated and confirmations late, an operation ends at the server with the first
\* result the page reported, which says whether it was carried out, and as interrupted only
\* after a fault (update_operation_status, WebDeviceOutbox, OperationQueue, reportCompletion).
THEOREM ResultAlways == ASSUME RunningTaken PROVE Spec => []ResultTruthful
<1>1. Init => Whole
  BY InitWhole
<1>2. Whole /\ [Next]_vars => Whole'
  BY WholeStep
<1>3. ASSUME Whole PROVE ResultTruthful
  <2> SUFFICES ASSUME NEW o \in Ops, Ended(o)
               PROVE  /\ status[o] = first[o]
                      /\ status[o] \in {"succeeded", "failed", "rejected"} => executed[o] > 0
                      /\ status[o] = "refused" => executed[o] <= lost[o]
                      /\ status[o] = "interrupted" => reloads + restarts + refusals > 0
    BY DEF ResultTruthful
  <2>1. status[o] = first[o]
    BY <1>3 DEF Whole, TruthInv
  <2>2. status[o] \in {"succeeded", "failed", "rejected"} => executed[o] > 0
    BY <1>3, <2>1 DEF Whole, StepInv, Real
  <2>3. status[o] = "refused" => executed[o] <= lost[o]
    BY <1>3, <2>1 DEF Whole, RefusedInv
  <2>4. status[o] = "interrupted" => ~Faultless
    BY <1>3, <2>1 DEF Whole, InterruptInv
  <2>5. reloads \in Nat /\ restarts \in Nat /\ refusals \in Nat
    BY <1>3 DEF Whole, CounterInv
  <2>6. ~Faultless => reloads + restarts + refusals > 0
    BY <2>5 DEF Faultless
  <2> QED  BY <2>1, <2>2, <2>3, <2>4, <2>6
<1> QED  BY <1>1, <1>2, <1>3, PTL DEF Spec

\* The rest of the shape: the connection, the confirmations and the page's attempts.
LinkInv ==
  /\ dispatching \subseteq Ops /\ link \in {"down", "hello", "up"} /\ DownInv
  /\ \A i \in 1..Len(acks) : acks[i].status # "none"
  /\ page.tries \in 0..(Attempts - 1)

\* Every step keeps it: nothing is under way on a connection that is down, a confirmation
\* names a status, and reportCompletion gives up after the last attempt.
LEMMA LinkStep == Inv /\ LinkInv /\ [Next]_vars => LinkInv'
<1> SUFFICES ASSUME Inv, LinkInv, [Next]_vars PROVE LinkInv'
  OBVIOUS
<1> DEFINE Acked == \A i \in 1..Len(acks) : acks[i].status # "none"
           Tried == page.tries \in 0..(Attempts - 1)
<1>a. /\ dispatching \subseteq Ops /\ link \in {"down", "hello", "up"} /\ DownInv
      /\ Acked /\ Tried /\ Attempts \in Nat \ {0}
  BY OperationsAssumption DEF LinkInv
<1>b. ASSUME dispatching' \subseteq Ops, link' \in {"down", "hello", "up"}, DownInv', Acked', Tried'
      PROVE  LinkInv'
  BY <1>b DEF LinkInv
<1>r. page' = Resting => Tried'
  <2>1. Resting.tries = 0
    BY DEF Resting
  <2> QED  BY <2>1, <1>a
<1> HIDE DEF Tried
<1>c. UNCHANGED <<link, requests, wire, acks>> => DownInv' /\ Acked' /\ link' \in {"down", "hello", "up"}
  BY <1>a DEF DownInv
<1>d. UNCHANGED page => Tried'
  BY <1>a DEF Tried
<1>e. Cut => DownInv' /\ Acked' /\ link' \in {"down", "hello", "up"}
  BY DEF Cut, DownInv
<1>1. ASSUME NEW o \in Ops, Create(o) PROVE LinkInv'
  BY <1>1, <1>a, <1>b, <1>c, <1>d DEF Create, net, ui
<1>2. ASSUME NEW o \in Ops, Dispatch(o) PROVE LinkInv'
  <2>1. DownInv' /\ Acked' /\ link' \in {"down", "hello", "up"}
    BY <1>2, <1>a DEF Dispatch, DownInv
  <2> QED  BY <2>1, <1>2, <1>a, <1>b, <1>d DEF Dispatch, ui
<1>3. CASE Resend
  <2>1. DownInv' /\ Acked' /\ link' \in {"down", "hello", "up"}
    BY <1>3, <1>a DEF Resend, DownInv
  <2> QED  BY <2>1, <1>3, <1>a, <1>b, <1>d DEF Resend, server, ui
<1>4. CASE HandleUpdate
  <2> DEFINE f == Head(wire)
  <2>1. f \in [op : Ops, report : Reports] /\ f = wire[1] /\ 1 \in 1..Len(wire)
    BY <1>4, HeadTail DEF HandleUpdate, Inv, Shape, NetShape
  <2>2. f.op \in Ops /\ f.report \in Statuses \ {"submitted"} /\ Record(f.op, f.report)
    BY <2>1, <1>4 DEF HandleUpdate, Reports, Early
  <2>3. f.op \in known
    BY <2>1, <2>2 DEF Inv, KnownInv
  <2>4. status'[f.op] # "none"
    BY <2>2, <2>3, RecordEffect DEF Inv, RequestInv
  <2>5. PICK st : st # "none" /\ acks' = Append(acks, [op |-> f.op, status |-> st])
    BY <2>4, <1>4 DEF HandleUpdate
  <2>6. Acked'
    <3>1. acks \in Seq([op : Ops, status : Statuses \union {"none", "error"}])
      BY DEF Inv, Shape, NetShape
    <3>2. \A i \in 1..Len(acks') : (i \in 1..Len(acks) /\ acks'[i] = acks[i])
                                     \/ acks'[i] = [op |-> f.op, status |-> st]
      BY <2>5, <3>1
    <3>3. \A i \in 1..Len(acks') : (i \in 1..Len(acks) /\ acks'[i] = acks[i]) \/ acks'[i].status = st
      BY <3>2
    <3> QED  BY <2>5, <3>3, <1>a
  <2>7. link' = "up" /\ dispatching' = dispatching /\ page' = page
    BY <1>4 DEF HandleUpdate, ui
  <2> QED  BY <2>6, <2>7, <1>a, <1>b, <1>d DEF DownInv
<1>5. CASE Connect
  <2>1. DownInv' /\ Acked' /\ link' \in {"down", "hello", "up"}
    BY <1>5, <1>a DEF Connect, DownInv
  <2> QED  BY <2>1, <1>5, <1>a, <1>b, <1>d DEF Connect, server, ui
<1>6. CASE Lose \/ TakeError
  BY <1>6, <1>a, <1>b, <1>d, <1>e DEF Lose, TakeError, server, ui
<1>7. CASE SendNext
  <2>1. DownInv' /\ Acked' /\ link' \in {"down", "hello", "up"}
    BY <1>7, <1>a DEF SendNext, DownInv
  <2> QED  BY <2>1, <1>7, <1>a, <1>b, <1>d DEF SendNext, server, ui
<1>8. CASE TakeRequest
  <2>1. DownInv' /\ Acked' /\ link' \in {"down", "hello", "up"}
    BY <1>8, <1>a DEF TakeRequest, DownInv
  <2> QED  BY <2>1, <1>8, <1>a, <1>b, <1>d DEF TakeRequest, server, ui
<1>9. CASE TakeAck
  <2>1. \A i \in 1..Len(acks') : i + 1 \in 1..Len(acks) /\ acks'[i] = acks[i + 1]
    BY <1>9, HeadTail DEF TakeAck, Inv, Shape, NetShape
  <2>2. Acked' /\ link' = link /\ requests' = requests /\ wire' = wire /\ link # "down"
    BY <2>1, <1>9, <1>a DEF TakeAck, DownInv
  <2> QED  BY <2>2, <1>9, <1>a, <1>b, <1>d DEF TakeAck, server, ui, DownInv
<1>10. CASE Take \/ Execute
  <2>1. Tried'
    BY <1>10, <1>a DEF Take, Execute, Tried, Inv, Shape, PageShape
  <2> QED  BY <2>1, <1>10, <1>a, <1>b, <1>c DEF Take, Execute, server, net
<1>11. CASE Begin
  <2>1. Tried'
    BY <1>11, <1>a DEF Begin, Undertake, Tried
  <2> QED  BY <2>1, <1>11, <1>a, <1>b, <1>c DEF Begin, server, net
<1>12. CASE Accept \/ Run \/ Complete
  <2>p. page \in [op : Ops \union {"none"}, step : {"rest", "accept", "run", "execute", "report"},
                  outcome : Outcomes \union {"none"}, tries : Nat]
    BY DEF Inv, Shape, PageShape
  <2>1. Accept \/ Run => page'.tries = page.tries
    BY <2>p DEF Accept, Run, Reject
  <2>2. Complete => page' = Resting \/ (page'.tries = page.tries + 1 /\ page.tries + 1 # Attempts)
    BY <2>p DEF Complete
  <2>3. Tried'
    BY <2>1, <2>2, <1>12, <1>a, <1>r DEF Tried
  <2> QED  BY <2>3, <1>12, <1>a, <1>b, <1>c, CallCases DEF server, net
<1>13. CASE Reload
  BY <1>13, <1>a, <1>b, <1>c, <1>r DEF Reload, server, net
<1>14. CASE Restart
  BY <1>14, <1>a, <1>b, <1>e, <1>r DEF Restart, server
<1>15. CASE UNCHANGED vars
  BY <1>15, <1>a, <1>b, <1>c, <1>d DEF vars, server, net, ui
<1> QED
  BY <1>1, <1>2, <1>3, <1>4, <1>5, <1>6, <1>7, <1>8, <1>9, <1>10, <1>11, <1>12, <1>13, <1>14, <1>15
  DEF Next, Serve, Relay, Work

\* The variables hold what their comments say, and the page never tries longer than
\* MAX_COMPLETION_REPORT_ATTEMPTS; whatever reports may be refused.
THEOREM TypeAlways == Spec => []TypeOK
<1>1. Init => Inv /\ NumberInv /\ LinkInv
  <2>1. Init => Inv /\ NumberInv
    BY InitWhole DEF Whole
  <2>2. Init => LinkInv
    BY OperationsAssumption DEF Init, LinkInv, DownInv, Resting
  <2> QED  BY <2>1, <2>2
<1>2. Inv /\ NumberInv /\ LinkInv /\ [Next]_vars => Inv' /\ NumberInv' /\ LinkInv'
  BY InvStep, NumberStep, LinkStep
<1>3. ASSUME Inv, NumberInv, LinkInv PROVE TypeOK
  <2>1. Shape
    BY <1>3 DEF Inv
  <2>0. /\ wire \in Seq([op : Ops, report : Reports])
        /\ acks \in Seq([op : Ops, status : Statuses \union {"none", "error"}])
    BY <2>1 DEF Shape, NetShape
  <2>d. DOMAIN wire = 1..Len(wire) /\ DOMAIN acks = 1..Len(acks)
    BY <2>0
  <2>2. \A i \in DOMAIN wire : wire[i] \in [op : Ops, report : Statuses \ Early]
    BY <2>0, <2>d, Elements DEF Reports
  <2>3. \A i \in DOMAIN acks : acks[i] \in [op : Ops, status : Statuses \union {"error"}]
    <3>1. \A i \in DOMAIN acks : acks[i] \in [op : Ops, status : Statuses \union {"none", "error"}]
      BY <2>0, <2>d, Elements
    <3>2. \A i \in DOMAIN acks : acks[i].status # "none"
      BY <2>d, <1>3 DEF LinkInv
    <3> QED  BY <3>1, <3>2
  <2>4. outbox \subseteq Frames
    BY <1>3 DEF NumberInv
  <2>5. page \in [op : Ops \union {"none"}, step : {"rest", "accept", "run", "execute", "report"},
                  outcome : Outcomes \union {"none"}, tries : 0..(Attempts - 1)]
    BY <2>1, <1>3 DEF Shape, PageShape, LinkInv
  <2> QED
    BY <2>1, <2>2, <2>3, <2>4, <2>5, <1>3
    DEF TypeOK, Shape, NetShape, HelperShape, PageShape, LinkInv, DownInv
<1> QED  BY <1>1, <1>2, <1>3, PTL DEF Spec

=============================================================================
