------------------------- MODULE WebOperationsProofs -------------------------
(***************************************************************************)
(* Theorems about WebOperations, for any operations, any number of faults  *)
(* and any set of reports that may be refused.                             *)
(***************************************************************************)
EXTENDS WebOperations, TLAPS

Reports == Statuses \ Early

\* What the variables hold, as far as the proofs need it.
NetShape ==
  /\ status \in [Ops -> Statuses \union {"none"}]
  /\ stages \in [Ops -> SUBSET {"accepted", "running"}]
  /\ requests \subseteq Ops \X Pending
  /\ wire \in Seq([op : Ops, report : Reports])
  /\ acks \in Seq([op : Ops, status : Statuses \union {"none", "error"}])
HelperShape ==
  /\ queue \in [Ops -> Statuses \union {"none"}] /\ known \subseteq Ops
  /\ \A f \in outbox : f.op \in Ops /\ f.report \in Reports
  /\ first \in [Ops -> Outcomes \union {"none"}]
PageShape ==
  /\ snapshot \subseteq Ops \X Pending
  /\ page \in [op : Ops \union {"none"}, step : {"rest", "accept", "run", "execute", "report"},
               outcome : Outcomes \union {"none"}, tries : Nat]
  /\ page.step # "rest" => page.op \in Ops
  /\ page.step = "report" => page.outcome \in Outcomes
HistoryShape ==
  executed \in [Ops -> Nat] /\ lost \in [Ops -> Nat]
Shape == NetShape /\ HelperShape /\ PageShape /\ HistoryShape

\* The helper has seen whatever it, its outbox or the page is dealing with; what is
\* under way was created at the server; a request it has not seen yet is one whose
\* status the server still has as the request says, or an operation of an earlier life.
Working(o) == page.step # "rest" /\ page.op = o
KnownInv ==
  \A o \in Ops :
    /\ queue[o] # "none" => o \in known
    /\ Working(o) => o \in known
    /\ \A st \in Pending : <<o, st>> \in snapshot => o \in known
    /\ \A f \in outbox : f.op = o => o \in known
    /\ \A i \in 1..Len(wire) : wire[i].op = o => o \in known
RequestInv ==
  \A o \in Ops :
    /\ o \in known \/ o \in dispatching => status[o] # "none"
    /\ \A st \in Pending : <<o, st>> \in requests => status[o] # "none"
    /\ o \notin known =>
         /\ o \in dispatching => status[o] \in Early
         /\ \A st \in Early : <<o, st>> \in requests => status[o] \in Early

\* What the server confirms is never early, and final only when the operation is.
ServerInv ==
  /\ \A o \in Ops : status[o] \in Early \union {"none"} => stages[o] = {}
  /\ \A i \in 1..Len(acks) :
       /\ acks[i].status \notin Early
       /\ acks[i].status \in Outcomes => Ended(acks[i].op)

\* The operation the page works on is not in the rest of its snapshot, which has one
\* entry for each operation; past accepted, the helper's copy is no longer early.
PageInv ==
  /\ \A o \in Ops : \A a, b \in Pending : <<o, a>> \in snapshot /\ <<o, b>> \in snapshot => a = b
  /\ \A o \in Ops : Working(o) => \A st \in Pending : <<o, st>> \notin snapshot
  /\ page.step = "execute" \/ (page.step = "run" /\ page.outcome = "none")
       => queue[page.op] \notin Early

\* An operation that has used up its executions cannot get to another one.
Spent(o) == executed[o] > lost[o]
Before(o) ==
  /\ page.op = o
  /\ page.step \in {"accept", "execute"} \/ (page.step = "run" /\ page.outcome = "none")
OnceInv ==
  \A o \in Ops :
    /\ executed[o] <= 1 + lost[o]
    /\ status[o] = "none" => executed[o] = 0
    /\ Spent(o) =>
         /\ queue[o] \notin Early /\ ~Before(o)
         /\ \A st \in Early : <<o, st>> \notin snapshot
         /\ o \in known \/ status[o] \notin Early

Inv == Shape /\ KnownInv /\ RequestInv /\ ServerInv /\ PageInv /\ OnceInv /\ CompletionKept

-----------------------------------------------------------------------------
(* What a step can do to the server's record and to the helper's queue. *)

\* valid_operation_transition and the repetitions together only ever move a status
\* forward: nothing becomes early again, and what has ended stays.
LEMMA RecordEffect ==
  ASSUME Shape, ServerInv, NEW o \in Ops, NEW to \in Statuses \ {"submitted"}, Record(o, to)
  PROVE  /\ status' \in [Ops -> Statuses \union {"none"}]
         /\ stages' \in [Ops -> SUBSET {"accepted", "running"}]
         /\ \A p \in Ops \ {o} : status'[p] = status[p] /\ stages'[p] = stages[p]
         /\ status[o] = "none" => status'[o] = "none"
         /\ status[o] # "none" => status'[o] # "none"
         /\ status[o] \notin Early => status'[o] \notin Early
         /\ status[o] \in Early /\ to = "waiting" => status'[o] \in Early
         /\ Ended(o) => status'[o] = status[o]
         /\ status'[o] \in Early \union {"none"} => stages'[o] = {}
         /\ to \in Reports /\ (Repeated(o, to) \/ Allowed(o, to)) => status'[o] \notin Early
<1>1. CASE ~Repeated(o, to) /\ Allowed(o, to)
  <2>1. /\ status' = [status EXCEPT ![o] = to]
        /\ stages' = [stages EXCEPT ![o] = @ \union ({to} \intersect {"accepted", "running"})]
    BY <1>1 DEF Record
  <2>2. status[o] \notin Outcomes \union {"none"} /\ status[o] \in Statuses \union {"none"}
    BY <1>1 DEF Allowed, Transition, Outcomes, Early, Shape, NetShape
  <2>3. status[o] \in Early => to # "none"
    BY DEF Statuses, Pending, Outcomes, Early
  <2>4. status[o] \notin Early => to \notin Early
    BY <1>1, <2>2 DEF Allowed, Transition, StatusOf, Early, Outcomes, Statuses, Pending
  <2>5. to \in Early => to = "waiting" /\ status[o] \in Early
    BY <2>4 DEF Early
  <2>6. to \in Early => stages[o] = {} /\ {to} \intersect {"accepted", "running"} = {}
    BY <2>5 DEF ServerInv, Early
  <2>7. {to} \intersect {"accepted", "running"} \in SUBSET {"accepted", "running"}
    OBVIOUS
  <2> QED
    BY <2>1, <2>2, <2>3, <2>4, <2>5, <2>6, <2>7
    DEF Shape, NetShape, Ended, Reports, Statuses, Pending, Outcomes, Early
<1>2. CASE Repeated(o, to) \/ ~Allowed(o, to)
  <2>1. status' = status /\ stages' = stages
    BY <1>2 DEF Record
  <2>2. to \in Reports /\ Repeated(o, to) => status[o] \notin Early
    <3>1. CASE to \in stages[o]
      BY <3>1 DEF ServerInv
    <3>2. CASE StatusOf(status[o]) = StatusOf(to)
      BY <3>2 DEF StatusOf, Reports, Statuses, Pending, Outcomes, Early
    <3> QED  BY <3>1, <3>2 DEF Repeated
  <2> QED  BY <1>2, <2>1, <2>2 DEF Shape, NetShape, ServerInv
<1> QED  BY <1>1, <1>2

\* A report of the page leaves the helper's copy absent or past the early states.
LEMMA ReportEffect ==
  ASSUME Shape, NEW o \in Ops, NEW to \in Reports, Report(o, to)
  PROVE  /\ queue' \in [Ops -> Statuses \union {"none"}]
         /\ first' \in [Ops -> Outcomes \union {"none"}]
         /\ \A p \in Ops : queue'[p] \notin Early \/ queue'[p] = queue[p]
         /\ \A p \in Ops : queue'[p] = "none" <=> queue[p] = "none"
         /\ queue'[o] \notin Early
         /\ \A f \in outbox' : f \in outbox \/ (f.op = o /\ f.report = to)
         /\ outbox \subseteq outbox'
         /\ \E f \in outbox' : f.op = o /\ f.report = to
         /\ \A p \in Ops : first'[p] = first[p] \/ (p = o /\ first'[p] = to)
<1>1. queue' = [queue EXCEPT ![o] = IF queue[o] = "none" THEN "none" ELSE to]
  BY DEF Report
<1>2. first' = [first EXCEPT ![o] = IF first[o] = "none" /\ to \in Outcomes THEN to ELSE first[o]]
  BY DEF Report
<1>3. to \in Statuses /\ to \notin Early /\ to # "none"
  BY DEF Reports, Statuses, Pending, Outcomes, Early
<1>4. outbox' = outbox \union {[n |-> Newest + 1, op |-> o, report |-> to, sent |-> FALSE]}
  BY DEF Report
<1>5. "none" \notin Early
  BY DEF Early
<1>6. \A p \in Ops : queue'[p] = IF p = o /\ queue[o] # "none" THEN to ELSE queue[p]
  BY <1>1 DEF Shape, HelperShape
<1>7. \A p \in Ops : first'[p] =
        IF p = o /\ first[o] = "none" /\ to \in Outcomes THEN to ELSE first[p]
  BY <1>2 DEF Shape, HelperShape
<1>8. queue' \in [Ops -> Statuses \union {"none"}] /\ first' \in [Ops -> Outcomes \union {"none"}]
  BY <1>1, <1>2, <1>3 DEF Shape, HelperShape
<1>9. /\ \A f \in outbox' : f \in outbox \/ (f.op = o /\ f.report = to)
      /\ outbox \subseteq outbox'
      /\ \E f \in outbox' : f.op = o /\ f.report = to
  <2> DEFINE g == [n |-> Newest + 1, op |-> o, report |-> to, sent |-> FALSE]
  <2>1. g.op = o /\ g.report = to /\ outbox' = outbox \union {g}
    BY <1>4
  <2> HIDE DEF g
  <2> QED  BY <2>1
<1> QED  BY <1>3, <1>5, <1>6, <1>7, <1>8, <1>9

\* A queue holds messages of its kind.
LEMMA Elements ==
  ASSUME NEW S, NEW s \in Seq(S)
  PROVE  \A i \in 1..Len(s) : s[i] \in S
  OBVIOUS

\* The first message of a queue, and those behind it.
LEMMA HeadTail ==
  ASSUME NEW S, NEW s \in Seq(S), s # <<>>
  PROVE  /\ Head(s) \in S /\ Tail(s) \in Seq(S) /\ Head(s) = s[1] /\ 1 \in 1..Len(s)
         /\ \A i \in 1..Len(Tail(s)) : i + 1 \in 1..Len(s) /\ Tail(s)[i] = s[i + 1]
  OBVIOUS

-----------------------------------------------------------------------------
(* The invariant, one conjunct after the other. *)

\* The parts of the state keep their shape when their variables do not change.
LEMMA ShapeFrame ==
  ASSUME Shape
  PROVE  /\ UNCHANGED <<status, stages, requests, wire, acks>> => NetShape'
         /\ UNCHANGED <<queue, known, outbox, first>> => HelperShape'
         /\ UNCHANGED <<snapshot, page>> => PageShape'
         /\ UNCHANGED <<executed, lost>> => HistoryShape'
  BY DEF Shape, NetShape, HelperShape, PageShape, HistoryShape

\* Every step of the system leaves the variables in their shape.
LEMMA ShapeStep == Shape /\ ServerInv /\ [Next]_vars => Shape'
<1> SUFFICES ASSUME Shape, ServerInv, [Next]_vars PROVE Shape'
  OBVIOUS
<1> USE ShapeFrame DEF Shape
<1>1. ASSUME NEW o \in Ops, Create(o) PROVE Shape'
  <2>1. NetShape'
    BY <1>1 DEF Create, NetShape, net, Statuses, Pending, Early
  <2> QED  BY <1>1, <2>1 DEF Create, helper, ui, history
<1>2. ASSUME NEW o \in Ops, Dispatch(o) PROVE Shape'
  <2>1. /\ status' \in [Ops -> Statuses \union {"none"}]
        /\ stages' \in [Ops -> SUBSET {"accepted", "running"}]
    BY <1>2, RecordEffect DEF Dispatch, NetShape, Statuses, Pending, Early
  <2>2. requests' \subseteq Ops \X Pending
    BY <1>2 DEF Dispatch, NetShape, Pending, Early
  <2>3. NetShape'
    BY <1>2, <2>1, <2>2 DEF Dispatch, NetShape
  <2> QED  BY <1>2, <2>3 DEF Dispatch, helper, ui, history
<1>3. CASE Resend
  <2>1. NetShape'
    BY <1>3 DEF Resend, server, NetShape
  <2> QED  BY <1>3, <2>1 DEF Resend, helper, ui, history
<1>4. CASE HandleUpdate
  <2> DEFINE f == Head(wire)
  <2>1. f \in [op : Ops, report : Reports] /\ wire' \in Seq([op : Ops, report : Reports])
    BY <1>4, HeadTail DEF HandleUpdate, NetShape
  <2>2. /\ status' \in [Ops -> Statuses \union {"none"}]
        /\ stages' \in [Ops -> SUBSET {"accepted", "running"}]
    BY <1>4, <2>1, RecordEffect DEF HandleUpdate, Reports, Early
  <2>3. acks' \in Seq([op : Ops, status : Statuses \union {"none", "error"}])
    <3> DEFINE st == IF Repeated(f.op, f.report) \/ Allowed(f.op, f.report)
                     THEN [op |-> f.op, status |-> status'[f.op]]
                     ELSE [op |-> f.op, status |-> "error"]
    <3>1. st \in [op : Ops, status : Statuses \union {"none", "error"}]
      BY <2>1, <2>2
    <3>2. acks' = Append(acks, st)
      BY <1>4 DEF HandleUpdate
    <3> HIDE DEF st
    <3> QED  BY <3>1, <3>2 DEF NetShape
  <2>4. NetShape'
    BY <1>4, <2>1, <2>2, <2>3 DEF HandleUpdate, NetShape
  <2> QED  BY <1>4, <2>4 DEF HandleUpdate, helper, ui, history
<1>5. CASE Connect
  <2>1. HelperShape'
    BY <1>5 DEF Connect, Marked, HelperShape, history
  <2> QED  BY <1>5, <2>1 DEF Connect, server, ui, history
<1>6. CASE Lose
  <2>1. NetShape'
    BY <1>6 DEF Lose, Cut, server, NetShape
  <2> QED  BY <1>6, <2>1 DEF Lose, helper, ui, history
<1>7. CASE SendNext
  <2>1. PICK f \in outbox : /\ wire' = Append(wire, [op |-> f.op, report |-> f.report])
                            /\ outbox' = (outbox \ {f}) \union {Marked(f, TRUE)}
    BY <1>7 DEF SendNext
  <2>2. NetShape'
    BY <1>7, <2>1 DEF SendNext, server, NetShape, HelperShape
  <2>3. HelperShape'
    BY <1>7, <2>1 DEF SendNext, Marked, history, HelperShape
  <2> QED  BY <1>7, <2>2, <2>3 DEF SendNext, ui, history
<1>8. CASE TakeRequest
  <2>1. NetShape'
    BY <1>8 DEF TakeRequest, server, NetShape
  <2>2. HelperShape'
    BY <1>8 DEF TakeRequest, history, NetShape, HelperShape, Statuses
  <2> QED  BY <1>8, <2>1, <2>2 DEF TakeRequest, ui, history
<1>9. CASE TakeAck
  <2> DEFINE a == Head(acks)
  <2>1. /\ a \in [op : Ops, status : Statuses \union {"none", "error"}] /\ a.status # "error"
        /\ acks' \in Seq([op : Ops, status : Statuses \union {"none", "error"}])
    BY <1>9, HeadTail DEF TakeAck, NetShape
  <2>2. NetShape'
    BY <1>9, <2>1 DEF TakeAck, server, NetShape
  <2>3. HelperShape'
    BY <1>9, <2>1 DEF TakeAck, history, HelperShape
  <2> QED  BY <1>9, <2>2, <2>3 DEF TakeAck, ui, history
<1>10. CASE TakeError
  <2>1. NetShape'
    BY <1>10 DEF TakeError, Cut, server, NetShape
  <2> QED  BY <1>10, <2>1 DEF TakeError, helper, ui, history
<1>11. CASE Take
  <2>1. PageShape'
    BY <1>11 DEF Take, PageShape
  <2> QED  BY <1>11, <2>1 DEF Take, server, net, helper, history
<1>12. CASE Begin
  <2>1. PageShape'
    BY <1>12 DEF Begin, Undertake, Outcomes, PageShape
  <2> QED  BY <1>12, <2>1 DEF Begin, server, net, helper, history
<1>13. CASE Accept
  <2>1. page.op \in Ops /\ "accepted" \in Reports
    BY <1>13 DEF Accept, PageShape, Reports, Statuses, Pending, Early
  <2>2. HelperShape'
    <3>1. CASE Report(page.op, "accepted")
      BY <1>13, <2>1, <3>1, ReportEffect DEF Accept, HelperShape
    <3>2. CASE Refuse("accepted")
      BY <1>13, <3>2 DEF Accept, Refuse
    <3> QED  BY <1>13, <3>1, <3>2 DEF Accept
  <2>3. PageShape'
    BY <1>13, <2>1 DEF Accept, Reject, Outcomes, PageShape
  <2> QED  BY <1>13, <2>2, <2>3 DEF Accept, server, net
<1>14. CASE Run
  <2>1. page.op \in Ops /\ "running" \in Reports
    BY <1>14 DEF Run, PageShape, Reports, Statuses, Pending, Early
  <2>2. HelperShape'
    <3>1. CASE Report(page.op, "running")
      BY <1>14, <2>1, <3>1, ReportEffect DEF Run, HelperShape
    <3>2. CASE Refuse("running")
      BY <1>14, <3>2 DEF Run, Refuse
    <3> QED  BY <1>14, <3>1, <3>2 DEF Run
  <2>3. PageShape'
    BY <1>14, <2>1 DEF Run, Reject, Outcomes, PageShape
  <2> QED  BY <1>14, <2>2, <2>3 DEF Run, server, net
<1>15. CASE Execute
  <2>1. PageShape'
    BY <1>15 DEF Execute, Outcomes, PageShape
  <2>2. HistoryShape'
    BY <1>15 DEF Execute, HistoryShape
  <2> QED  BY <1>15, <2>1, <2>2 DEF Execute, server, net, helper
<1>16. CASE Complete
  <2>1. page.op \in Ops /\ page.outcome \in Reports
    BY <1>16 DEF Complete, PageShape, Reports, Statuses, Pending, Outcomes, Early
  <2>2. HelperShape'
    <3>1. CASE Report(page.op, page.outcome)
      BY <1>16, <2>1, <3>1, ReportEffect DEF Complete, HelperShape
    <3>2. CASE Refuse("completed")
      BY <1>16, <3>2 DEF Complete, Refuse
    <3> QED  BY <1>16, <3>1, <3>2 DEF Complete
  <2>3. PageShape'
    BY <1>16, <2>1 DEF Complete, Resting, PageShape
  <2> QED  BY <1>16, <2>2, <2>3 DEF Complete, server, net
<1>17. CASE Reload
  <2>1. PageShape'
    BY <1>17 DEF Reload, Resting, PageShape
  <2> QED  BY <1>17, <2>1 DEF Reload, server, net, helper, history
<1>18. CASE Restart
  <2>1. NetShape' /\ PageShape'
    BY <1>18 DEF Restart, Cut, server, Resting, NetShape, PageShape
  <2>2. HelperShape'
    BY <1>18 DEF Restart, Ended, HelperShape, NetShape
  <2>3. HistoryShape'
    BY <1>18 DEF Restart, HistoryShape
  <2> QED  BY <2>1, <2>2, <2>3
<1>19. CASE UNCHANGED vars
  BY <1>19 DEF vars, server, net, helper, ui, history
<1> QED
  BY <1>1, <1>2, <1>3, <1>4, <1>5, <1>6, <1>7, <1>8, <1>9, <1>10, <1>11, <1>12, <1>13, <1>14,
     <1>15, <1>16, <1>17, <1>18, <1>19 DEF Next, Serve, Relay, Work

\* What a handled report does to the record of its operation.
LEMMA HandleUpdateEffect ==
  ASSUME Shape, KnownInv, ServerInv, HandleUpdate
  PROVE  \E o \in Ops, a \in [op : Ops, status : Statuses \union {"none", "error"}] :
           /\ o \in known
           /\ \A p \in Ops \ {o} : status'[p] = status[p] /\ stages'[p] = stages[p]
           /\ status[o] = "none" => status'[o] = "none"
           /\ status[o] # "none" => status'[o] # "none"
           /\ status[o] \notin Early => status'[o] \notin Early
           /\ Ended(o) => status'[o] = status[o]
           /\ status'[o] \in Early \union {"none"} => stages'[o] = {}
           /\ acks' = Append(acks, a)
           /\ a.status \notin Early /\ (a.status \in Outcomes => status'[a.op] \in Outcomes)
           /\ \A i \in 1..Len(wire') : i + 1 \in 1..Len(wire) /\ wire'[i] = wire[i + 1]
<1> DEFINE f == Head(wire)
           ok == Repeated(f.op, f.report) \/ Allowed(f.op, f.report)
           a == IF ok THEN [op |-> f.op, status |-> status'[f.op]]
                ELSE [op |-> f.op, status |-> "error"]
<1>1. /\ f \in [op : Ops, report : Reports] /\ f = wire[1] /\ 1 \in 1..Len(wire)
      /\ \A i \in 1..Len(wire') : i + 1 \in 1..Len(wire) /\ wire'[i] = wire[i + 1]
  BY HeadTail DEF HandleUpdate, Shape, NetShape
<1>2. f.op \in Ops /\ f.report \in Reports /\ f.report \in Statuses \ {"submitted"}
  BY <1>1 DEF Reports, Early
<1>3. f.op \in known
  BY <1>1, <1>2 DEF KnownInv
<1>4. Record(f.op, f.report) /\ acks' = Append(acks, a)
  BY DEF HandleUpdate
<1>5. /\ status' \in [Ops -> Statuses \union {"none"}]
      /\ \A p \in Ops \ {f.op} : status'[p] = status[p] /\ stages'[p] = stages[p]
      /\ status[f.op] = "none" => status'[f.op] = "none"
      /\ status[f.op] # "none" => status'[f.op] # "none"
      /\ status[f.op] \notin Early => status'[f.op] \notin Early
      /\ Ended(f.op) => status'[f.op] = status[f.op]
      /\ status'[f.op] \in Early \union {"none"} => stages'[f.op] = {}
      /\ ok => status'[f.op] \notin Early
  BY <1>2, <1>4, RecordEffect
<1>6. /\ a \in [op : Ops, status : Statuses \union {"none", "error"}]
      /\ a.status \notin Early /\ (a.status \in Outcomes => status'[a.op] \in Outcomes)
  <2>1. CASE ok
    <3>1. a = [op |-> f.op, status |-> status'[f.op]]
      BY <2>1
    <3>2. status'[f.op] \in Statuses \union {"none", "error"} /\ status'[f.op] \notin Early
      BY <1>2, <1>5, <2>1
    <3> HIDE DEF a, f
    <3> QED  BY <3>1, <3>2, <1>2
  <2>2. CASE ~ok
    <3>1. a = [op |-> f.op, status |-> "error"]
      BY <2>2
    <3>2. "error" \notin Early /\ "error" \notin Outcomes
      BY DEF Early, Outcomes
    <3> HIDE DEF a, f
    <3> QED  BY <3>1, <3>2, <1>2
  <2> QED  BY <2>1, <2>2
<1> HIDE DEF f, a, ok
<1> QED  BY <1>1, <1>2, <1>3, <1>4, <1>5, <1>6

\* A call of the page to the helper, whether it is taken or refused.
LEMMA PageCalls ==
  ASSUME Shape, Accept \/ Run \/ Complete
  PROVE  /\ page.step # "rest" /\ page.op \in Ops
         /\ \A p \in Ops : queue'[p] = queue[p] \/ queue'[p] \notin Early
         /\ \A p \in Ops : queue'[p] = "none" <=> queue[p] = "none"
         /\ \A f \in outbox' : f \in outbox \/ f.op = page.op
         /\ outbox \subseteq outbox'
         /\ \A p \in Ops : \/ first'[p] = first[p]
                          \/ \E f \in outbox' : f.op = p /\ f.report = first'[p]
         /\ page'.step = "rest" \/ (page'.op = page.op /\ page'.step # "accept")
         /\ page'.step = "execute" \/ (page'.step = "run" /\ page'.outcome = "none")
              => page.outcome = page'.outcome /\ queue'[page.op] \notin Early
         /\ Before(page.op)' => Before(page.op)
         /\ UNCHANGED <<server, net, known, snapshot, executed, lost>>
<1> USE DEF Shape, PageShape
<1>1. page.step # "rest" /\ page.op \in Ops
  BY DEF Accept, Run, Complete
<1>2. ASSUME NEW to \in Reports, Report(page.op, to)
      PROVE  /\ queue'[page.op] \notin Early
             /\ \A p \in Ops : queue'[p] = queue[p] \/ queue'[p] \notin Early
             /\ \A p \in Ops : queue'[p] = "none" <=> queue[p] = "none"
             /\ \A f \in outbox' : f \in outbox \/ f.op = page.op
             /\ outbox \subseteq outbox'
             /\ \A p \in Ops : \/ first'[p] = first[p]
                              \/ \E f \in outbox' : f.op = p /\ f.report = first'[p]
  BY <1>1, <1>2, ReportEffect
<1>3. {"accepted", "running"} \subseteq Reports /\ Outcomes \subseteq Reports
  BY DEF Reports, Statuses, Pending, Outcomes, Early
<1>4. CASE Accept
  <2>1. CASE Report(page.op, "accepted") /\ page' = [page EXCEPT !.step = "run"]
    BY <1>1, <1>2, <1>3, <1>4, <2>1 DEF Accept, Before
  <2>2. CASE Refuse("accepted") /\ Reject
    BY <1>1, <1>4, <2>2 DEF Accept, Refuse, Reject, Before
  <2> QED  BY <1>4, <2>1, <2>2 DEF Accept
<1>5. CASE Run
  <2>1. CASE /\ Report(page.op, "running")
             /\ page' = [page EXCEPT !.step = IF page.outcome = "none" THEN "execute" ELSE "report"]
    BY <1>1, <1>2, <1>3, <1>5, <2>1 DEF Run, Before
  <2>2. CASE Refuse("running") /\ Reject
    BY <1>1, <1>5, <2>2 DEF Run, Refuse, Reject, Before
  <2> QED  BY <1>5, <2>1, <2>2 DEF Run
<1>6. CASE Complete
  <2>1. CASE Report(page.op, page.outcome) /\ page' = Resting
    BY <1>1, <1>2, <1>3, <1>6, <2>1 DEF Complete, Resting, Before
  <2>2. CASE /\ Refuse("completed")
             /\ page' = IF page.tries + 1 = Attempts THEN Resting ELSE [page EXCEPT !.tries = @ + 1]
    BY <1>1, <1>6, <2>2 DEF Complete, Refuse, Resting, Before
  <2> QED  BY <1>6, <2>1, <2>2 DEF Complete
<1> QED  BY <1>4, <1>5, <1>6

\* Whatever is dealt with has been seen: a step preserves KnownInv.
LEMMA KnownStep == Inv /\ [Next]_vars => KnownInv'
<1> SUFFICES ASSUME Inv, [Next]_vars PROVE KnownInv'
  OBVIOUS
<1> USE DEF Inv, KnownInv, Working
<1>1. ASSUME NEW o \in Ops, Create(o) PROVE KnownInv'
  BY <1>1 DEF Create, net, helper, ui
<1>2. ASSUME NEW o \in Ops, Dispatch(o) PROVE KnownInv'
  BY <1>2 DEF Dispatch, helper, ui
<1>3. CASE Resend
  BY <1>3 DEF Resend, helper, ui
<1>4. CASE HandleUpdate
  BY <1>4, HandleUpdateEffect DEF HandleUpdate, helper, ui
<1>5. CASE Connect
  BY <1>5 DEF Connect, Marked, ui
<1>6. CASE Lose
  BY <1>6 DEF Lose, Cut, helper, ui
<1>7. CASE SendNext
  <2>1. PICK f \in outbox : /\ wire' = Append(wire, [op |-> f.op, report |-> f.report])
                            /\ outbox' = (outbox \ {f}) \union {Marked(f, TRUE)}
    BY <1>7 DEF SendNext
  <2>2. \A i \in 1..Len(wire') : (i \in 1..Len(wire) /\ wire'[i] = wire[i]) \/ wire'[i].op = f.op
    BY <2>1 DEF Shape, NetShape
  <2>3. \A g \in outbox' : g \in outbox \/ g.op = f.op
    BY <2>1 DEF Marked
  <2> QED  BY <1>7, <2>2, <2>3 DEF SendNext, ui
<1>8. CASE TakeRequest
  BY <1>8 DEF TakeRequest, ui, Shape, NetShape, HelperShape
<1>9. CASE TakeAck
  BY <1>9 DEF TakeAck, ui, Shape, HelperShape
<1>10. CASE TakeError
  BY <1>10 DEF TakeError, Cut, helper, ui
<1>11. CASE Take
  BY <1>11 DEF Take, net, helper, Pending, Early
<1>12. CASE Begin
  BY <1>12 DEF Begin, Undertake, net, helper, Shape, PageShape
<1>13. CASE Accept \/ Run \/ Complete
  BY <1>13, PageCalls DEF net
<1>15. CASE Execute
  BY <1>15 DEF Execute, net, helper, Shape, PageShape
<1>17. CASE Reload
  BY <1>17 DEF Reload, Resting, net, helper
<1>18. CASE Restart
  BY <1>18 DEF Restart, Cut, Resting
<1>19. CASE UNCHANGED vars
  BY <1>19 DEF vars, net, helper, ui
<1> QED
  BY <1>1, <1>2, <1>3, <1>4, <1>5, <1>6, <1>7, <1>8, <1>9, <1>10, <1>11, <1>12, <1>13,
     <1>15, <1>17, <1>18, <1>19 DEF Next, Serve, Relay, Work

\* A step keeps what is known of the requests under way.
LEMMA RequestStep == Inv /\ [Next]_vars => RequestInv'
<1> SUFFICES ASSUME Inv, [Next]_vars PROVE RequestInv'
  OBVIOUS
<1> USE DEF Inv, RequestInv
<1>1. ASSUME NEW o \in Ops, Create(o) PROVE RequestInv'
  BY <1>1 DEF Create, net, helper, Shape, NetShape, Early
<1>2. ASSUME NEW o \in Ops, Dispatch(o) PROVE RequestInv'
  <2>1. /\ status[o] # "none" /\ o \in dispatching
        /\ \A p \in Ops \ {o} : status'[p] = status[p]
        /\ status'[o] # "none" /\ (status[o] \in Early => status'[o] \in Early)
    BY <1>2, RecordEffect DEF Dispatch, Statuses, Pending, Early
  <2>2. \A p \in Ops, st \in Pending : <<p, st>> \in requests' => <<p, st>> \in requests \/ p = o
    BY <1>2 DEF Dispatch
  <2>3. known' = known /\ dispatching' = dispatching \ {o}
    BY <1>2 DEF Dispatch, helper
  <2> QED  BY <2>1, <2>2, <2>3 DEF Pending
<1>3. CASE Resend
  BY <1>3 DEF Resend, server, helper, Pending, Early, Outcomes
<1>4. CASE HandleUpdate
  BY <1>4, HandleUpdateEffect DEF HandleUpdate, helper
<1>5. CASE Connect
  BY <1>5 DEF Connect, server
<1>6. CASE Lose
  BY <1>6 DEF Lose, Cut, server, helper
<1>7. CASE SendNext
  BY <1>7 DEF SendNext, server
<1>8. CASE TakeRequest
  BY <1>8 DEF TakeRequest, server, Shape, NetShape, HelperShape
<1>9. CASE TakeAck
  BY <1>9 DEF TakeAck, server
<1>10. CASE TakeError
  BY <1>10 DEF TakeError, Cut, server, helper
<1>11. CASE Take
  BY <1>11 DEF Take, net, helper, server
<1>12. CASE Begin
  BY <1>12 DEF Begin, net, helper, server
<1>13. CASE Accept \/ Run \/ Complete
  BY <1>13, PageCalls DEF net, server
<1>15. CASE Execute
  BY <1>15 DEF Execute, net, helper, server
<1>17. CASE Reload
  BY <1>17 DEF Reload, net, helper, server
<1>18. CASE Restart
  BY <1>18 DEF Restart, Cut, server
<1>19. CASE UNCHANGED vars
  BY <1>19 DEF vars, net, helper, server
<1> QED
  BY <1>1, <1>2, <1>3, <1>4, <1>5, <1>6, <1>7, <1>8, <1>9, <1>10, <1>11, <1>12, <1>13,
     <1>15, <1>17, <1>18, <1>19 DEF Next, Serve, Relay, Work

\* What has ended at the server stays as it ended, and the status of an operation is not
\* early again once it is past that.
LEMMA StatusStep ==
  Inv /\ [Next]_vars =>
    \A o \in Ops : /\ Ended(o) => status'[o] = status[o]
                   /\ status[o] \notin Early \union {"none"} => status'[o] \notin Early
<1> SUFFICES ASSUME Inv, [Next]_vars
             PROVE  \A o \in Ops :
                      /\ Ended(o) => status'[o] = status[o]
                      /\ status[o] \notin Early \union {"none"} => status'[o] \notin Early
  OBVIOUS
<1>1. ASSUME NEW o \in Ops, Create(o)
      PROVE  \A p \in Ops : p # o => status'[p] = status[p]
  BY <1>1 DEF Create, Inv, Shape, NetShape
<1>2. ASSUME NEW o \in Ops, Create(o) PROVE status[o] = "none" /\ ~Ended(o)
  BY <1>2 DEF Create, Ended, Outcomes
<1>3. ASSUME NEW o \in Ops, Dispatch(o)
      PROVE  /\ \A p \in Ops \ {o} : status'[p] = status[p]
             /\ Ended(o) => status'[o] = status[o]
             /\ status[o] \notin Early => status'[o] \notin Early
  BY <1>3, RecordEffect DEF Dispatch, Inv, Statuses, Pending, Early
<1>4. HandleUpdate => \A o \in Ops : /\ Ended(o) => status'[o] = status[o]
                                     /\ status[o] \notin Early => status'[o] \notin Early
  BY HandleUpdateEffect DEF Inv
<1>5. \/ \E o \in Ops : Create(o) \/ Dispatch(o)
      \/ HandleUpdate
      \/ status' = status
  BY PageCalls DEF Next, Serve, Relay, Work, Resend, Connect, SendNext, TakeRequest, TakeAck,
    TakeError, Take, Begin, Execute, Lose, Reload, Restart, Inv, vars, server
<1> QED  BY <1>1, <1>2, <1>3, <1>4, <1>5

\* A step keeps what the server's record and its confirmations say of each other.
LEMMA ServerStep == Inv /\ [Next]_vars => ServerInv'
<1> SUFFICES ASSUME Inv, [Next]_vars PROVE ServerInv'
  OBVIOUS
<1>a. \A o \in Ops : Ended(o) => Ended(o)'
  <2>1. \A o \in Ops : Ended(o) => status'[o] = status[o]
    BY StatusStep
  <2> QED  BY <2>1 DEF Ended
<1> USE DEF Inv, ServerInv
<1>b. \A i \in 1..Len(acks) : acks[i].op \in Ops
  <2>1. acks \in Seq([op : Ops, status : Statuses \union {"none", "error"}])
    BY DEF Shape, NetShape
  <2>2. \A i \in 1..Len(acks) : acks[i] \in [op : Ops, status : Statuses \union {"none", "error"}]
    BY <2>1, Elements
  <2> QED  BY <2>2
<1>c. \A o \in Ops : status[o] \in Early \union {"none"} => stages[o] = {}
  OBVIOUS
<1>1. ASSUME NEW o \in Ops, Create(o) PROVE ServerInv'
  BY <1>1, <1>a, <1>b DEF Create, net, Shape, NetShape
<1>2. ASSUME NEW o \in Ops, Dispatch(o) PROVE ServerInv'
  <2>1. \A p \in Ops : status'[p] \in Early \union {"none"} => stages'[p] = {}
    BY <1>2, RecordEffect DEF Dispatch, Statuses, Pending, Early
  <2> QED  BY <1>2, <2>1, <1>a, <1>b DEF Dispatch
<1>4. CASE HandleUpdate
  <2>1. PICK o \in Ops, a \in [op : Ops, status : Statuses \union {"none", "error"}] :
           /\ \A p \in Ops \ {o} : status'[p] = status[p] /\ stages'[p] = stages[p]
           /\ status'[o] \in Early \union {"none"} => stages'[o] = {}
           /\ acks' = Append(acks, a)
           /\ a.status \notin Early /\ (a.status \in Outcomes => status'[a.op] \in Outcomes)
    BY <1>4, HandleUpdateEffect
  <2>2. \A p \in Ops : status'[p] \in Early \union {"none"} => stages'[p] = {}
    BY <2>1
  <2>3. \A i \in 1..Len(acks') : (i \in 1..Len(acks) /\ acks'[i] = acks[i]) \/ acks'[i] = a
    BY <2>1 DEF Shape, NetShape
  <2> QED  BY <2>1, <2>2, <2>3, <1>a, <1>b DEF Ended
<1>6. CASE Lose \/ TakeError \/ Restart
  BY <1>6 DEF Lose, TakeError, Restart, Cut, server
<1>9. CASE TakeAck
  <2>1. /\ acks # <<>> /\ acks' = Tail(acks) /\ status' = status /\ stages' = stages
    BY <1>9 DEF TakeAck, server
  <2>2. \A i \in 1..Len(acks') : i + 1 \in 1..Len(acks) /\ acks'[i] = acks[i + 1]
    BY <2>1, HeadTail DEF Shape, NetShape
  <2> QED  BY <2>1, <2>2 DEF Ended
<1>19. CASE UNCHANGED <<status, stages, acks>>
  BY <1>19 DEF Ended
<1> QED
  <2>1. Resend \/ Connect \/ SendNext \/ TakeRequest \/ Take \/ Begin \/ Execute \/ Reload
          => UNCHANGED <<status, stages, acks>>
    BY DEF Resend, Connect, SendNext, TakeRequest, Take, Begin, Execute, Reload, server, net
  <2>2. Accept \/ Run \/ Complete => UNCHANGED <<status, stages, acks>>
    BY PageCalls DEF server, net
  <2>3. UNCHANGED vars => UNCHANGED <<status, stages, acks>>
    BY DEF vars, server, net
  <2> QED  BY <1>1, <1>2, <1>4, <1>6, <1>9, <1>19, <2>1, <2>2, <2>3 DEF Next, Serve, Relay, Work

\* A step keeps what relates the page to its snapshot and to the helper's copy.
LEMMA PageStep == Inv /\ [Next]_vars => PageInv'
<1> SUFFICES ASSUME Inv, [Next]_vars PROVE PageInv'
  OBVIOUS
<1> USE DEF Inv, PageInv, Working
<1>w. page.step # "rest" => page.op \in Ops
  BY DEF Shape, PageShape
<1>1. CASE UNCHANGED <<queue, snapshot, page>>
  BY <1>1
<1>2. CASE TakeRequest
  <2>1. \A o \in Ops : o \in known => queue'[o] = queue[o]
    BY <1>2 DEF TakeRequest, Shape, NetShape, HelperShape
  <2> QED  BY <1>2, <2>1, <1>w DEF TakeRequest, KnownInv, ui
<1>3. CASE TakeAck
  <2>1. acks # <<>> /\ Head(acks) = acks[1] /\ 1 \in 1..Len(acks)
    BY <1>3, HeadTail DEF TakeAck, Shape, NetShape
  <2>2. \A o \in Ops : queue'[o] = queue[o] \/ queue'[o] \notin Early
    BY <1>3, <2>1 DEF TakeAck, ServerInv, Shape, HelperShape, Early
  <2> QED  BY <1>3, <2>2, <1>w DEF TakeAck, ui
<1>4. CASE Take
  BY <1>4 DEF Take, Resting, helper
<1>5. CASE Begin
  <2>1. PICK t \in snapshot :
          /\ snapshot' = snapshot \ {t}
          /\ \/ t[2] = "accepted" /\ Undertake(t[1], "run", "interrupted")
             \/ t[2] = "running" /\ Undertake(t[1], "report", "interrupted")
             \/ t[2] \in Early /\ Undertake(t[1], "accept", "none")
             \/ t[2] \in Early /\ Undertake(t[1], "report", "refused")
    BY <1>5 DEF Begin
  <2>2. PICK o \in Ops, st \in Pending : t = <<o, st>>
    BY <2>1 DEF Shape, PageShape
  <2>3. \A a \in Pending : <<o, a>> \notin snapshot'
    BY <2>1, <2>2
  <2>4. /\ page'.op = o /\ page'.step \in {"run", "report", "accept"}
        /\ page'.step = "run" => page'.outcome = "interrupted"
    BY <2>1, <2>2 DEF Undertake
  <2> QED  BY <2>1, <2>2, <2>3, <2>4
<1>6. CASE Accept \/ Run \/ Complete
  BY <1>6, PageCalls, <1>w
<1>7. CASE Execute
  <2>1. page'.op = page.op /\ page'.step = "report" /\ page.step = "execute"
    BY <1>7 DEF Execute, Shape, PageShape
  <2> QED  BY <1>7, <2>1 DEF Execute, helper
<1>8. CASE Reload \/ Restart
  BY <1>8 DEF Reload, Restart, Resting
<1> QED
  <2>1. (\E o \in Ops : Create(o) \/ Dispatch(o)) => UNCHANGED <<queue, snapshot, page>>
    BY DEF Create, Dispatch, helper, ui
  <2>2. Resend \/ HandleUpdate \/ Connect \/ Lose \/ SendNext \/ TakeError
          => UNCHANGED <<queue, snapshot, page>>
    BY DEF Resend, HandleUpdate, Connect, Lose, SendNext, TakeError, helper, ui
  <2>3. UNCHANGED vars => UNCHANGED <<queue, snapshot, page>>
    BY DEF vars, helper, ui
  <2> QED
    BY <1>1, <1>2, <1>3, <1>4, <1>5, <1>6, <1>7, <1>8, <2>1, <2>2, <2>3 DEF Next, Serve, Relay, Work

\* A step executes nothing that has used up its executions, and hands none of it to the
\* page.
LEMMA OnceStep == Inv /\ [Next]_vars => OnceInv'
<1> SUFFICES ASSUME Inv, [Next]_vars PROVE OnceInv'
  OBVIOUS
<1>s. \A o \in Ops : status[o] \notin Early \union {"none"} => status'[o] \notin Early
  BY StatusStep
<1> USE DEF Inv, OnceInv, Spent, Before
<1>h. executed \in [Ops -> Nat] /\ lost \in [Ops -> Nat]
  BY DEF Shape, HistoryShape
<1>n. \A o \in Ops : Spent(o) => status[o] # "none"
  BY <1>h
<1>1. ASSUME NEW o \in Ops, Create(o) PROVE OnceInv'
  BY <1>1, <1>h, <1>n DEF Create, net, helper, ui, history, Shape, NetShape
<1>2. ASSUME NEW o \in Ops, Dispatch(o) PROVE OnceInv'
  <2>1. \A p \in Ops : status'[p] = "none" => status[p] = "none"
    BY <1>2, RecordEffect DEF Dispatch, Statuses, Pending, Early
  <2> QED  BY <1>2, <2>1, <1>s, <1>n DEF Dispatch, helper, ui, history
<1>3. CASE HandleUpdate
  <2>1. \A p \in Ops : status'[p] = "none" => status[p] = "none"
    BY <1>3, HandleUpdateEffect
  <2> QED  BY <1>3, <2>1, <1>s, <1>n DEF HandleUpdate, helper, ui, history
<1>4. CASE UNCHANGED <<status, queue, known, snapshot, page, executed, lost>>
  BY <1>4
<1>5. CASE TakeRequest
  <2>1. PICK r \in requests :
          IF r[1] \in known
          THEN UNCHANGED <<queue, known>>
          ELSE queue' = [queue EXCEPT ![r[1]] = r[2]] /\ known' = known \union {r[1]}
    BY <1>5 DEF TakeRequest
  <2>2. PICK o \in Ops, st \in Pending : r = <<o, st>>
    BY <2>1 DEF Shape, NetShape
  <2>3. Spent(o) /\ o \notin known => st \notin Early
    BY <2>1, <2>2 DEF RequestInv
  <2>4. \A p \in Ops : queue'[p] = IF p = o /\ o \notin known THEN st ELSE queue[p]
    BY <2>1, <2>2 DEF Shape, HelperShape
  <2>5. known \subseteq known'
    BY <2>1
  <2> QED  BY <1>5, <2>3, <2>4, <2>5 DEF TakeRequest, server, ui, history
<1>6. CASE TakeAck
  <2>1. acks # <<>> /\ Head(acks) = acks[1] /\ 1 \in 1..Len(acks)
    BY <1>6, HeadTail DEF TakeAck, Shape, NetShape
  <2>2. \A o \in Ops : queue'[o] = queue[o] \/ queue'[o] \notin Early
    BY <1>6, <2>1 DEF TakeAck, ServerInv, Shape, HelperShape, Early
  <2> QED  BY <1>6, <2>2 DEF TakeAck, server, ui, history
<1>7. CASE Take
  BY <1>7 DEF Take, server, net, helper, history
<1>8. CASE Begin
  <2>1. PICK t \in snapshot :
          /\ snapshot' = snapshot \ {t}
          /\ \/ t[2] = "accepted" /\ Undertake(t[1], "run", "interrupted")
             \/ t[2] = "running" /\ Undertake(t[1], "report", "interrupted")
             \/ t[2] \in Early /\ Undertake(t[1], "accept", "none")
             \/ t[2] \in Early /\ Undertake(t[1], "report", "refused")
    BY <1>8 DEF Begin
  <2>2. PICK o \in Ops, st \in Pending : t = <<o, st>>
    BY <2>1 DEF Shape, PageShape
  <2>3. /\ page'.op = o
        /\ page'.step # "execute" /\ (page'.step = "accept" => st \in Early)
        /\ page'.step = "run" => page'.outcome = "interrupted"
    BY <2>1, <2>2 DEF Undertake
  <2> QED  BY <1>8, <2>1, <2>2, <2>3 DEF Begin, server, net, helper, history
<1>9. CASE Accept \/ Run \/ Complete
  <2>1. /\ \A p \in Ops : queue'[p] = queue[p] \/ queue'[p] \notin Early
        /\ \A p \in Ops : Before(p)' => Before(p)
        /\ UNCHANGED <<status, known, snapshot, executed, lost>>
    BY <1>9, PageCalls DEF server
  <2> QED  BY <2>1
<1>10. CASE Execute
  <2>1. page.op \in Ops /\ ~Spent(page.op) /\ page.step = "execute"
    BY <1>10 DEF Execute, Shape, PageShape
  <2>2. executed' = [executed EXCEPT ![page.op] = @ + 1]
        /\ UNCHANGED <<status, queue, known, snapshot, lost>>
    BY <1>10 DEF Execute, server, helper
  <2>3. page'.op = page.op /\ page'.step = "report"
    BY <1>10 DEF Execute, Shape, PageShape
  <2>4. /\ page.op \in known /\ queue[page.op] \notin Early
        /\ \A st \in Pending : <<page.op, st>> \notin snapshot
    BY <2>1 DEF KnownInv, PageInv, Working
  <2>5. status[page.op] # "none"
    BY <2>1, <2>4 DEF RequestInv
  <2>6. /\ executed'[page.op] = executed[page.op] + 1
        /\ \A p \in Ops \ {page.op} : executed'[p] = executed[p]
    BY <2>1, <2>2, <1>h
  <2>7. executed'[page.op] <= 1 + lost'[page.op]
    BY <2>1, <2>2, <2>6, <1>h
  <2> QED  BY <2>1, <2>2, <2>3, <2>4, <2>5, <2>6, <2>7 DEF Pending
<1>11. CASE Reload
  BY <1>11 DEF Reload, Resting, server, net, helper, history
<1>12. CASE Restart
  <2>1. \A o \in Ops : lost'[o] = lost[o] + (IF status[o] \in Early THEN 1 ELSE 0)
    BY <1>12, <1>h DEF Restart
  <2>2. \A o \in Ops : executed[o] <= 1 + lost'[o]
    BY <2>1, <1>h
  <2>3. \A o \in Ops : executed[o] > lost'[o] => status[o] \notin Early
    BY <2>1, <1>h
  <2>4. status' = status /\ executed' = executed
    BY <1>12 DEF Restart, server
  <2>5. \A o \in Ops : queue'[o] = "none"
    BY <1>12 DEF Restart
  <2>6. snapshot' = {} /\ page' = Resting /\ "none" \notin Early
    BY <1>12 DEF Restart, Early
  <2> QED  BY <2>2, <2>3, <2>4, <2>5, <2>6 DEF Resting
<1> QED
  <2>1. Resend \/ Connect \/ Lose \/ SendNext \/ TakeError
          => UNCHANGED <<status, queue, known, snapshot, page, executed, lost>>
    BY DEF Resend, Connect, Lose, SendNext, TakeError, server, helper, ui, history
  <2>2. UNCHANGED vars => UNCHANGED <<status, queue, known, snapshot, page, executed, lost>>
    BY DEF vars, server, helper, ui, history
  <2> QED
    BY <1>1, <1>2, <1>3, <1>4, <1>5, <1>6, <1>7, <1>8, <1>9, <1>10, <1>11, <1>12, <2>1, <2>2
    DEF Next, Serve, Relay, Work

\* A step lets go of a completion only when the operation has ended at the server.
LEMMA KeptStep == Inv /\ [Next]_vars => CompletionKept'
<1> SUFFICES ASSUME Inv, [Next]_vars PROVE CompletionKept'
  OBVIOUS
<1>e. \A o \in Ops : Ended(o) => Ended(o)'
  <2>1. \A o \in Ops : Ended(o) => status'[o] = status[o]
    BY StatusStep
  <2> QED  BY <2>1 DEF Ended
<1>f. \A o \in Ops : first[o] \in Outcomes \union {"none"}
  BY DEF Inv, Shape, HelperShape
<1>k. \A o \in Ops : first[o] # "none" /\ ~Ended(o)
                       => \E f \in outbox : f.op = o /\ f.report = first[o]
  BY DEF Inv, CompletionKept
<1>1. CASE UNCHANGED <<outbox, first>>
  BY <1>1, <1>e, <1>k DEF CompletionKept
<1>2. CASE Connect
  <2>1. first' = first /\ \A f \in outbox : Marked(f, FALSE) \in outbox'
    BY <1>2 DEF Connect, history
  <2>2. \A f \in outbox : Marked(f, FALSE).op = f.op /\ Marked(f, FALSE).report = f.report
    BY DEF Marked
  <2>3. \A f \in outbox : \E h \in outbox' : h.op = f.op /\ h.report = f.report
    BY <2>1, <2>2
  <2> QED  BY <2>1, <2>3, <1>e, <1>k DEF CompletionKept
<1>3. CASE SendNext
  <2>1. PICK f \in outbox : outbox' = (outbox \ {f}) \union {Marked(f, TRUE)}
    BY <1>3 DEF SendNext
  <2>2. Marked(f, TRUE).op = f.op /\ Marked(f, TRUE).report = f.report
    BY DEF Marked
  <2>3. \A g \in outbox : \E h \in outbox' : h.op = g.op /\ h.report = g.report
    BY <2>1, <2>2
  <2>4. first' = first
    BY <1>3 DEF SendNext, history
  <2> QED  BY <2>3, <2>4, <1>e, <1>k DEF CompletionKept
<1>4. CASE TakeAck
  <2> DEFINE a == Head(acks)
  <2>1. a.status \in Outcomes => Ended(a.op)
    BY <1>4, HeadTail DEF TakeAck, Inv, Shape, NetShape, ServerInv
  <2>2. outbox' = {f \in outbox : f.op # a.op \/ ~Confirmed(f, a.status)} /\ first' = first
    BY <1>4 DEF TakeAck, history
  <2>3. \A f \in outbox : f.report \in Outcomes /\ ~Ended(f.op) => f \in outbox'
    BY <2>1, <2>2 DEF Confirmed, Outcomes
  <2> QED  BY <2>2, <2>3, <1>e, <1>f, <1>k DEF CompletionKept
<1>5. CASE Accept \/ Run \/ Complete
  <2>1. /\ outbox \subseteq outbox'
        /\ \A p \in Ops : \/ first'[p] = first[p]
                         \/ \E f \in outbox' : f.op = p /\ f.report = first'[p]
    BY <1>5, PageCalls DEF Inv
  <2> QED  BY <2>1, <1>e, <1>k DEF CompletionKept
<1>6. CASE Restart
  <2>1. first' = [o \in Ops |-> IF Ended(o) THEN status[o] ELSE "none"]
    BY <1>6 DEF Restart
  <2> QED  BY <2>1, <1>e DEF CompletionKept
<1> QED
  <2>1. (\E o \in Ops : Create(o) \/ Dispatch(o)) => UNCHANGED <<outbox, first>>
    BY DEF Create, Dispatch, helper, history
  <2>2. Resend \/ HandleUpdate \/ Lose \/ TakeRequest \/ TakeError => UNCHANGED <<outbox, first>>
    BY DEF Resend, HandleUpdate, Lose, TakeRequest, TakeError, helper, history
  <2>3. Take \/ Begin \/ Execute \/ Reload => UNCHANGED <<outbox, first>>
    BY DEF Take, Begin, Execute, Reload, helper, history
  <2>4. UNCHANGED vars => UNCHANGED <<outbox, first>>
    BY DEF vars, helper, history
  <2> QED
    BY <1>1, <1>2, <1>3, <1>4, <1>5, <1>6, <2>1, <2>2, <2>3, <2>4 DEF Next, Serve, Relay, Work

-----------------------------------------------------------------------------
(* The theorems. *)

\* Nothing is under way at first.
LEMMA InitInv == Init => Inv
<1> SUFFICES ASSUME Init PROVE Inv
  OBVIOUS
<1>1. Shape
  BY DEF Init, Shape, NetShape, HelperShape, PageShape, HistoryShape, Resting
<1>2. KnownInv /\ RequestInv /\ ServerInv
  BY DEF Init, KnownInv, Working, RequestInv, ServerInv, Resting
<1>3. PageInv /\ OnceInv /\ CompletionKept
  BY DEF Init, PageInv, Working, OnceInv, Spent, Before, CompletionKept, Resting, Early
<1> QED  BY <1>1, <1>2, <1>3 DEF Inv

\* The conjuncts of Inv together are inductive.
LEMMA InvStep == Inv /\ [Next]_vars => Inv'
  BY ShapeStep, KnownStep, RequestStep, ServerStep, PageStep, OnceStep, KeptStep DEF Inv

\* They hold in every reachable state, for any operations and any number of faults.
LEMMA InvAlways == Spec => []Inv
  BY InitInv, InvStep, PTL DEF Spec

\* A management operation is carried out once, whatever connections are lost, pages
\* loaded again and requests repeated; each restart of the application before the server
\* has heard of the acceptance can add one execution (OperationQueue's seen).
THEOREM OnceAlways == Spec => []ExecutedOnce
<1>1. Inv => ExecutedOnce
  BY DEF Inv, OnceInv, ExecutedOnce
<1> QED  BY <1>1, InvAlways, PTL

\* A completion the page has handed over stays in the outbox until the server has the end
\* of the operation (acknowledge_operation lets go of nothing before).
THEOREM KeptAlways == Spec => []CompletionKept
<1>1. Inv => CompletionKept
  BY DEF Inv
<1> QED  BY <1>1, InvAlways, PTL

\* What has ended at the server stays as it ended: no repeated or late report, resumed
\* connection or restarted desktop changes a result (valid_operation_transition).
THEOREM EndedForGood == Spec => [][\A o \in Ops : Ended(o) => status'[o] = status[o]]_vars
<1>1. Inv /\ [Next]_vars => [\A o \in Ops : Ended(o) => status'[o] = status[o]]_vars
  BY StatusStep
<1> QED  BY <1>1, InvAlways, PTL DEF Spec
=============================================================================
