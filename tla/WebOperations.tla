---------------------------- MODULE WebOperations ----------------------------
(***************************************************************************)
(* A management operation that a browser asks of a desktop: from the relay *)
(* server (apps/server), over the device connection and the outbox of the  *)
(* helper process (web_daemon.rs, web_device_outbox.rs), to the page that  *)
(* executes it (useWebDeviceBridge.ts), and the result back again.         *)
(*                                                                         *)
(* The server keeps the status of an operation for good.  The helper keeps *)
(* a copy of it in its queue, and every report of the page in its outbox   *)
(* until the server has confirmed it.  The page keeps nothing: after a     *)
(* reload it reads from the helper's copy how far an operation had come.   *)
(* What an operation does, and the conversations that run in Rust, are     *)
(* left out.                                                               *)
(***************************************************************************)
EXTENDS Integers, Sequences, FiniteSets, FiniteSetsExt

CONSTANTS
  Ops,          \* operations, each created once (its idempotency key)
  Attempts,     \* MAX_COMPLETION_REPORT_ATTEMPTS
  MaxLosses,    \* bound: times the device connection is lost
  MaxReloads,   \* bound: reloads of the page
  MaxRestarts,  \* bound: restarts of the desktop application, helper included
  MaxRefusals,  \* bound: reports that find the outbox full
  Refusable     \* the reports that may: of "accepted", "running", "completed"

ASSUME OperationsAssumption ==
  /\ Attempts \in Nat \ {0}
  /\ MaxLosses \in Nat /\ MaxReloads \in Nat /\ MaxRestarts \in Nat /\ MaxRefusals \in Nat
  /\ Refusable \subseteq {"accepted", "running", "completed"}

\* A completion carries a status and an error code: "interrupted" is failed with
\* operation_interrupted, "refused" is rejected before the execution started.
Outcomes == {"succeeded", "failed", "rejected", "interrupted", "refused"}
Early == {"submitted", "waiting"}
Pending == Early \union {"accepted", "running"}
Statuses == Pending \union Outcomes
StatusOf(st) ==
  IF st = "interrupted" THEN "failed" ELSE IF st = "refused" THEN "rejected" ELSE st

VARIABLES
  status, stages,   \* the server's record: status and error code; accepted_seen, running_seen
  dispatching,      \* operations inserted and not yet sent by create_operation
  link,             \* the device connection: "down", "hello", "up"
  requests,         \* OperationRequest frames under way
  wire, acks,       \* frames to the server, and its OperationAck and Error frames
  queue, known,     \* OperationQueue: status of a pending operation; seen
  outbox,           \* WebDeviceOutbox: durable frames, numbered in order, sent or not
  snapshot,         \* the rest of what takeOperations returned, as <<id, status>>
  page,             \* the operation under way in executeOperation
  executed,         \* history: how often an operation was carried out
  first,            \* history: its first completion in the helper's present life
  lost,             \* history: restarts before the server had heard of its acceptance
  losses, reloads, restarts, refusals  \* bounded counters

server == <<status, stages, dispatching>>
net == <<link, requests, wire, acks>>
helper == <<queue, known, outbox>>
ui == <<snapshot, page>>
history == <<executed, first, lost>>
counters == <<losses, reloads, restarts, refusals>>
vars == <<server, net, helper, ui, history, counters>>

Resting == [op |-> "none", step |-> "rest", outcome |-> "none", tries |-> 0]

Init ==
  /\ status = [o \in Ops |-> "none"] /\ stages = [o \in Ops |-> {}] /\ dispatching = {}
  /\ link = "down" /\ requests = {} /\ wire = <<>> /\ acks = <<>>
  /\ queue = [o \in Ops |-> "none"] /\ known = {} /\ outbox = {}
  /\ snapshot = {} /\ page = Resting
  /\ executed = [o \in Ops |-> 0] /\ first = [o \in Ops |-> "none"] /\ lost = [o \in Ops |-> 0]
  /\ losses = 0 /\ reloads = 0 /\ restarts = 0 /\ refusals = 0

-----------------------------------------------------------------------------
(* The relay server *)

Ended(o) == status[o] \in Outcomes

\* valid_operation_transition, without canceled and timed_out, which nothing sets.
Transition(from, to) ==
  \/ from \in Early /\ to \in {"accepted", "rejected"}
  \/ from = "submitted" /\ to = "waiting"
  \/ from = "accepted" /\ to = "running"
  \/ from = "running" /\ to \in {"succeeded", "failed", "rejected"}

\* update_operation_status: a report that is repeated is confirmed with the present
\* status, one that does not follow from it is an error, any other one is recorded.
Repeated(o, to) == StatusOf(status[o]) = StatusOf(to) \/ to \in stages[o]
Allowed(o, to) == Transition(status[o], StatusOf(to))
\* Variant: a completion is recorded whatever came before.
RecordLast(o, to) ==
  /\ status' = [status EXCEPT ![o] = to]
  /\ stages' = [stages EXCEPT ![o] = @ \union ({to} \intersect {"accepted", "running"})]
Record(o, to) ==
  IF ~Repeated(o, to) /\ Allowed(o, to)
  THEN /\ status' = [status EXCEPT ![o] = to]
       /\ stages' = [stages EXCEPT ![o] = @ \union ({to} \intersect {"accepted", "running"})]
  ELSE UNCHANGED <<status, stages>>

\* create_operation, the insertion: only while the device is online.
Create(o) ==
  /\ link # "down" /\ status[o] = "none"
  /\ status' = [status EXCEPT ![o] = "submitted"]
  /\ dispatching' = dispatching \union {o}
  /\ UNCHANGED <<stages, net, helper, ui, history, counters>>

\* create_operation, the rest: the request goes to the device, into a connection that
\* is already dead, or nowhere, and then the operation waits.
Dispatch(o) ==
  /\ o \in dispatching
  /\ dispatching' = dispatching \ {o}
  /\ \/ link # "down" /\ requests' = requests \union {<<o, "submitted">>} /\ UNCHANGED <<status, stages>>
     \/ link = "down" /\ UNCHANGED <<requests, status, stages>>
     \/ link = "down" /\ Record(o, "waiting") /\ UNCHANGED requests
  /\ UNCHANGED <<link, wire, acks, helper, ui, history, counters>>

\* The hello of a device is answered with everything that has not ended.
Resend ==
  /\ link = "hello"
  /\ link' = "up"
  /\ requests' = requests \union {<<o, status[o]>> : o \in {r \in Ops : status[r] \in Pending}}
  /\ UNCHANGED <<server, wire, acks, helper, ui, history, counters>>

\* handle_operation_update
HandleUpdate ==
  /\ link = "up" /\ wire # <<>>
  /\ LET f == Head(wire) IN
       /\ Record(f.op, f.report)
       /\ acks' = Append(acks, IF Repeated(f.op, f.report) \/ Allowed(f.op, f.report)
                               THEN [op |-> f.op, status |-> status'[f.op]]
                               ELSE [op |-> f.op, status |-> "error"])
  /\ wire' = Tail(wire)
  /\ UNCHANGED <<dispatching, link, requests, helper, ui, history, counters>>

-----------------------------------------------------------------------------
(* The helper: the device connection and the outbox *)

Marked(f, sent) == [n |-> f.n, op |-> f.op, report |-> f.report, sent |-> sent]

\* run_connection up to its hello: every frame that is still kept goes again.
\* Variant: what was sent on the lost connection is not sent again.
ConnectForgets ==
  /\ link = "down"
  /\ link' = "hello"
  /\ UNCHANGED <<server, requests, wire, acks, helper, ui, history, counters>>
Connect ==
  /\ link = "down"
  /\ link' = "hello"
  /\ outbox' = {Marked(f, FALSE) : f \in outbox}
  /\ UNCHANGED <<server, requests, wire, acks, queue, known, ui, history, counters>>

Cut == link' = "down" /\ requests' = {} /\ wire' = <<>> /\ acks' = <<>>

Lose ==
  /\ link # "down" /\ losses < MaxLosses
  /\ losses' = losses + 1
  /\ Cut
  /\ UNCHANGED <<server, helper, ui, history, reloads, restarts, refusals>>

\* flush_outbound: the first frame not yet sent.
SendNext ==
  /\ link # "down"
  /\ \E f \in outbox :
       /\ ~f.sent /\ \A g \in outbox : g.n < f.n => g.sent
       /\ wire' = Append(wire, [op |-> f.op, report |-> f.report])
       /\ outbox' = (outbox \ {f}) \union {Marked(f, TRUE)}
  /\ UNCHANGED <<server, link, requests, acks, queue, known, ui, history, counters>>

\* OperationQueue::push: an operation that was seen before is not queued again.
\* Variant: without the record of what was seen.
TakeRequestAgain ==
  /\ \E r \in requests :
       requests' = requests \ {r} /\ queue' = [queue EXCEPT ![r[1]] = r[2]]
  /\ UNCHANGED <<server, link, wire, acks, known, outbox, ui, history, counters>>
TakeRequest ==
  /\ \E r \in requests :
       /\ requests' = requests \ {r}
       /\ IF r[1] \in known
          THEN UNCHANGED <<queue, known>>
          ELSE queue' = [queue EXCEPT ![r[1]] = r[2]] /\ known' = known \union {r[1]}
  /\ UNCHANGED <<server, link, wire, acks, outbox, ui, history, counters>>

\* acknowledge_operation: what the server's status makes superfluous.
\* Variant: any confirmation of the operation removes its frames.
ConfirmedByAny(f, st) == st \notin Early
Confirmed(f, st) ==
  \/ f.report = "accepted" /\ st \notin Early
  \/ f.report = "running" /\ st \in Outcomes \union {"running"}
  \/ f.report \in Outcomes /\ st \in Outcomes

\* OperationAck: the outbox lets go of what is confirmed; the queue takes over the
\* server's status, or drops an operation that has ended.
TakeAck ==
  /\ acks # <<>> /\ Head(acks).status # "error"
  /\ LET a == Head(acks) IN
       /\ outbox' = {f \in outbox : f.op # a.op \/ ~Confirmed(f, a.status)}
       /\ queue' = [queue EXCEPT ![a.op] =
                      IF a.status \in Outcomes \/ @ = "none" THEN "none" ELSE a.status]
  /\ acks' = Tail(acks)
  /\ UNCHANGED <<server, link, requests, wire, known, ui, history, counters>>

\* An Error frame ends the connection.
TakeError ==
  /\ acks # <<>> /\ Head(acks).status = "error"
  /\ Cut
  /\ UNCHANGED <<server, helper, ui, history, counters>>

\* OperationAccepted, OperationRunning, OperationCompleted of handle_request: the frame
\* joins the outbox, and the queue's copy takes its status.
Newest == IF outbox = {} THEN 0 ELSE Max({f.n : f \in outbox})
Report(o, to) ==
  /\ outbox' = outbox \union {[n |-> Newest + 1, op |-> o, report |-> to, sent |-> FALSE]}
  /\ queue' = [queue EXCEPT ![o] = IF @ = "none" THEN "none" ELSE to]
  /\ first' = [first EXCEPT ![o] = IF @ = "none" /\ to \in Outcomes THEN to ELSE @]

\* The same request when the outbox is full.
Refuse(r) ==
  /\ r \in Refusable /\ refusals < MaxRefusals
  /\ refusals' = refusals + 1
  /\ UNCHANGED <<outbox, queue, first>>

-----------------------------------------------------------------------------
(* The page: drainOperations, executeOperation *)

\* takeOperations; what has ended is passed over by executeOperation.
Take ==
  /\ page = Resting /\ snapshot = {}
  /\ snapshot' = {<<o, queue[o]>> : o \in {r \in Ops : queue[r] \in Pending}}
  /\ snapshot' # {}
  /\ UNCHANGED <<server, net, helper, page, history, counters>>

Undertake(o, step, outcome) ==
  page' = [op |-> o, step |-> step, outcome |-> outcome, tries |-> 0]

\* The start of executeOperation: an operation that had come further was interrupted; a
\* new one is validated and confirmed by the user, or rejected.
Begin ==
  /\ page = Resting
  /\ \E t \in snapshot :
       /\ snapshot' = snapshot \ {t}
       /\ \/ t[2] = "accepted" /\ Undertake(t[1], "run", "interrupted")
          \/ t[2] = "running" /\ Undertake(t[1], "report", "interrupted")
          \/ t[2] \in Early /\ Undertake(t[1], "accept", "none")
          \/ t[2] \in Early /\ Undertake(t[1], "report", "refused")
  /\ UNCHANGED <<server, net, helper, history, counters>>

Reject == page' = [page EXCEPT !.step = "report", !.outcome = "refused"]

\* webDeviceApi.accepted; an error before the execution rejects the operation.
Accept ==
  /\ page.step = "accept"
  /\ \/ Report(page.op, "accepted") /\ page' = [page EXCEPT !.step = "run"] /\ UNCHANGED refusals
     \/ Refuse("accepted") /\ Reject
  /\ UNCHANGED <<server, net, known, snapshot, executed, lost, losses, reloads, restarts>>

\* webDeviceApi.running, on the way to the execution or to operation_interrupted.
Run ==
  /\ page.step = "run"
  /\ \/ /\ Report(page.op, "running") /\ UNCHANGED refusals
        /\ page' = [page EXCEPT !.step = IF page.outcome = "none" THEN "execute" ELSE "report"]
     \/ Refuse("running") /\ Reject
  /\ UNCHANGED <<server, net, known, snapshot, executed, lost, losses, reloads, restarts>>

\* executeWebManagementOperation
Execute ==
  /\ page.step = "execute"
  /\ executed' = [executed EXCEPT ![page.op] = @ + 1]
  /\ \E r \in {"succeeded", "failed", "rejected"} :
       page' = [page EXCEPT !.step = "report", !.outcome = r]
  /\ UNCHANGED <<server, net, helper, snapshot, first, lost, counters>>

\* reportCompletion: tried again when it is refused, and given up after Attempts.
\* Variant: one attempt too many.
CompleteOneMore ==
  /\ page.step = "report"
  /\ \/ Report(page.op, page.outcome) /\ page' = Resting /\ UNCHANGED refusals
     \/ /\ Refuse("completed")
        /\ page' = IF page.tries = Attempts THEN Resting ELSE [page EXCEPT !.tries = @ + 1]
  /\ UNCHANGED <<server, net, known, snapshot, executed, lost, losses, reloads, restarts>>
Complete ==
  /\ page.step = "report"
  /\ \/ Report(page.op, page.outcome) /\ page' = Resting /\ UNCHANGED refusals
     \/ /\ Refuse("completed")
        /\ page' = IF page.tries + 1 = Attempts THEN Resting ELSE [page EXCEPT !.tries = @ + 1]
  /\ UNCHANGED <<server, net, known, snapshot, executed, lost, losses, reloads, restarts>>

-----------------------------------------------------------------------------
(* Faults *)

\* The page is loaded again: what it was doing is forgotten.
Reload ==
  /\ reloads < MaxReloads
  /\ reloads' = reloads + 1
  /\ snapshot' = {} /\ page' = Resting
  /\ UNCHANGED <<server, net, helper, history, losses, restarts, refusals>>

\* The desktop application ends, and the helper with it: queue and outbox live in
\* memory.  It takes seconds, which the two steps of create_operation never do.
Restart ==
  /\ restarts < MaxRestarts /\ dispatching = {}
  /\ restarts' = restarts + 1
  /\ Cut
  /\ queue' = [o \in Ops |-> "none"] /\ known' = {} /\ outbox' = {}
  /\ snapshot' = {} /\ page' = Resting
  /\ first' = [o \in Ops |-> IF Ended(o) THEN status[o] ELSE "none"]
  /\ lost' = [o \in Ops |-> lost[o] + (IF status[o] \in Early THEN 1 ELSE 0)]
  /\ UNCHANGED <<server, executed, losses, reloads, refusals>>

Serve == Resend \/ HandleUpdate \/ \E o \in Ops : Dispatch(o)
Relay == Connect \/ SendNext \/ TakeRequest \/ TakeAck \/ TakeError
Work == Take \/ Begin \/ Accept \/ Run \/ Execute \/ Complete

Next ==
  \/ \E o \in Ops : Create(o)
  \/ Serve \/ Relay \/ Work
  \/ Lose \/ Reload \/ Restart

Spec == Init /\ [][Next]_vars

\* The server's tasks and the helper's connection thread always come to run, the helper
\* tries to connect for ever (RECONNECT_DELAY), the page drains once a second, and a
\* user answers the confirmation of an operation.
Fairness ==
  /\ WF_vars(Resend) /\ WF_vars(HandleUpdate) /\ WF_vars(\E o \in Ops : Dispatch(o))
  /\ WF_vars(Connect) /\ WF_vars(SendNext) /\ WF_vars(TakeRequest) /\ WF_vars(TakeAck \/ TakeError)
  /\ WF_vars(Work)

FairSpec == Spec /\ Fairness

-----------------------------------------------------------------------------
(* Properties *)

Frames == [n : Nat, op : Ops, report : Statuses \ Early, sent : BOOLEAN]

TypeOK ==
  /\ status \in [Ops -> Statuses \union {"none"}]
  /\ stages \in [Ops -> SUBSET {"accepted", "running"}]
  /\ dispatching \subseteq Ops /\ link \in {"down", "hello", "up"}
  /\ requests \subseteq Ops \X Pending
  /\ \A i \in DOMAIN wire : wire[i] \in [op : Ops, report : Statuses \ Early]
  /\ \A i \in DOMAIN acks : acks[i] \in [op : Ops, status : Statuses \union {"error"}]
  /\ queue \in [Ops -> Statuses \union {"none"}] /\ known \subseteq Ops
  /\ outbox \subseteq Frames
  /\ snapshot \subseteq Ops \X Pending
  /\ page \in [op : Ops \union {"none"}, step : {"rest", "accept", "run", "execute", "report"},
               outcome : Outcomes \union {"none"}, tries : 0..(Attempts - 1)]
  /\ link = "down" => requests = {} /\ wire = <<>> /\ acks = <<>>

\* The browser is told the truth: an operation ends at the server with the first result
\* the page reported for it, whatever was repeated after a lost connection; it was
\* carried out if it is said to have been, was not if it was rejected beforehand, and was
\* interrupted only by a reload, a restart or a result the outbox would not take.
ResultTruthful ==
  \A o \in Ops : Ended(o) =>
    /\ status[o] = first[o]
    /\ status[o] \in {"succeeded", "failed", "rejected"} => executed[o] > 0
    /\ status[o] = "refused" => executed[o] <= lost[o]
    /\ status[o] = "interrupted" => reloads + restarts + refusals > 0

\* A management operation is carried out once, however often it is sent or resumed; only
\* an application that restarts before the server knows of the acceptance may repeat it.
ExecutedOnce == \A o \in Ops : executed[o] <= 1 + lost[o]

\* The helper keeps a completion until the server has it: a result the page has handed
\* over cannot be lost with a connection.
CompletionKept ==
  \A o \in Ops : first[o] # "none" /\ ~Ended(o)
    => \E f \in outbox : f.op = o /\ f.report = first[o]

\* A submitted operation comes to an end at the server, through lost connections, full
\* outboxes, reloads and restarts.
OperationEnds == \A o \in Ops : (status[o] \in Pending) ~> Ended(o)
=============================================================================
