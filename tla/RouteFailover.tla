---------------------------- MODULE RouteFailover ----------------------------
(***************************************************************************)
(* Local routing with automatic failover: requests of the AI tools pass    *)
(* through the daemon, which forwards each to the first provider of the    *)
(* failover queue that answers (route_http/forwarding.rs).  Providers are  *)
(* guarded by circuits that all requests share (circuit.rs), and by pools  *)
(* of API keys that are put aside for a while when they are refused        *)
(* (RouteState and KeyPool of route_http.rs).                              *)
(*                                                                         *)
(* A request runs on one of several listener threads.  Between two of its  *)
(* awaits, and between two of its locks, the others run: what it learned   *)
(* of a circuit when it was admitted may be stale when it settles.         *)
(*                                                                         *)
(* Automatic failover is enabled and the queue and the policy are fixed.   *)
(* Time is a step of its own: a circuit that is open cools down and a key  *)
(* that was refused is usable again after a while.                         *)
(***************************************************************************)
EXTENDS Integers, Sequences, FiniteSets

CONSTANTS
  Providers,         \* the providers of the failover queue
  Queue,             \* the saved order of the queue
  Keys,              \* the API keys of each provider
  Requests,          \* the requests that can be in flight together
  NoKey,             \* no key is selected
  MaxAttempts,       \* max_retries + 1
  RectifierRules,    \* the rectifier rules, each of which may retry a request once
  FailureThreshold, SuccessThreshold, MinRequests, ErrorRate,  \* CircuitPolicy; the rate in percent
  CountMax,          \* stands for u32::MAX, where the counters saturate
  CancelPhases,      \* the phases in which the client of a request may go away
  Recovering,        \* the providers whose outage may end
  MaxCancels,        \* bound: clients that go away
  MaxResets          \* bound: circuits reset by the user

ASSUME QueueAssumption ==
  /\ Queue \in Seq(Providers) /\ Len(Queue) > 0
  /\ \A p \in Providers : \E i \in 1..Len(Queue) : Queue[i] = p
  /\ \A i, j \in 1..Len(Queue) : Queue[i] = Queue[j] => i = j
ASSUME PolicyAssumption ==  \* validate_failover_config
  /\ MaxAttempts \in Nat \ {0} /\ RectifierRules \in Nat
  /\ FailureThreshold \in Nat \ {0} /\ SuccessThreshold \in Nat \ {0}
  /\ MinRequests \in Nat \ {0} /\ ErrorRate \in 0..100
  /\ CountMax \in Nat /\ FailureThreshold <= CountMax /\ SuccessThreshold <= CountMax
  /\ Recovering \subseteq Providers
  /\ MaxCancels \in Nat /\ MaxResets \in Nat /\ NoKey \notin Keys
  /\ CancelPhases \subseteq {"sending", "refused", "reading", "switching", "streaming"}

VARIABLES
  circuit,   \* CircuitRegistry.entries
  cooling,   \* KeyPool.cooldowns: the keys put aside, of each provider
  current,   \* the provider the database marks as current
  switches,  \* hot switches spawned by a stream and not yet applied
  req,       \* the state of each request in forward_request and timed_body_stream
  up,        \* environment: the providers that answer every request from now on
  cancels, resets

vars == <<circuit, cooling, current, switches, req, up, cancels, resets>>
-----------------------------------------------------------------------------
(* circuit.rs: the entry of a provider. *)

\* Also what reset_closed leaves of an entry.
ClosedEntry == [status |-> "closed", consecutive |-> 0, probes |-> 0, total |-> 0,
                failed |-> 0, cooled |-> FALSE, probing |-> FALSE]
\* The counts of requests and failures are read only in a closed circuit, which
\* starts with none: those of an open one are dead, and cleared here.
OpenEntry == [ClosedEntry EXCEPT !.status = "open"]

Increment(n) == IF n < CountMax THEN n + 1 ELSE CountMax
\* Wrong variant, rejected by the properties: a half-open circuit admits every request.
AdmitsHalfOpen(e) == e.status # "open" \/ e.cooled
Admits(e) ==
  \/ e.status = "closed"
  \/ e.status = "open" /\ e.cooled
  \/ e.status = "halfOpen" /\ ~e.probing
Permit(e) == IF e.status = "closed" THEN "plain" ELSE "probe"
AfterAcquire(e) ==
  CASE e.status = "closed"   -> e
    [] e.status = "open"     -> [ClosedEntry EXCEPT !.status = "halfOpen", !.probing = TRUE]
    [] e.status = "halfOpen" -> [e EXCEPT !.probing = TRUE]
AfterSuccess(e, permit) ==
  IF permit = "probe"
  THEN IF Increment(e.probes) >= SuccessThreshold THEN ClosedEntry
       ELSE [e EXCEPT !.probing = FALSE, !.probes = Increment(@)]
  ELSE IF e.status = "closed" THEN [e EXCEPT !.consecutive = 0, !.total = Increment(@)]
  ELSE e
Counted(e) == [e EXCEPT !.total = Increment(@), !.failed = Increment(@),
                        !.consecutive = Increment(@)]
\* Wrong variant, rejected by the properties: one failure too many is allowed.
ExceedsLate(e, threshold) == e.consecutive > threshold
Exceeds(e, threshold) ==
  \/ e.consecutive >= threshold
  \/ e.total >= MinRequests /\ 100 * e.failed >= ErrorRate * e.total
\* Wrong variant, rejected by the properties: a late failure of a request that is
\* not the probe counts in every state.
AfterFailureLate(e, permit, threshold) ==
  IF permit = "probe" \/ Exceeds(Counted(e), threshold) THEN OpenEntry ELSE Counted(e)
AfterFailure(e, permit, threshold) ==
  IF permit = "probe" THEN OpenEntry
  ELSE IF e.status # "closed" THEN e
  ELSE IF Exceeds(Counted(e), threshold) THEN [OpenEntry EXCEPT !.probes = e.probes]
  ELSE Counted(e)
\* Wrong variant, rejected by the properties: the release of a probe does nothing.
AfterReleaseNothing(e, permit) == e
AfterRelease(e, permit) == IF permit = "probe" THEN [e EXCEPT !.probing = FALSE] ELSE e
-----------------------------------------------------------------------------
(* A request: its phase; the provider that was current when it loaded the  *)
(* queue; the candidate it is at; the sends so far; its circuit permit;    *)
(* its key and the keys it used; the rectifier rules it used; whether it   *)
(* asks for a stream and whether the upstream answered with success.       *)

Idle == [phase |-> "idle", first |-> Queue[1], next |-> 1, attempts |-> 0, permit |-> "none",
         key |-> NoKey, used |-> {}, rules |-> 0, streaming |-> FALSE, ok |-> FALSE]

Position(p) == CHOOSE i \in 1..Len(Queue) : Queue[i] = p
\* prioritize_current_provider: the current provider, then the others in order.
Candidate(first, i) ==
  IF i = 1 THEN first ELSE IF i <= Position(first) THEN Queue[i - 1] ELSE Queue[i]
At(r) == Candidate(req[r].first, req[r].next)
Ready(p, used) == Keys \ (used \cup cooling[p])

InPhase(r, phase) == req[r].phase = phase
Becomes(r, q) == req' = [req EXCEPT ![r] = q]
\* Wrong variant, rejected by the properties: the loop stays at its provider.
NextProviderSame(r) ==
  Becomes(r, [req[r] EXCEPT !.phase = "choosing", !.permit = "none", !.key = NoKey, !.used = {}])
\* Wrong variant, rejected by the properties: a consumed permit is kept.
NextProviderUnconsumed(r) ==
  Becomes(r, [req[r] EXCEPT !.phase = "choosing", !.next = @ + 1, !.key = NoKey, !.used = {}])
\* The next round of the provider loop, the permit having been consumed.
NextProvider(r) ==
  Becomes(r, [req[r] EXCEPT !.phase = "choosing", !.next = @ + 1, !.permit = "none",
                            !.key = NoKey, !.used = {}])
Finish(r) == Becomes(r, Idle)

\* What the holder of a permit does with it; the permit is consumed.
Settles(r, e) == circuit' = [circuit EXCEPT ![At(r)] = e]
RecordSuccess(r) == Settles(r, AfterSuccess(circuit[At(r)], req[r].permit))
RecordFailure(r) == Settles(r, AfterFailure(circuit[At(r)], req[r].permit, FailureThreshold))
RecordStreamFailure(r) == Settles(r, AfterFailure(circuit[At(r)], req[r].permit, 1))
Release(r) == Settles(r, AfterRelease(circuit[At(r)], req[r].permit))

environment == <<up, cancels, resets>>
pools == <<cooling, current, switches>>

Init ==
  /\ circuit = [p \in Providers |-> ClosedEntry]
  /\ cooling = [p \in Providers |-> {}]
  /\ current \in Providers
  /\ switches = {}
  /\ req = [r \in Requests |-> Idle]
  /\ up = {}
  /\ cancels = 0 /\ resets = 0
-----------------------------------------------------------------------------
(* forward_request: the choice of a provider. *)

Arrive(r) ==
  /\ InPhase(r, "idle")
  /\ \E streaming \in BOOLEAN :
       Becomes(r, [Idle EXCEPT !.phase = "choosing", !.first = current, !.streaming = streaming])
  /\ UNCHANGED <<circuit, pools, environment>>

\* Wrong variant, rejected by the properties: the last provider is never tried.
MayTryButLast(r) == req[r].next < Len(Queue) /\ req[r].attempts < MaxAttempts
MayTry(r) == req[r].next <= Len(Queue) /\ req[r].attempts < MaxAttempts

Acquire(r) ==
  /\ InPhase(r, "choosing") /\ MayTry(r)
  /\ Admits(circuit[At(r)])
  /\ Becomes(r, [req[r] EXCEPT !.phase = "admitted", !.permit = Permit(circuit[At(r)])])
  /\ Settles(r, AfterAcquire(circuit[At(r)]))
  /\ UNCHANGED <<pools, environment>>

SkipCircuit(r) ==
  /\ InPhase(r, "choosing") /\ MayTry(r)
  /\ ~Admits(circuit[At(r)])
  /\ NextProvider(r)
  /\ UNCHANGED <<circuit, pools, environment>>

\* The endpoint is not usable, or every key is cooling down.
SkipProvider(r) ==
  /\ InPhase(r, "admitted")
  /\ At(r) \notin up \/ Ready(At(r), {}) = {}
  /\ Release(r)
  /\ NextProvider(r)
  /\ UNCHANGED <<pools, environment>>

\* The media rule may be spent already, on a request that would be refused.
SelectKey(r) ==
  /\ InPhase(r, "admitted")
  /\ \E k \in Ready(At(r), {}), spent \in {0, 1} :
       /\ req[r].rules + spent <= RectifierRules
       /\ Becomes(r, [req[r] EXCEPT !.phase = "sending", !.key = k, !.used = {k},
                                    !.attempts = @ + 1, !.rules = @ + spent])
  /\ UNCHANGED <<circuit, pools, environment>>

GiveUp(r) ==
  /\ InPhase(r, "choosing") /\ ~MayTry(r)
  /\ Finish(r)
  /\ UNCHANGED <<circuit, pools, environment>>
-----------------------------------------------------------------------------
(* forward_request: the answer of the provider. *)

\* A timeout, a failed request or a status of the provider class.
ProviderFails(r) ==
  /\ InPhase(r, "sending") /\ At(r) \notin up
  /\ RecordFailure(r)
  /\ NextProvider(r)
  /\ UNCHANGED <<pools, environment>>

\* A client error that a rectifier rule repairs: the same provider again.
Rectify(r) ==
  /\ InPhase(r, "sending") /\ At(r) \notin up
  /\ ~req[r].streaming /\ req[r].rules < RectifierRules
  /\ req[r].attempts < MaxAttempts
  /\ Becomes(r, [req[r] EXCEPT !.rules = @ + 1, !.attempts = @ + 1])
  /\ UNCHANGED <<circuit, pools, environment>>

\* 401, 403 or 429: the key is put aside.
KeyRefused(r) ==
  /\ InPhase(r, "sending") /\ At(r) \notin up
  /\ cooling' = [cooling EXCEPT ![At(r)] = @ \cup {req[r].key}]
  /\ Becomes(r, [req[r] EXCEPT !.phase = "refused"])
  /\ UNCHANGED <<circuit, current, switches, environment>>

\* The next key is tried that the request has not used and that no request has
\* had put aside meanwhile.
NextKey(r) ==
  /\ InPhase(r, "refused") /\ req[r].attempts < MaxAttempts
  /\ \E k \in Ready(At(r), req[r].used) :
       Becomes(r, [req[r] EXCEPT !.phase = "sending", !.key = k, !.used = @ \cup {k},
                                 !.attempts = @ + 1])
  /\ UNCHANGED <<circuit, pools, environment>>

KeysExhausted(r) ==
  /\ InPhase(r, "refused")
  /\ Ready(At(r), req[r].used) = {} \/ req[r].attempts >= MaxAttempts
  /\ RecordFailure(r)
  /\ NextProvider(r)
  /\ UNCHANGED <<pools, environment>>

\* Any other answer: its body is read here, or handed to the client as a stream.
Respond(r) ==
  /\ InPhase(r, "sending")
  /\ \E ok \in BOOLEAN :
       /\ At(r) \in up => ok
       /\ Becomes(r, [Idle EXCEPT !.phase = IF req[r].streaming THEN "streaming" ELSE "reading",
                                  !.first = req[r].first, !.next = req[r].next,
                                  !.permit = req[r].permit, !.ok = ok])
  /\ UNCHANGED <<circuit, pools, environment>>

\* should_hot_switch_provider; the current provider is the first candidate.
ShouldSwitch(r) == req[r].ok /\ req[r].next # 1

BodyFails(r) ==
  /\ InPhase(r, "reading") /\ At(r) \notin up
  /\ RecordFailure(r)
  /\ Finish(r)
  /\ UNCHANGED <<pools, environment>>

\* The body was read and no switch is due.
BodyRead(r) ==
  /\ InPhase(r, "reading") /\ ~ShouldSwitch(r)
  /\ IF req[r].ok THEN RecordSuccess(r) ELSE Release(r)
  /\ Finish(r)
  /\ UNCHANGED <<pools, environment>>

\* The body was read; the request waits for the switch before it settles.
BeginSwitch(r) ==
  /\ InPhase(r, "reading") /\ ShouldSwitch(r)
  /\ Becomes(r, [req[r] EXCEPT !.phase = "switching"])
  /\ UNCHANGED <<circuit, pools, environment>>

\* The switch is applied or fails; the request is served either way.
EndSwitch(r) ==
  /\ InPhase(r, "switching")
  /\ current' \in {current, At(r)}
  /\ RecordSuccess(r)
  /\ Finish(r)
  /\ UNCHANGED <<cooling, switches, environment>>
-----------------------------------------------------------------------------
(* timed_body_stream: the stream settles at most once. *)

Unsettled(r) == InPhase(r, "streaming") /\ req[r].permit # "none"
Settled == [Idle EXCEPT !.phase = "streaming"]

StreamSuccess(r) ==
  /\ Unsettled(r)
  /\ RecordSuccess(r)
  /\ Becomes(r, Settled)
  /\ switches' = IF ShouldSwitch(r) THEN switches \cup {At(r)} ELSE switches
  /\ UNCHANGED <<cooling, current, environment>>

\* An error event of the stream.
StreamFailure(r) ==
  /\ Unsettled(r) /\ At(r) \notin up
  /\ RecordStreamFailure(r)
  /\ Becomes(r, Settled)
  /\ UNCHANGED <<pools, environment>>

\* The stream ends, breaks or times out: finish_stream_circuit.
StreamEnd(r) ==
  /\ InPhase(r, "streaming")
  /\ Unsettled(r) => At(r) \notin up
  /\ IF Unsettled(r) THEN RecordStreamFailure(r) ELSE UNCHANGED circuit
  /\ Finish(r)
  /\ UNCHANGED <<pools, environment>>

\* The switch a stream spawned is applied or fails.
ApplySwitch(p) ==
  /\ p \in switches
  /\ current' \in {current, p}
  /\ switches' = switches \ {p}
  /\ UNCHANGED <<circuit, cooling, req, environment>>
-----------------------------------------------------------------------------
(* The client, the user and time. *)

\* The client closes its connection, or the listener is rebound: the future of
\* the request is dropped.  Only the state of a stream releases its permit.
Cancel(r) ==
  /\ req[r].phase \in CancelPhases /\ cancels < MaxCancels
  /\ cancels' = cancels + 1
  /\ IF InPhase(r, "streaming") THEN Release(r) ELSE UNCHANGED circuit
  /\ Finish(r)
  /\ UNCHANGED <<pools, up, resets>>

\* The user resets the circuit of a provider, or all of them.
Reset ==
  /\ resets < MaxResets
  /\ resets' = resets + 1
  /\ \E S \in {{p} : p \in Providers} \cup {Providers} :
       circuit' = [p \in Providers |-> IF p \in S THEN ClosedEntry ELSE circuit[p]]
  /\ UNCHANGED <<pools, req, up, cancels>>

\* opened_at.elapsed() reaches the policy's timeout.
CoolDown(p) ==
  /\ circuit[p].status = "open" /\ ~circuit[p].cooled
  /\ circuit' = [circuit EXCEPT ![p].cooled = TRUE]
  /\ UNCHANGED <<pools, req, environment>>

KeyReturns(p, k) ==
  /\ k \in cooling[p]
  /\ cooling' = [cooling EXCEPT ![p] = @ \ {k}]
  /\ UNCHANGED <<circuit, current, switches, req, environment>>

\* The outage of a provider ends.
Recover(p) ==
  /\ p \in Recovering \ up
  /\ up' = up \cup {p}
  /\ UNCHANGED <<circuit, pools, req, cancels, resets>>
-----------------------------------------------------------------------------
Forward(r) ==
  \/ Acquire(r) \/ SkipCircuit(r) \/ SkipProvider(r) \/ SelectKey(r) \/ GiveUp(r)
  \/ ProviderFails(r) \/ Rectify(r) \/ Respond(r)
  \/ KeyRefused(r) \/ NextKey(r) \/ KeysExhausted(r)
  \/ BodyFails(r) \/ BodyRead(r) \/ BeginSwitch(r) \/ EndSwitch(r)
  \/ StreamSuccess(r) \/ StreamFailure(r) \/ StreamEnd(r)
Elapse ==
  \/ \E p \in Providers : CoolDown(p) \/ ApplySwitch(p)
  \/ \E p \in Providers, k \in Keys : KeyReturns(p, k)
Next ==
  \/ \E r \in Requests : Arrive(r) \/ Forward(r) \/ Cancel(r)
  \/ Elapse \/ Reset \/ \E p \in Providers : Recover(p)

\* The runtime polls every request, every send, body and stream has a timeout,
\* time passes and spawned tasks run.  That clients keep sending requests is
\* an assumption on the environment: circuits are probed by traffic alone.
Fairness ==
  /\ \A r \in Requests : WF_vars(Forward(r)) /\ WF_vars(Arrive(r))
  /\ \A p \in Providers : WF_vars(CoolDown(p)) /\ WF_vars(ApplySwitch(p))
  /\ \A p \in Providers, k \in Keys : WF_vars(KeyReturns(p, k))

Spec == Init /\ [][Next]_vars
FairSpec == Spec /\ Fairness
-----------------------------------------------------------------------------
(* Properties. *)

Entries ==
  [status : {"closed", "open", "halfOpen"}, consecutive : 0..CountMax, probes : 0..CountMax,
   total : 0..CountMax, failed : 0..CountMax, cooled : BOOLEAN, probing : BOOLEAN]
RequestStates ==
  [phase : {"idle", "choosing", "admitted", "sending", "refused", "reading", "switching",
            "streaming"},
   first : Providers, next : 1..(Len(Queue) + 1), attempts : 0..MaxAttempts,
   permit : {"none", "plain", "probe"}, key : Keys \cup {NoKey}, used : SUBSET Keys,
   rules : 0..RectifierRules, streaming : BOOLEAN, ok : BOOLEAN]
Consistent(q) ==
  /\ q.phase \notin {"idle", "choosing"} => q.next <= Len(Queue)
  /\ q.phase = "admitted" => q.attempts < MaxAttempts
  /\ q.phase = "sending" => q.key \in Keys
  /\ q.phase \in {"idle", "choosing"} => q.permit = "none"
  /\ q.phase \in {"admitted", "sending", "refused", "reading", "switching"} => q.permit # "none"

\* The types of the variables, and what a request holds in each phase: it is at
\* a candidate of the queue and never sends more often than max_retries + 1.
TypeOK ==
  /\ circuit \in [Providers -> Entries]
  /\ cooling \in [Providers -> SUBSET Keys]
  /\ current \in Providers
  /\ switches \subseteq Providers /\ up \subseteq Providers
  /\ req \in [Requests -> RequestStates]
  /\ \A r \in Requests : Consistent(req[r])
  /\ cancels \in Nat /\ resets \in Nat

HoldsProbe(r, p) == req[r].permit = "probe" /\ At(r) = p

\* At most one request probes a provider whose circuit is half open (the tests of
\* circuit.rs check it for one caller, prd.md:226 asks for it).
SingleProbe ==
  \A p \in Providers : \A r, s \in Requests : HoldsProbe(r, p) /\ HoldsProbe(s, p) => r = s

\* While a circuit turns requests away because it is being probed, some request
\* in flight is that probe: a client that goes away does not leave it blocked.
ProbeHasOwner ==
  \A p \in Providers : circuit[p].probing => \E r \in Requests : HoldsProbe(r, p)

\* A circuit is open as soon as its failures reach the threshold: no order of
\* the answers to concurrent requests leaves it closed beyond the threshold.
ClosedBelowThreshold ==
  \A p \in Providers : circuit[p].status = "closed" =>
    circuit[p].consecutive < FailureThreshold /\ circuit[p].failed <= circuit[p].total

\* Closed, open, half open: a circuit leaves the half-open state only by the
\* outcome of its probe.  Answers to requests admitted before it opened, which
\* arrive late, decide nothing.
ProbesDecide ==
  [][\A p \in Providers : LET old == circuit[p].status new == circuit'[p].status IN
       \/ old = new
       \/ old = "closed" /\ new = "open"
       \/ old = "open" /\ new = "halfOpen"
       \/ old = "halfOpen" /\ \E r \in Requests : HoldsProbe(r, p) /\ req'[r].permit # "probe"]_vars

\* Every request is answered: the provider loop, the key retries and the
\* rectifier retries all come to an end.
RequestEnds == \A r \in Requests : req[r].phase # "idle" ~> req[r].phase = "idle"

Served(r) == (BodyRead(r) /\ req[r].ok) \/ EndSwitch(r) \/ StreamSuccess(r)
\* The provider answered, so that no other is tried, but not with a usable body.
Spoiled(r) ==
  \/ BodyRead(r) /\ ~req[r].ok
  \/ BodyFails(r) \/ StreamFailure(r) \/ (StreamEnd(r) /\ Unsettled(r))

\* Once a provider of the queue answers again, and the others do not for ever
\* accept requests that they then spoil, requests are served again and again:
\* no circuit, probe or key pool shuts the provider out for good.
Serves ==
  <>(up # {}) /\ <>[][~ \E r \in Requests : Spoiled(r)]_vars
    => []<><<\E r \in Requests : Served(r)>>_vars
=============================================================================
