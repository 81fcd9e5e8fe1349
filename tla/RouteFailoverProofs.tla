------------------------- MODULE RouteFailoverProofs -------------------------
(***************************************************************************)
(* Theorems about RouteFailover, for any number of providers, keys and     *)
(* requests and for every policy the configuration accepts.                *)
(***************************************************************************)
EXTENDS RouteFailover, TLAPS

(***************************************************************************)
(* The queue and the entries of the circuits.                              *)
(***************************************************************************)

\* Every provider has a position in the queue.
LEMMA QueueFacts ==
  /\ Len(Queue) \in Nat \ {0}
  /\ \A i \in 1..Len(Queue) : Queue[i] \in Providers
  /\ \A p \in Providers : Position(p) \in 1..Len(Queue)
<1>1. Queue \in Seq(Providers) /\ Len(Queue) > 0
  BY QueueAssumption
<1>2. \A p \in Providers : \E i \in 1..Len(Queue) : Queue[i] = p
  BY QueueAssumption
<1>3. \A p \in Providers : Position(p) \in 1..Len(Queue)
  BY <1>2, Zenon DEF Position
<1> QED  BY <1>1, <1>3

\* The current provider, moved to the front, leaves no gap in the queue.
LEMMA CandidateType ==
  ASSUME NEW first \in Providers, NEW i \in 1..Len(Queue)
  PROVE  Candidate(first, i) \in Providers
BY QueueFacts DEF Candidate

LEMMA IncrementType ==
  \A n \in 0..CountMax : Increment(n) \in 0..CountMax
BY PolicyAssumption DEF Increment

LEMMA ClosedEntryType == ClosedEntry \in Entries /\ OpenEntry \in Entries
<1>1. 0 \in 0..CountMax
  BY PolicyAssumption
<1>2. ClosedEntry \in Entries
  BY <1>1 DEF ClosedEntry, Entries
<1>3. OpenEntry \in Entries
  BY <1>2 DEF OpenEntry, Entries
<1> QED  BY <1>2, <1>3

\* Every operation of the registry yields an entry.
LEMMA EntryOperations ==
  ASSUME NEW e \in Entries, NEW permit, NEW t
  PROVE  /\ AfterAcquire(e) \in Entries
         /\ AfterSuccess(e, permit) \in Entries
         /\ AfterFailure(e, permit, t) \in Entries
         /\ AfterRelease(e, permit) \in Entries
<1>1. AfterAcquire(e) \in Entries
  BY ClosedEntryType DEF AfterAcquire, Entries, ClosedEntry
<1>2. AfterSuccess(e, permit) \in Entries
  <2>1. [e EXCEPT !.probing = FALSE, !.probes = Increment(@)] \in Entries
    BY IncrementType DEF Entries
  <2>2. [e EXCEPT !.consecutive = 0, !.total = Increment(@)] \in Entries
    <3>1. 0 \in 0..CountMax /\ Increment(e.total) \in 0..CountMax
      BY IncrementType, PolicyAssumption DEF Entries
    <3> QED  BY <3>1 DEF Entries
  <2> QED  BY <2>1, <2>2, ClosedEntryType DEF AfterSuccess
<1>3. Counted(e) \in Entries
  BY IncrementType DEF Counted, Entries
<1>3a. [OpenEntry EXCEPT !.probes = e.probes] \in Entries
  BY ClosedEntryType DEF Entries
<1>4. AfterFailure(e, permit, t) \in Entries
  BY <1>3, <1>3a, ClosedEntryType DEF AfterFailure
<1>5. AfterRelease(e, permit) \in Entries
  BY DEF AfterRelease, Entries
<1> QED  BY <1>1, <1>2, <1>4, <1>5

(***************************************************************************)
(* Type correctness.                                                       *)
(***************************************************************************)

RequestsOK == req \in [Requests -> RequestStates] /\ \A r \in Requests : Consistent(req[r])

LEMMA IdleType == Idle \in RequestStates /\ Consistent(Idle) /\ Idle.permit = "none"
<1>1. Queue[1] \in Providers /\ 1 \in 1..(Len(Queue) + 1) /\ 1 <= Len(Queue)
  BY QueueFacts
<1>2. 0 \in 0..MaxAttempts /\ 0 \in 0..RectifierRules
  BY PolicyAssumption
<1> QED  BY <1>1, <1>2 DEF Idle, RequestStates, Consistent

LEMMA RequestTypes ==
  ASSUME TypeOK, NEW r \in Requests
  PROVE  /\ req[r] \in RequestStates /\ Consistent(req[r])
         /\ req[r].next <= Len(Queue) => At(r) \in Providers /\ circuit[At(r)] \in Entries
         /\ req[r].phase \notin {"idle", "choosing"} => req[r].next <= Len(Queue)
<1>1. req[r] \in RequestStates /\ Consistent(req[r])
  BY DEF TypeOK
<1>2. ASSUME req[r].next <= Len(Queue) PROVE At(r) \in Providers
  <2>1. req[r].first \in Providers /\ req[r].next \in 1..Len(Queue)
    BY <1>1, <1>2, QueueFacts DEF RequestStates
  <2> QED  BY <2>1, CandidateType DEF At
<1> QED  BY <1>1, <1>2 DEF TypeOK, Consistent

LEMMA BecomesType ==
  ASSUME TypeOK, NEW r \in Requests, NEW q \in RequestStates, Consistent(q), Becomes(r, q)
  PROVE  RequestsOK' /\ req'[r] = q /\ \A s \in Requests \ {r} : req'[s] = req[s]
<1>1. req' = [req EXCEPT ![r] = q] /\ req \in [Requests -> RequestStates]
  BY DEF Becomes, TypeOK
<1>2. req' \in [Requests -> RequestStates] /\ req'[r] = q
      /\ \A s \in Requests \ {r} : req'[s] = req[s]
  BY <1>1
<1>3. \A s \in Requests : Consistent(req'[s])
  BY <1>2 DEF TypeOK
<1> QED  BY <1>2, <1>3 DEF RequestsOK, Consistent

LEMMA SettlesType ==
  ASSUME TypeOK, NEW r \in Requests, NEW e \in Entries, At(r) \in Providers, Settles(r, e)
  PROVE  /\ circuit' \in [Providers -> Entries] /\ circuit'[At(r)] = e
         /\ \A p \in Providers \ {At(r)} : circuit'[p] = circuit[p]
BY DEF Settles, TypeOK

LEMMA InitType == Init => TypeOK
<1> SUFFICES ASSUME Init PROVE TypeOK
  OBVIOUS
<1>1. circuit \in [Providers -> Entries]
  BY ClosedEntryType DEF Init
<1>2. req \in [Requests -> RequestStates] /\ \A r \in Requests : Consistent(req[r])
  BY IdleType DEF Init
<1> QED  BY <1>1, <1>2 DEF Init, TypeOK

\* What every step of a request leaves well typed.
LEMMA RequestStepType ==
  ASSUME TypeOK, NEW r \in Requests, Arrive(r) \/ Forward(r) \/ Cancel(r)
  PROVE  RequestsOK'
<1> USE RequestTypes
<1> DEFINE old == req[r]
<1>0. /\ old \in RequestStates /\ Consistent(old)
      /\ Len(Queue) \in Nat /\ MaxAttempts \in Nat /\ RectifierRules \in Nat
  BY QueueFacts, PolicyAssumption
<1>1. ASSUME Becomes(r, Idle) PROVE RequestsOK'
  BY <1>1, IdleType, BecomesType
<1>2. ASSUME NextProvider(r), old.next <= Len(Queue) PROVE RequestsOK'
  <2> DEFINE q == [old EXCEPT !.phase = "choosing", !.next = @ + 1, !.permit = "none",
                              !.key = NoKey, !.used = {}]
  <2>1. q \in RequestStates
    <3>1. old.next + 1 \in 1..(Len(Queue) + 1)
      BY <1>0, <1>2 DEF RequestStates
    <3> QED  BY <3>1, <1>0 DEF RequestStates
  <2>1a. Consistent(q)
    BY <1>0, <1>2 DEF RequestStates, Consistent
  <2> QED  BY <2>1, <2>1a, <1>2, BecomesType DEF NextProvider
<1>3. CASE Arrive(r)
  <2>1. PICK streaming \in BOOLEAN :
          Becomes(r, [Idle EXCEPT !.phase = "choosing", !.first = current,
                                  !.streaming = streaming])
    BY <1>3 DEF Arrive
  <2> DEFINE q == [Idle EXCEPT !.phase = "choosing", !.first = current, !.streaming = streaming]
  <2>2. q \in RequestStates
    BY IdleType DEF RequestStates, TypeOK
  <2>2a. Consistent(q)
    BY IdleType DEF RequestStates, Consistent, TypeOK
  <2> QED  BY <2>1, <2>2, <2>2a, BecomesType
<1>4. CASE Acquire(r)
  <2> DEFINE q == [old EXCEPT !.phase = "admitted", !.permit = Permit(circuit[At(r)])]
  <2>1. q \in RequestStates
    BY <1>0, <1>4 DEF RequestStates, Acquire, MayTry, Permit
  <2>1a. Consistent(q)
    BY <1>0, <1>4 DEF RequestStates, Consistent, Acquire, MayTry, Permit
  <2> QED  BY <2>1, <2>1a, <1>4, BecomesType DEF Acquire
<1>5. CASE SkipCircuit(r)
  BY <1>2, <1>5 DEF SkipCircuit, MayTry
<1>6. CASE SkipProvider(r)
  BY <1>2, <1>6 DEF SkipProvider, InPhase
<1>7. CASE SelectKey(r)
  <2>1. PICK k \in Keys, spent \in {0, 1} :
          /\ old.rules + spent <= RectifierRules
          /\ Becomes(r, [old EXCEPT !.phase = "sending", !.key = k, !.used = {k},
                                    !.attempts = @ + 1, !.rules = @ + spent])
    BY <1>7 DEF SelectKey, Ready
  <2> DEFINE q == [old EXCEPT !.phase = "sending", !.key = k, !.used = {k},
                              !.attempts = @ + 1, !.rules = @ + spent]
  <2>2. q \in RequestStates
    <3>1. old.attempts + 1 \in 0..MaxAttempts
      BY <1>0, <1>7 DEF RequestStates, Consistent, SelectKey, InPhase
    <3>1a. old.rules + spent \in 0..RectifierRules
      BY <1>0, <2>1 DEF RequestStates
    <3>2. {k} \in SUBSET Keys /\ k \in Keys \cup {NoKey}
      OBVIOUS
    <3> QED  BY <3>1, <3>1a, <3>2, <1>0 DEF RequestStates
  <2>2a. Consistent(q)
    BY <1>0, <1>7 DEF RequestStates, Consistent, SelectKey, InPhase
  <2> QED  BY <2>1, <2>2, <2>2a, BecomesType
<1>8. CASE Rectify(r)
  <2> DEFINE q == [old EXCEPT !.rules = @ + 1, !.attempts = @ + 1]
  <2>1. q \in RequestStates
    <3>1. old.attempts + 1 \in 0..MaxAttempts /\ old.rules + 1 \in 0..RectifierRules
      BY <1>0, <1>8 DEF RequestStates, Rectify
    <3> QED  BY <3>1, <1>0 DEF RequestStates
  <2>1a. Consistent(q)
    BY <1>0, <1>8 DEF RequestStates, Consistent, Rectify, InPhase
  <2> QED  BY <2>1, <2>1a, <1>8, BecomesType DEF Rectify
<1>9. CASE KeyRefused(r)
  <2> DEFINE q == [old EXCEPT !.phase = "refused"]
  <2>1. q \in RequestStates
    BY <1>0 DEF RequestStates
  <2>1a. Consistent(q)
    BY <1>0, <1>9 DEF RequestStates, Consistent, KeyRefused, InPhase
  <2> QED  BY <2>1, <2>1a, <1>9, BecomesType DEF KeyRefused
<1>9a. CASE NextKey(r)
  <2>1. PICK k \in Keys :
          Becomes(r, [old EXCEPT !.phase = "sending", !.key = k, !.used = @ \cup {k},
                                 !.attempts = @ + 1])
    BY <1>9a DEF NextKey, Ready
  <2> DEFINE q == [old EXCEPT !.phase = "sending", !.key = k, !.used = @ \cup {k},
                              !.attempts = @ + 1]
  <2>2. q \in RequestStates
    <3>1. old.attempts + 1 \in 0..MaxAttempts /\ k \in Keys \cup {NoKey}
      BY <1>0, <1>9a DEF RequestStates, NextKey
    <3>2. old.used \cup {k} \in SUBSET Keys
      BY <1>0 DEF RequestStates
    <3> QED  BY <3>1, <3>2, <1>0 DEF RequestStates
  <2>2a. Consistent(q)
    BY <1>0, <1>9a DEF RequestStates, Consistent, NextKey, InPhase
  <2> QED  BY <2>1, <2>2, <2>2a, BecomesType
<1>9b. CASE KeysExhausted(r)
  BY <1>2, <1>9b DEF KeysExhausted, InPhase
<1>10. CASE Respond(r)
  <2>1. PICK ok \in BOOLEAN :
          Becomes(r, [Idle EXCEPT !.phase = IF old.streaming THEN "streaming" ELSE "reading",
                                  !.first = old.first, !.next = old.next,
                                  !.permit = old.permit, !.ok = ok])
    BY <1>10 DEF Respond
  <2> DEFINE q == [Idle EXCEPT !.phase = IF old.streaming THEN "streaming" ELSE "reading",
                               !.first = old.first, !.next = old.next,
                               !.permit = old.permit, !.ok = ok]
  <2>2. q \in RequestStates
    BY <1>0, <1>10, IdleType DEF RequestStates, Respond, InPhase
  <2>2a. Consistent(q)
    BY <1>0, <1>10, IdleType DEF RequestStates, Consistent, Respond, InPhase
  <2> QED  BY <2>1, <2>2, <2>2a, BecomesType
<1>11. CASE BeginSwitch(r)
  <2> DEFINE q == [old EXCEPT !.phase = "switching"]
  <2>1. q \in RequestStates
    BY <1>0 DEF RequestStates
  <2>1a. Consistent(q)
    BY <1>0, <1>11 DEF RequestStates, Consistent, BeginSwitch, InPhase
  <2> QED  BY <2>1, <2>1a, <1>11, BecomesType DEF BeginSwitch
<1>12. CASE StreamSuccess(r) \/ StreamFailure(r)
  <2>1. Settled \in RequestStates
    BY IdleType DEF Settled, RequestStates
  <2>1a. Consistent(Settled)
    BY QueueFacts DEF Settled, Consistent, Idle
  <2> QED  BY <2>1, <2>1a, <1>12, BecomesType DEF StreamSuccess, StreamFailure
<1>13. CASE ProviderFails(r)
  BY <1>2, <1>13 DEF ProviderFails, InPhase
<1>14. CASE GiveUp(r) \/ BodyFails(r) \/ BodyRead(r) \/ EndSwitch(r) \/ StreamEnd(r) \/ Cancel(r)
  BY <1>1, <1>14 DEF GiveUp, BodyFails, BodyRead, EndSwitch, StreamEnd, Cancel, Finish
<1> QED  BY <1>3, <1>4, <1>5, <1>6, <1>7, <1>8, <1>9, <1>9a, <1>9b, <1>10, <1>11, <1>12, <1>13,
            <1>14 DEF Forward

(***************************************************************************)
(* What a step does with the circuits and the permits.  The         *)
(* actions of a request are of four kinds.                                 *)
(***************************************************************************)

OnlyAt(p) == \A o \in Providers \ {p} : circuit'[o] = circuit[o]
OnlyBy(r) == \A s \in Requests \ {r} : req'[s] = req[s]
Outcomes(e, permit) ==
  {AfterSuccess(e, permit), AfterRelease(e, permit)}
    \cup {AfterFailure(e, permit, t) : t \in {1, FailureThreshold}}

\* The request settles its permit.
SettlesStep(r) ==
  /\ At(r) \in Providers /\ OnlyAt(At(r)) /\ OnlyBy(r)
  /\ circuit'[At(r)] \in Outcomes(circuit[At(r)], req[r].permit)
  /\ req'[r].permit = "none"
\* The request obtains a permit.
AcquiresStep(r) ==
  /\ At(r) \in Providers /\ OnlyAt(At(r)) /\ OnlyBy(r)
  /\ Admits(circuit[At(r)]) /\ circuit'[At(r)] = AfterAcquire(circuit[At(r)])
  /\ req[r].permit = "none" /\ req'[r].permit = Permit(circuit[At(r)])
  /\ req'[r].first = req[r].first /\ req'[r].next = req[r].next
\* The request keeps the permit it has, if any.
KeepsStep(r) ==
  /\ circuit' = circuit /\ OnlyBy(r)
  /\ req'[r].permit = req[r].permit
  /\ req[r].permit # "none" => req'[r].first = req[r].first /\ req'[r].next = req[r].next
\* The request is dropped with its permit.
LosesStep(r) ==
  /\ circuit' = circuit /\ OnlyBy(r)
  /\ req'[r].permit = "none" /\ req[r].phase \in CancelPhases \ {"streaming"}
\* The steps that are not of a request.
PassesStep ==
  /\ req' = req
  /\ \A p \in Providers :
       \/ circuit'[p] = circuit[p]
       \/ circuit[p].status = "open" /\ circuit'[p] = [circuit[p] EXCEPT !.cooled = TRUE]
ResetsStep ==
  /\ req' = req /\ resets < MaxResets
  /\ \A p \in Providers : circuit'[p] \in {circuit[p], ClosedEntry}

\* A request that consumes its permit settles it.
LEMMA SettlesKind ==
  ASSUME TypeOK, NEW r \in Requests, req[r].phase \notin {"idle", "choosing"},
         RecordSuccess(r) \/ RecordFailure(r) \/ RecordStreamFailure(r) \/ Release(r),
         NextProvider(r) \/ Finish(r) \/ Becomes(r, Settled)
  PROVE  SettlesStep(r) /\ circuit' \in [Providers -> Entries]
<1>1. At(r) \in Providers /\ circuit[At(r)] \in Entries /\ req \in [Requests -> RequestStates]
  BY RequestTypes DEF TypeOK
<1>2. PICK e \in Outcomes(circuit[At(r)], req[r].permit) : Settles(r, e)
  BY DEF Outcomes, RecordSuccess, RecordFailure, RecordStreamFailure, Release
<1>3. e \in Entries
  BY <1>1, EntryOperations DEF Outcomes
<1>4. /\ circuit' \in [Providers -> Entries] /\ circuit'[At(r)] = e /\ OnlyAt(At(r))
  BY <1>1, <1>2, <1>3, SettlesType DEF OnlyAt
<1>5. OnlyBy(r) /\ req'[r].permit = "none"
  <2>1. Idle.permit = "none" /\ Settled.permit = "none"
    BY DEF Idle, Settled
  <2>2. PICK q : Becomes(r, q) /\ q.permit = "none"
    <3>1. CASE NextProvider(r)
      <4> DEFINE q == [req[r] EXCEPT !.phase = "choosing", !.next = @ + 1, !.permit = "none",
                                     !.key = NoKey, !.used = {}]
      <4>1. q.permit = "none"
        BY <1>1 DEF RequestStates
      <4> QED  BY <4>1, <3>1 DEF NextProvider
    <3> QED  BY <2>1, <3>1 DEF Finish
  <2> QED  BY <1>1, <2>2 DEF Becomes, OnlyBy
<1> QED  BY <1>1, <1>2, <1>4, <1>5 DEF SettlesStep

LEMMA StepKinds ==
  ASSUME TypeOK, NEW r \in Requests, Arrive(r) \/ Forward(r) \/ Cancel(r)
  PROVE  /\ SettlesStep(r) \/ AcquiresStep(r) \/ KeepsStep(r) \/ LosesStep(r)
         /\ circuit' \in [Providers -> Entries]
<1> DEFINE old == req[r]
           Goal == /\ SettlesStep(r) \/ AcquiresStep(r) \/ KeepsStep(r) \/ LosesStep(r)
                   /\ circuit' \in [Providers -> Entries]
<1>0. /\ old \in RequestStates /\ Consistent(old) /\ req \in [Requests -> RequestStates]
      /\ circuit \in [Providers -> Entries]
  BY RequestTypes DEF TypeOK
<1>1. ASSUME circuit' = circuit, NEW q, Becomes(r, q), q.permit = old.permit,
             old.permit # "none" => q.first = old.first /\ q.next = old.next
      PROVE  Goal
  BY <1>0, <1>1 DEF KeepsStep, Becomes, OnlyBy
<1>2. Idle.permit = "none"
  BY DEF Idle
<1>3. CASE Arrive(r)
  <2>1. PICK streaming \in BOOLEAN :
          Becomes(r, [Idle EXCEPT !.phase = "choosing", !.first = current,
                                  !.streaming = streaming])
    BY <1>3 DEF Arrive
  <2> DEFINE q == [Idle EXCEPT !.phase = "choosing", !.first = current, !.streaming = streaming]
  <2>2. q.permit = "none"
    BY DEF Idle
  <2>3. old.permit = "none" /\ circuit' = circuit
    BY <1>0, <1>3 DEF Arrive, InPhase, Consistent
  <2> HIDE DEF q
  <2> QED  BY <1>1, <2>1, <2>2, <2>3 DEF q
<1>4. CASE Acquire(r)
  <2>1. /\ At(r) \in Providers /\ circuit[At(r)] \in Entries
        /\ old.permit = "none"
    BY <1>0, <1>4, RequestTypes DEF Acquire, MayTry, Consistent, InPhase
  <2>2. AfterAcquire(circuit[At(r)]) \in Entries
    BY <2>1, EntryOperations
  <2>3. /\ circuit' \in [Providers -> Entries] /\ OnlyAt(At(r))
        /\ circuit'[At(r)] = AfterAcquire(circuit[At(r)])
    BY <1>4, <2>1, <2>2, SettlesType DEF Acquire, OnlyAt
  <2>4. req' = [req EXCEPT ![r] = [req[r] EXCEPT !.phase = "admitted",
                                                 !.permit = Permit(circuit[At(r)])]]
    BY <1>4 DEF Acquire, Becomes
  <2>5. /\ OnlyBy(r) /\ req'[r].permit = Permit(circuit[At(r)])
        /\ req'[r].first = req[r].first /\ req'[r].next = req[r].next
    BY <1>0, <2>4 DEF OnlyBy, RequestStates
  <2> QED  BY <1>4, <2>1, <2>3, <2>5 DEF AcquiresStep, Acquire
<1>5. CASE SkipCircuit(r)
  <2> DEFINE q == [old EXCEPT !.phase = "choosing", !.next = @ + 1, !.permit = "none",
                              !.key = NoKey, !.used = {}]
  <2>1. q.permit = "none" /\ old.permit = "none"
    BY <1>0, <1>5 DEF SkipCircuit, InPhase, Consistent, RequestStates
  <2>2. circuit' = circuit /\ Becomes(r, q)
    BY <1>5 DEF SkipCircuit, NextProvider
  <2> HIDE DEF q
  <2> QED  BY <1>1, <2>1, <2>2
<1>6. CASE SkipProvider(r) \/ ProviderFails(r) \/ KeysExhausted(r)
  BY <1>6, SettlesKind DEF SkipProvider, ProviderFails, KeysExhausted, InPhase
<1>7. CASE SelectKey(r)
  <2>1. PICK k \in Keys, spent \in {0, 1} :
          /\ old.rules + spent <= RectifierRules
          /\ Becomes(r, [old EXCEPT !.phase = "sending", !.key = k, !.used = {k},
                                    !.attempts = @ + 1, !.rules = @ + spent])
    BY <1>7 DEF SelectKey, Ready
  <2> DEFINE q == [old EXCEPT !.phase = "sending", !.key = k, !.used = {k},
                              !.attempts = @ + 1, !.rules = @ + spent]
  <2>2. q.permit = old.permit /\ q.first = old.first /\ q.next = old.next
    BY <1>0 DEF RequestStates
  <2>3. circuit' = circuit
    BY <1>7 DEF SelectKey
  <2> HIDE DEF q
  <2> QED  BY <1>1, <2>1, <2>2, <2>3 DEF q
<1>8. CASE Rectify(r)
  <2> DEFINE q == [old EXCEPT !.rules = @ + 1, !.attempts = @ + 1]
  <2>1. q.permit = old.permit /\ q.first = old.first /\ q.next = old.next
    BY <1>0 DEF RequestStates
  <2>2. circuit' = circuit /\ Becomes(r, q)
    BY <1>8 DEF Rectify
  <2> HIDE DEF q
  <2> QED  BY <1>1, <2>1, <2>2
<1>9. CASE KeyRefused(r)
  <2> DEFINE q == [old EXCEPT !.phase = "refused"]
  <2>1. q.permit = old.permit /\ q.first = old.first /\ q.next = old.next
    BY <1>0 DEF RequestStates
  <2>2. circuit' = circuit /\ Becomes(r, q)
    BY <1>9 DEF KeyRefused
  <2> HIDE DEF q
  <2> QED  BY <1>1, <2>1, <2>2
<1>9a. CASE NextKey(r)
  <2>1. PICK k \in Keys :
          Becomes(r, [old EXCEPT !.phase = "sending", !.key = k, !.used = @ \cup {k},
                                 !.attempts = @ + 1])
    BY <1>9a DEF NextKey, Ready
  <2> DEFINE q == [old EXCEPT !.phase = "sending", !.key = k, !.used = @ \cup {k},
                              !.attempts = @ + 1]
  <2>2. q.permit = old.permit /\ q.first = old.first /\ q.next = old.next
    BY <1>0 DEF RequestStates
  <2>3. circuit' = circuit
    BY <1>9a DEF NextKey
  <2> HIDE DEF q
  <2> QED  BY <1>1, <2>1, <2>2, <2>3 DEF q
<1>10. CASE Respond(r)
  <2>1. PICK ok \in BOOLEAN :
          Becomes(r, [Idle EXCEPT !.phase = IF old.streaming THEN "streaming" ELSE "reading",
                                  !.first = old.first, !.next = old.next,
                                  !.permit = old.permit, !.ok = ok])
    BY <1>10 DEF Respond
  <2> DEFINE q == [Idle EXCEPT !.phase = IF old.streaming THEN "streaming" ELSE "reading",
                               !.first = old.first, !.next = old.next,
                               !.permit = old.permit, !.ok = ok]
  <2>2. q.permit = old.permit /\ q.first = old.first /\ q.next = old.next
    BY DEF Idle
  <2>3. circuit' = circuit
    BY <1>10 DEF Respond
  <2> HIDE DEF q
  <2> QED  BY <1>1, <2>1, <2>2, <2>3 DEF q
<1>11. CASE BeginSwitch(r)
  <2> DEFINE q == [old EXCEPT !.phase = "switching"]
  <2>1. q.permit = old.permit /\ q.first = old.first /\ q.next = old.next
    BY <1>0 DEF RequestStates
  <2>2. circuit' = circuit /\ Becomes(r, q)
    BY <1>11 DEF BeginSwitch
  <2> HIDE DEF q
  <2> QED  BY <1>1, <2>1, <2>2
<1>12. CASE BodyFails(r) \/ BodyRead(r) \/ EndSwitch(r)
  BY <1>12, SettlesKind DEF BodyFails, BodyRead, EndSwitch, InPhase
<1>13. CASE StreamSuccess(r) \/ StreamFailure(r)
  BY <1>13, SettlesKind DEF StreamSuccess, StreamFailure, Unsettled, InPhase
<1>14. CASE StreamEnd(r)
  <2>1. CASE Unsettled(r)
    BY <1>14, <2>1, SettlesKind DEF StreamEnd, InPhase
  <2>2. CASE ~Unsettled(r)
    BY <1>1, <1>2, <1>14, <2>2 DEF StreamEnd, Unsettled, Finish
  <2> QED  BY <2>1, <2>2
<1>15. CASE GiveUp(r)
  <2>1. old.permit = "none" /\ circuit' = circuit /\ Becomes(r, Idle)
    BY <1>0, <1>15 DEF GiveUp, InPhase, Consistent, Finish
  <2> QED  BY <1>1, <1>2, <2>1
<1>16. CASE Cancel(r)
  <2>1. CASE InPhase(r, "streaming")
    BY <1>16, <2>1, SettlesKind DEF Cancel, InPhase
  <2>2. CASE ~InPhase(r, "streaming")
    <3>1. circuit' = circuit /\ Becomes(r, Idle) /\ old.phase \in CancelPhases \ {"streaming"}
      BY <1>16, <2>2 DEF Cancel, InPhase, Finish
    <3>2. OnlyBy(r) /\ req'[r].permit = "none"
      BY <1>0, <1>2, <3>1 DEF Becomes, OnlyBy
    <3> QED  BY <1>0, <3>1, <3>2 DEF LosesStep
  <2> QED  BY <2>1, <2>2
<1> QED  BY <1>3, <1>4, <1>5, <1>6, <1>7, <1>8, <1>9, <1>9a, <1>10, <1>11, <1>12, <1>13,
            <1>14, <1>15, <1>16 DEF Forward

OtherStep == Elapse \/ Reset \/ \E p \in Providers : Recover(p)

LEMMA OtherKinds ==
  ASSUME TypeOK, OtherStep
  PROVE  (PassesStep \/ ResetsStep) /\ circuit' \in [Providers -> Entries]
<1>0. circuit \in [Providers -> Entries]
  BY DEF TypeOK
<1>1. ASSUME NEW p \in Providers, CoolDown(p)
      PROVE  PassesStep /\ circuit' \in [Providers -> Entries]
  <2>1. circuit' = [circuit EXCEPT ![p] = [circuit[p] EXCEPT !.cooled = TRUE]]
        /\ req' = req /\ circuit[p].status = "open"
    BY <1>0, <1>1 DEF CoolDown
  <2>2. [circuit[p] EXCEPT !.cooled = TRUE] \in Entries
    BY <1>0 DEF Entries
  <2> QED  BY <1>0, <2>1, <2>2 DEF PassesStep
<1>2. CASE Reset
  <2>1. PICK S \in {{p} : p \in Providers} \cup {Providers} :
          circuit' = [p \in Providers |-> IF p \in S THEN ClosedEntry ELSE circuit[p]]
    BY <1>2 DEF Reset
  <2>2. \A p \in Providers : circuit'[p] \in {circuit[p], ClosedEntry}
    BY <2>1
  <2>3. circuit' \in [Providers -> Entries]
    BY <1>0, <2>1, ClosedEntryType
  <2> QED  BY <1>2, <2>2, <2>3 DEF Reset, ResetsStep
<1>3. ASSUME UNCHANGED <<circuit, req>>
      PROVE  PassesStep /\ circuit' \in [Providers -> Entries]
  BY <1>0, <1>3 DEF PassesStep
<1>4. ASSUME NEW p \in Providers, ApplySwitch(p) \/ Recover(p)
      PROVE  UNCHANGED <<circuit, req>>
  BY <1>4 DEF ApplySwitch, Recover, pools
<1>5. ASSUME NEW p \in Providers, NEW k \in Keys, KeyReturns(p, k)
      PROVE  UNCHANGED <<circuit, req>>
  BY <1>5 DEF KeyReturns
<1> QED  BY <1>1, <1>2, <1>3, <1>4, <1>5 DEF OtherStep, Elapse

\* What every step leaves well typed beside the circuits and the requests.
PoolsOK ==
  /\ cooling \in [Providers -> SUBSET Keys]
  /\ current \in Providers
  /\ switches \subseteq Providers /\ up \subseteq Providers
  /\ cancels \in Nat /\ resets \in Nat

LEMMA PoolsStep ==
  ASSUME TypeOK, Next
  PROVE  PoolsOK'
<1>0. PoolsOK
  BY DEF TypeOK, PoolsOK
<1>1. CASE UNCHANGED <<cooling, current, switches, up, cancels, resets>>
  BY <1>0, <1>1 DEF PoolsOK
<1>2. ASSUME NEW r \in Requests, KeyRefused(r) PROVE PoolsOK'
  <2>1. req[r].key \in Keys
    BY <1>2, RequestTypes DEF KeyRefused, InPhase, Consistent
  <2>2. cooling' \in [Providers -> SUBSET Keys]
    BY <1>0, <1>2, <2>1 DEF PoolsOK, KeyRefused
  <2> QED  BY <1>0, <1>2, <2>2 DEF PoolsOK, KeyRefused, environment
<1>3. ASSUME NEW r \in Requests, EndSwitch(r) PROVE PoolsOK'
  <2>1. At(r) \in Providers
    BY <1>3, RequestTypes DEF EndSwitch, InPhase
  <2> QED  BY <1>0, <1>3, <2>1 DEF PoolsOK, EndSwitch, environment
<1>4. ASSUME NEW r \in Requests, StreamSuccess(r) PROVE PoolsOK'
  <2>1. At(r) \in Providers
    BY <1>4, RequestTypes DEF StreamSuccess, Unsettled, InPhase
  <2>2. switches' \subseteq Providers
    BY <1>0, <1>4, <2>1, Zenon DEF PoolsOK, StreamSuccess
  <2> QED  BY <1>0, <1>4, <2>2 DEF PoolsOK, StreamSuccess, environment
<1>5. ASSUME NEW r \in Requests, Cancel(r) PROVE PoolsOK'
  BY <1>0, <1>5 DEF PoolsOK, Cancel, pools
<1>6. ASSUME NEW r \in Requests,
             \/ Arrive(r) \/ Acquire(r) \/ SkipCircuit(r) \/ SkipProvider(r) \/ SelectKey(r)
             \/ GiveUp(r) \/ ProviderFails(r) \/ Rectify(r) \/ NextKey(r) \/ KeysExhausted(r)
             \/ Respond(r) \/ BodyFails(r) \/ BodyRead(r)
             \/ BeginSwitch(r) \/ StreamFailure(r) \/ StreamEnd(r)
      PROVE  PoolsOK'
  <2>1. UNCHANGED <<pools, environment>>
    BY <1>6 DEF Arrive, Acquire, SkipCircuit, SkipProvider, SelectKey, GiveUp, ProviderFails,
                Rectify, NextKey, KeysExhausted, Respond, BodyFails, BodyRead,
                BeginSwitch, StreamFailure, StreamEnd
  <2> QED  BY <1>1, <2>1 DEF pools, environment
<1>7. CASE Reset
  BY <1>0, <1>7 DEF PoolsOK, Reset, pools
<1>8. ASSUME NEW p \in Providers, CoolDown(p) \/ ApplySwitch(p) \/ Recover(p) PROVE PoolsOK'
  BY <1>0, <1>8 DEF PoolsOK, CoolDown, ApplySwitch, Recover, pools, environment
<1>9. ASSUME NEW p \in Providers, NEW k \in Keys, KeyReturns(p, k) PROVE PoolsOK'
  <2>1. cooling' \in [Providers -> SUBSET Keys]
    BY <1>0, <1>9 DEF PoolsOK, KeyReturns
  <2> QED  BY <1>0, <1>9, <2>1 DEF PoolsOK, KeyReturns, environment
<1> QED  BY <1>2, <1>3, <1>4, <1>5, <1>6, <1>7, <1>8, <1>9 DEF Next, Forward, Elapse

\* Requests settle, obtain, keep or lose their permits; the other steps leave them alone.
LEMMA NextKinds ==
  ASSUME TypeOK, Next
  PROVE  \/ \E r \in Requests : SettlesStep(r) \/ AcquiresStep(r) \/ KeepsStep(r) \/ LosesStep(r)
         \/ PassesStep \/ ResetsStep
BY StepKinds, OtherKinds DEF Next, OtherStep

LEMMA TypeStep == TypeOK /\ [Next]_vars => TypeOK'
<1> SUFFICES ASSUME TypeOK, [Next]_vars PROVE TypeOK'
  OBVIOUS
<1>1. CASE UNCHANGED vars
  BY <1>1 DEF vars, TypeOK, Consistent
<1>2. ASSUME NEW r \in Requests, Arrive(r) \/ Forward(r) \/ Cancel(r)
      PROVE  RequestsOK' /\ circuit' \in [Providers -> Entries]
  BY <1>2, RequestStepType, StepKinds
<1>3. ASSUME OtherStep
      PROVE  RequestsOK' /\ circuit' \in [Providers -> Entries]
  <2>1. req' = req
    BY <1>3, OtherKinds DEF PassesStep, ResetsStep
  <2> QED  BY <1>3, <2>1, OtherKinds DEF RequestsOK, TypeOK, Consistent
<1>4. CASE Next
  <2>1. RequestsOK' /\ circuit' \in [Providers -> Entries]
    BY <1>2, <1>3, <1>4 DEF Next, OtherStep
  <2>2. PoolsOK'
    BY <1>4, PoolsStep
  <2> QED  BY <2>1, <2>2 DEF RequestsOK, PoolsOK, TypeOK
<1> QED  BY <1>1, <1>4

\* The types of the variables, and what a request holds in each phase: in
\* particular that it never sends more often than max_retries + 1, for any queue,
\* any keys and any number of requests.
THEOREM TypeCorrect == Spec => []TypeOK
BY InitType, TypeStep, PTL DEF Spec

(***************************************************************************)
(* The outcomes of a permit.                                               *)
(***************************************************************************)

\* The holder of a probe ends the probing; nobody else touches it.
LEMMA ProbingAfter ==
  ASSUME NEW e \in Entries, NEW permit, NEW f \in Outcomes(e, permit)
  PROVE  /\ permit = "probe" => ~f.probing
         /\ permit # "probe" /\ f.probing => e.probing
         /\ permit # "probe" /\ e.status # "closed" => f = e
<1>1. ~ClosedEntry.probing /\ ~OpenEntry.probing
  BY DEF ClosedEntry, OpenEntry
<1>2. CASE f = AfterSuccess(e, permit)
  BY <1>1, <1>2 DEF AfterSuccess, Entries
<1>3. CASE f = AfterRelease(e, permit)
  BY <1>1, <1>3 DEF AfterRelease, Entries
<1>4. ASSUME NEW t, f = AfterFailure(e, permit, t)
      PROVE  /\ permit = "probe" => ~f.probing
             /\ permit # "probe" /\ f.probing => e.probing
             /\ permit # "probe" /\ e.status # "closed" => f = e
  <2>1. Counted(e).probing = e.probing
    BY DEF Counted, Entries
  <2>2. [OpenEntry EXCEPT !.probes = e.probes].probing = OpenEntry.probing
    BY DEF OpenEntry, ClosedEntry
  <2> QED  BY <1>1, <1>4, <2>1, <2>2 DEF AfterFailure
<1> QED  BY <1>2, <1>3, <1>4 DEF Outcomes

\* A step of one request leaves the probes of the others alone.
LEMMA OthersHold ==
  ASSUME NEW r \in Requests, OnlyBy(r)
  PROVE  \A s \in Requests \ {r}, p \in Providers : HoldsProbe(s, p)' <=> HoldsProbe(s, p)
BY DEF OnlyBy, HoldsProbe, At

(***************************************************************************)
(* A probe has an owner.                                                   *)
(***************************************************************************)

LEMMA ProbeOwnedStep ==
  ASSUME TypeOK, ProbeHasOwner, CancelPhases \subseteq {"streaming"}, [Next]_vars
  PROVE  ProbeHasOwner'
<1> SUFFICES ASSUME NEW p \in Providers, circuit'[p].probing
             PROVE  \E r \in Requests : HoldsProbe(r, p)'
  BY DEF ProbeHasOwner
<1>0. circuit[p] \in Entries
  BY DEF TypeOK
<1>1. ASSUME NEW r \in Requests, SettlesStep(r) PROVE \E s \in Requests : HoldsProbe(s, p)'
  <2>1. circuit[p].probing /\ ~HoldsProbe(r, p)
    <3>1. CASE p # At(r)
      BY <1>1, <3>1 DEF SettlesStep, OnlyAt, HoldsProbe
    <3>2. CASE p = At(r)
      BY <1>0, <1>1, <3>2, ProbingAfter DEF SettlesStep, HoldsProbe
    <3> QED  BY <3>1, <3>2
  <2>2. PICK s \in Requests : HoldsProbe(s, p)
    BY <2>1 DEF ProbeHasOwner
  <2> QED  BY <1>1, <2>1, <2>2, OthersHold DEF SettlesStep
<1>2. ASSUME NEW r \in Requests, AcquiresStep(r) PROVE \E s \in Requests : HoldsProbe(s, p)'
  <2>1. CASE circuit[p].probing /\ circuit'[p] = circuit[p]
    <3>1. PICK s \in Requests : HoldsProbe(s, p)
      BY <2>1 DEF ProbeHasOwner
    <3>2. s # r
      BY <1>2, <3>1 DEF AcquiresStep, HoldsProbe
    <3> QED  BY <1>2, <3>1, <3>2, OthersHold DEF AcquiresStep
  <2>2. CASE p = At(r) /\ circuit[p].status # "closed"
    BY <1>2, <2>2 DEF AcquiresStep, Permit, HoldsProbe, At
  <2>3. p # At(r) \/ circuit[p].status = "closed" => circuit'[p] = circuit[p]
    BY <1>2 DEF AcquiresStep, OnlyAt, AfterAcquire
  <2> QED  BY <2>1, <2>2, <2>3
<1>3. ASSUME NEW r \in Requests, KeepsStep(r) PROVE \E s \in Requests : HoldsProbe(s, p)'
  <2>1. PICK s \in Requests : HoldsProbe(s, p)
    BY <1>3 DEF KeepsStep, ProbeHasOwner
  <2>2. CASE s = r
    BY <1>3, <2>1, <2>2 DEF KeepsStep, HoldsProbe, At
  <2> QED  BY <1>3, <2>1, <2>2, OthersHold DEF KeepsStep
<1>4. ASSUME NEW r \in Requests, LosesStep(r) PROVE FALSE
  BY <1>4 DEF LosesStep
<1>5. CASE PassesStep \/ ResetsStep
  <2>1. circuit[p].probing
    <3>1. circuit'[p] \in {circuit[p], ClosedEntry, [circuit[p] EXCEPT !.cooled = TRUE]}
      BY <1>5 DEF PassesStep, ResetsStep
    <3>2. [circuit[p] EXCEPT !.cooled = TRUE].probing = circuit[p].probing
      BY <1>0 DEF Entries
    <3>3. ~ClosedEntry.probing
      BY DEF ClosedEntry
    <3> QED  BY <3>1, <3>2, <3>3
  <2>2. PICK s \in Requests : HoldsProbe(s, p)
    BY <2>1 DEF ProbeHasOwner
  <2> QED  BY <1>5, <2>2 DEF PassesStep, ResetsStep, HoldsProbe, At
<1>6. CASE UNCHANGED vars
  <2>1. PICK s \in Requests : HoldsProbe(s, p)
    BY <1>6 DEF vars, ProbeHasOwner
  <2> QED  BY <1>6, <2>1 DEF vars, HoldsProbe, At
<1> QED  BY <1>1, <1>2, <1>3, <1>4, <1>5, <1>6, NextKinds

\* As long as clients go away only once their stream has begun, every circuit that
\* turns requests away because it is being probed is being probed, however many
\* requests, providers and resets there are.
THEOREM ProbeOwned ==
  ASSUME CancelPhases \subseteq {"streaming"}
  PROVE  Spec => []ProbeHasOwner
<1>1. Init => ProbeHasOwner
  BY DEF Init, ProbeHasOwner, ClosedEntry
<1>2. TypeOK /\ ProbeHasOwner /\ [Next]_vars => ProbeHasOwner'
  BY ProbeOwnedStep
<1> QED  BY <1>1, <1>2, TypeCorrect, PTL DEF Spec

(***************************************************************************)
(* One probe at a time, where no circuit is reset.                         *)
(***************************************************************************)

\* A probe marks its circuit, and only half-open circuits are marked.  Both parts
\* are needed: the mark keeps a second probe out, and a circuit whose cool-down
\* ends must not have one in flight.
ProbesMarked ==
  \A p \in Providers :
    /\ circuit[p].probing => circuit[p].status = "halfOpen"
    /\ \A r \in Requests : HoldsProbe(r, p) => circuit[p].probing

\* Settling a permit marks no circuit that is not half open.
LEMMA PlainOutcome ==
  ASSUME NEW e \in Entries, NEW permit, NEW f \in Outcomes(e, permit),
         e.probing => e.status = "halfOpen"
  PROVE  f.probing => f.status = "halfOpen"
<1>1. CASE permit = "probe"
  BY <1>1, ProbingAfter
<1>2. CASE permit # "probe" /\ e.status # "closed"
  BY <1>2, ProbingAfter
<1>3. CASE permit # "probe" /\ e.status = "closed"
  BY <1>3, ProbingAfter
<1> QED  BY <1>1, <1>2, <1>3

LEMMA OneProbeStep ==
  ASSUME TypeOK, SingleProbe, ProbesMarked, MaxResets = 0, [Next]_vars
  PROVE  SingleProbe' /\ ProbesMarked'
<1> SUFFICES ASSUME NEW p \in Providers
             PROVE  /\ \A r, s \in Requests : HoldsProbe(r, p)' /\ HoldsProbe(s, p)' => r = s
                    /\ circuit'[p].probing => circuit'[p].status = "halfOpen"
                    /\ \A r \in Requests : HoldsProbe(r, p)' => circuit'[p].probing
  BY DEF SingleProbe, ProbesMarked
<1> DEFINE Goal == /\ \A r, s \in Requests : HoldsProbe(r, p)' /\ HoldsProbe(s, p)' => r = s
                   /\ circuit'[p].probing => circuit'[p].status = "halfOpen"
                   /\ \A r \in Requests : HoldsProbe(r, p)' => circuit'[p].probing
<1>0. /\ circuit[p] \in Entries
      /\ \A r, s \in Requests : HoldsProbe(r, p) /\ HoldsProbe(s, p) => r = s
      /\ circuit[p].probing => circuit[p].status = "halfOpen"
      /\ \A r \in Requests : HoldsProbe(r, p) => circuit[p].probing
  BY DEF TypeOK, SingleProbe, ProbesMarked
<1>1. ASSUME circuit'[p] = circuit[p], \A r \in Requests : HoldsProbe(r, p)' => HoldsProbe(r, p)
      PROVE  Goal
  BY <1>0, <1>1
<1>2. ASSUME NEW r \in Requests, SettlesStep(r) PROVE Goal
  <2>1. ~HoldsProbe(r, p)' /\ \A s \in Requests \ {r} : HoldsProbe(s, p)' <=> HoldsProbe(s, p)
    BY <1>2, OthersHold DEF SettlesStep, HoldsProbe
  <2>2. CASE p # At(r)
    <3>1. circuit'[p] = circuit[p]
      BY <1>2, <2>2 DEF SettlesStep, OnlyAt
    <3> QED  BY <1>1, <2>1, <3>1
  <2>3. CASE p = At(r)
    <3>1. circuit'[p] \in Outcomes(circuit[p], req[r].permit)
      BY <1>2, <2>3 DEF SettlesStep
    <3>2. circuit'[p].probing => circuit'[p].status = "halfOpen"
      BY <1>0, <3>1, PlainOutcome
    <3>3. CASE req[r].permit = "probe"
      <4>1. HoldsProbe(r, p)
        BY <2>3, <3>3 DEF HoldsProbe
      <4>2. \A s \in Requests : ~HoldsProbe(s, p)'
        BY <1>0, <2>1, <4>1
      <4> QED  BY <3>2, <4>2
    <3>4. CASE req[r].permit # "probe" /\ circuit[p].status # "closed"
      <4>1. circuit'[p] = circuit[p]
        BY <1>0, <3>1, <3>4, ProbingAfter
      <4> QED  BY <1>1, <2>1, <4>1
    <3>5. CASE circuit[p].status = "closed"
      <4>1. \A s \in Requests : ~HoldsProbe(s, p)'
        BY <1>0, <2>1, <3>5
      <4> QED  BY <3>2, <4>1
    <3> QED  BY <3>3, <3>4, <3>5
  <2> QED  BY <2>2, <2>3
<1>3. ASSUME NEW r \in Requests, AcquiresStep(r) PROVE Goal
  <2>1. ~HoldsProbe(r, p) /\ \A s \in Requests \ {r} : HoldsProbe(s, p)' <=> HoldsProbe(s, p)
    BY <1>3, OthersHold DEF AcquiresStep, HoldsProbe
  <2>2. HoldsProbe(r, p)' => p = At(r) /\ circuit[p].status # "closed"
    BY <1>3 DEF AcquiresStep, HoldsProbe, At, Permit
  <2>3. CASE p # At(r) \/ circuit[p].status = "closed"
    <3>1. circuit'[p] = circuit[p]
      BY <1>3, <2>3 DEF AcquiresStep, OnlyAt, AfterAcquire
    <3> QED  BY <1>1, <2>1, <2>2, <2>3, <3>1
  <2>4. CASE p = At(r) /\ circuit[p].status # "closed"
    <3>1. ~circuit[p].probing
      BY <1>0, <1>3, <2>4 DEF AcquiresStep, Admits
    <3>2. \A s \in Requests : HoldsProbe(s, p)' => s = r
      BY <1>0, <2>1, <3>1
    <3>3. circuit'[p].probing /\ circuit'[p].status = "halfOpen"
      BY <1>0, <1>3, <2>4 DEF AcquiresStep, AfterAcquire, ClosedEntry, Entries
    <3> QED  BY <3>2, <3>3
  <2> QED  BY <2>3, <2>4
<1>4. ASSUME NEW r \in Requests, KeepsStep(r) PROVE Goal
  <2>1. HoldsProbe(r, p)' => HoldsProbe(r, p)
    BY <1>4 DEF KeepsStep, HoldsProbe, At
  <2> QED  BY <1>1, <1>4, <2>1, OthersHold DEF KeepsStep
<1>5. ASSUME NEW r \in Requests, LosesStep(r) PROVE Goal
  <2>1. ~HoldsProbe(r, p)'
    BY <1>5 DEF LosesStep, HoldsProbe
  <2> QED  BY <1>1, <1>5, <2>1, OthersHold DEF LosesStep
<1>6. CASE PassesStep
  <2>1. \A r \in Requests : HoldsProbe(r, p)' <=> HoldsProbe(r, p)
    BY <1>6 DEF PassesStep, HoldsProbe, At
  <2>2. circuit'[p].probing = circuit[p].probing /\ circuit'[p].status = circuit[p].status
    BY <1>0, <1>6 DEF PassesStep, Entries
  <2> QED  BY <1>0, <2>1, <2>2
<1>7. ~ResetsStep
  BY DEF ResetsStep, TypeOK
<1>8. CASE UNCHANGED vars
  <2>1. \A r \in Requests : HoldsProbe(r, p)' <=> HoldsProbe(r, p)
    BY <1>8 DEF vars, HoldsProbe, At
  <2> QED  BY <1>1, <1>8, <2>1 DEF vars
<1> QED  BY <1>2, <1>3, <1>4, <1>5, <1>6, <1>7, <1>8, NextKinds

LEMMA ProbesInit == Init => SingleProbe /\ ProbesMarked
<1>1. Idle.permit = "none" /\ ~ClosedEntry.probing
  BY DEF Idle, ClosedEntry
<1> QED  BY <1>1 DEF Init, SingleProbe, ProbesMarked, HoldsProbe

\* Without resets at most one request probes a provider, for any number of
\* requests: a second probe is the work of resets alone.
THEOREM OneProbe ==
  ASSUME MaxResets = 0
  PROVE  Spec => []SingleProbe
<1>1. TypeOK /\ SingleProbe /\ ProbesMarked /\ [Next]_vars => SingleProbe' /\ ProbesMarked'
  BY OneProbeStep
<1> QED  BY <1>1, ProbesInit, TypeCorrect, PTL DEF Spec

\* How a step that keeps the invariants may change the state of a circuit.
LEMMA ProbesDecideStep ==
  ASSUME TypeOK, ProbesMarked, MaxResets = 0, [Next]_vars, NEW p \in Providers
  PROVE  LET old == circuit[p].status new == circuit'[p].status IN
         \/ old = new
         \/ old = "closed" /\ new = "open"
         \/ old = "open" /\ new = "halfOpen"
         \/ old = "halfOpen" /\ \E r \in Requests : HoldsProbe(r, p) /\ req'[r].permit # "probe"
<1> DEFINE old == circuit[p].status
           new == circuit'[p].status
           Goal == \/ old = new
                   \/ old = "closed" /\ new = "open"
                   \/ old = "open" /\ new = "halfOpen"
                   \/ old = "halfOpen"
                      /\ \E r \in Requests : HoldsProbe(r, p) /\ req'[r].permit # "probe"
<1>0. circuit[p] \in Entries
  BY DEF TypeOK
<1>1. ASSUME NEW r \in Requests, SettlesStep(r) PROVE Goal
  <2>1. CASE p # At(r)
    BY <1>1, <2>1 DEF SettlesStep, OnlyAt
  <2>2. CASE p = At(r) /\ req[r].permit = "probe"
    <3>1. HoldsProbe(r, p) /\ req'[r].permit # "probe"
      BY <1>1, <2>2 DEF SettlesStep, HoldsProbe
    <3>2. old = "halfOpen"
      BY <3>1 DEF ProbesMarked
    <3> QED  BY <3>1, <3>2
  <2>3. CASE p = At(r) /\ req[r].permit # "probe"
    <3>1. circuit'[p] \in Outcomes(circuit[p], req[r].permit)
      BY <1>1, <2>3 DEF SettlesStep
    <3>2. CASE old # "closed"
      BY <1>0, <2>3, <3>1, <3>2, ProbingAfter
    <3>3. CASE old = "closed"
      <4>1. ASSUME NEW f, f \in Outcomes(circuit[p], req[r].permit)
            PROVE  f.status \in {"closed", "open"}
        <5>1. Counted(circuit[p]).status = old
          BY <1>0 DEF Counted, Entries
        <5>2. [OpenEntry EXCEPT !.probes = circuit[p].probes].status = "open"
              /\ OpenEntry.status = "open"
          BY DEF OpenEntry, ClosedEntry
        <5>3. AfterSuccess(circuit[p], req[r].permit).status = "closed"
          BY <1>0, <2>3, <3>3 DEF AfterSuccess, Entries
        <5>4. AfterRelease(circuit[p], req[r].permit).status = "closed"
          BY <2>3, <3>3 DEF AfterRelease
        <5>5. \A t : AfterFailure(circuit[p], req[r].permit, t).status \in {"closed", "open"}
          BY <2>3, <3>3, <5>1, <5>2 DEF AfterFailure
        <5> QED  BY <4>1, <5>3, <5>4, <5>5 DEF Outcomes
      <4> QED  BY <3>1, <3>3, <4>1
    <3> QED  BY <3>2, <3>3
  <2> QED  BY <2>1, <2>2, <2>3
<1>2. ASSUME NEW r \in Requests, AcquiresStep(r) PROVE Goal
  <2>1. circuit'[p] \in {circuit[p], AfterAcquire(circuit[p])}
    BY <1>2 DEF AcquiresStep, OnlyAt
  <2>2. /\ old \in {"closed", "open", "halfOpen"}
        /\ old = "closed" => AfterAcquire(circuit[p]).status = "closed"
        /\ old = "open" => AfterAcquire(circuit[p]).status = "halfOpen"
        /\ old = "halfOpen" => AfterAcquire(circuit[p]).status = "halfOpen"
    BY <1>0 DEF AfterAcquire, ClosedEntry, Entries
  <2> QED  BY <2>1, <2>2
<1>3. ASSUME NEW r \in Requests, KeepsStep(r) \/ LosesStep(r) PROVE Goal
  BY <1>3 DEF KeepsStep, LosesStep
<1>4. CASE PassesStep
  BY <1>0, <1>4 DEF PassesStep, Entries
<1>5. ~ResetsStep
  BY DEF ResetsStep, TypeOK
<1>6. CASE UNCHANGED vars
  BY <1>6 DEF vars
<1> QED  BY <1>1, <1>2, <1>3, <1>4, <1>5, <1>6, NextKinds

\* Without resets a circuit leaves the half-open state only by the outcome of its
\* probe, whatever late answers arrive from requests admitted before it opened.
THEOREM OnlyProbesDecide ==
  ASSUME MaxResets = 0
  PROVE  Spec => ProbesDecide
<1>1. TypeOK /\ SingleProbe /\ ProbesMarked /\ [Next]_vars => SingleProbe' /\ ProbesMarked'
  BY OneProbeStep
<1>2. TypeOK /\ ProbesMarked /\ [Next]_vars =>
        [\A p \in Providers : LET old == circuit[p].status new == circuit'[p].status IN
           \/ old = new
           \/ old = "closed" /\ new = "open"
           \/ old = "open" /\ new = "halfOpen"
           \/ old = "halfOpen"
              /\ \E r \in Requests : HoldsProbe(r, p) /\ req'[r].permit # "probe"]_vars
  BY ProbesDecideStep
<1> QED  BY <1>1, <1>2, ProbesInit, TypeCorrect, PTL DEF Spec, ProbesDecide

(***************************************************************************)
(* A closed circuit is below the threshold.                                *)
(***************************************************************************)

BelowThreshold(e) ==
  e.status = "closed" => e.consecutive < FailureThreshold /\ e.failed <= e.total

LEMMA ClosedEntryBelow == BelowThreshold(ClosedEntry)
BY PolicyAssumption DEF BelowThreshold, ClosedEntry

LEMMA IncrementMonotone ==
  \A m, n \in 0..CountMax : m <= n => Increment(m) <= Increment(n) /\ n <= Increment(n)
BY PolicyAssumption DEF Increment

\* Failures are counted before the circuit is judged, and both counters saturate
\* at the same number.
LEMMA BelowAfterFailure ==
  ASSUME NEW e \in Entries, BelowThreshold(e), NEW permit, NEW t \in {1, FailureThreshold}
  PROVE  BelowThreshold(AfterFailure(e, permit, t))
<1>1. OpenEntry.status = "open" /\ [OpenEntry EXCEPT !.probes = e.probes].status = "open"
  BY DEF OpenEntry, ClosedEntry
<1>2. ASSUME e.status = "closed", ~Exceeds(Counted(e), t) PROVE BelowThreshold(Counted(e))
  <2>1. /\ Counted(e).consecutive = Increment(e.consecutive)
        /\ Counted(e).failed = Increment(e.failed) /\ Counted(e).total = Increment(e.total)
    BY DEF Counted, Entries
  <2>2. ~(Increment(e.consecutive) >= t)
    BY <1>2, <2>1 DEF Exceeds
  <2>3. Increment(e.consecutive) < FailureThreshold
    <3>1. Increment(e.consecutive) \in Nat /\ t \in Nat /\ t <= FailureThreshold
          /\ FailureThreshold \in Nat
      BY IncrementType, PolicyAssumption DEF Entries
    <3> QED  BY <2>2, <3>1
  <2>4. Increment(e.failed) <= Increment(e.total)
    BY <1>2, IncrementMonotone DEF BelowThreshold, Entries
  <2> QED  BY <2>1, <2>3, <2>4 DEF BelowThreshold
<1>3. CASE permit = "probe"
  BY <1>1, <1>3 DEF AfterFailure, BelowThreshold
<1>4. CASE permit # "probe" /\ e.status # "closed"
  BY <1>4 DEF AfterFailure
<1>5. CASE permit # "probe" /\ e.status = "closed" /\ Exceeds(Counted(e), t)
  BY <1>1, <1>5 DEF AfterFailure, BelowThreshold
<1>6. CASE permit # "probe" /\ e.status = "closed" /\ ~Exceeds(Counted(e), t)
  BY <1>2, <1>6 DEF AfterFailure
<1> QED  BY <1>3, <1>4, <1>5, <1>6

LEMMA BelowAfterOutcome ==
  ASSUME NEW e \in Entries, BelowThreshold(e), NEW permit, NEW f \in Outcomes(e, permit)
  PROVE  BelowThreshold(f)
<1>1. BelowThreshold(AfterSuccess(e, permit))
  <2>1. ASSUME NEW n PROVE BelowThreshold([e EXCEPT !.probing = FALSE, !.probes = n])
    BY DEF BelowThreshold, Entries
  <2>2. BelowThreshold([e EXCEPT !.consecutive = 0, !.total = Increment(@)])
    <3>1. e.status = "closed" => e.failed <= Increment(e.total)
      BY IncrementMonotone, IncrementType DEF BelowThreshold, Entries
    <3>2. 0 < FailureThreshold
      BY PolicyAssumption
    <3> QED  BY <3>1, <3>2 DEF BelowThreshold, Entries
  <2> QED  BY <2>1, <2>2, ClosedEntryBelow DEF AfterSuccess
<1>2. BelowThreshold(AfterRelease(e, permit))
  BY DEF AfterRelease, BelowThreshold, Entries
<1>3. \A t \in {1, FailureThreshold} : BelowThreshold(AfterFailure(e, permit, t))
  BY BelowAfterFailure
<1> QED  BY <1>1, <1>2, <1>3 DEF Outcomes

LEMMA BelowAfterAcquire ==
  ASSUME NEW e \in Entries, BelowThreshold(e)
  PROVE  BelowThreshold(AfterAcquire(e))
<1>1. CASE e.status = "closed"
  BY <1>1 DEF AfterAcquire
<1>2. CASE e.status # "closed"
  <2>1. AfterAcquire(e).status = "halfOpen"
    BY <1>2 DEF AfterAcquire, ClosedEntry, Entries
  <2> QED  BY <2>1 DEF BelowThreshold
<1> QED  BY <1>1, <1>2

LEMMA BelowStep ==
  ASSUME TypeOK, \A p \in Providers : BelowThreshold(circuit[p]), [Next]_vars
  PROVE  \A p \in Providers : BelowThreshold(circuit'[p])
<1> SUFFICES ASSUME NEW p \in Providers PROVE BelowThreshold(circuit'[p])
  OBVIOUS
<1>0. circuit[p] \in Entries /\ BelowThreshold(circuit[p])
  BY DEF TypeOK
<1>1. ASSUME NEW r \in Requests, SettlesStep(r) PROVE BelowThreshold(circuit'[p])
  <2>1. p # At(r) => circuit'[p] = circuit[p]
    BY <1>1 DEF SettlesStep, OnlyAt
  <2>2. p = At(r) => circuit'[p] \in Outcomes(circuit[p], req[r].permit)
    BY <1>1 DEF SettlesStep
  <2> QED  BY <1>0, <2>1, <2>2, BelowAfterOutcome
<1>2. ASSUME NEW r \in Requests, AcquiresStep(r) PROVE BelowThreshold(circuit'[p])
  <2>1. circuit'[p] \in {circuit[p], AfterAcquire(circuit[p])}
    BY <1>2 DEF AcquiresStep, OnlyAt
  <2> QED  BY <1>0, <2>1, BelowAfterAcquire
<1>3. ASSUME NEW r \in Requests, KeepsStep(r) \/ LosesStep(r) PROVE BelowThreshold(circuit'[p])
  BY <1>0, <1>3 DEF KeepsStep, LosesStep
<1>4. CASE PassesStep
  <2>1. circuit[p].status = "open" =>
          [circuit[p] EXCEPT !.cooled = TRUE].status = "open"
    BY <1>0 DEF Entries
  <2> QED  BY <1>0, <1>4, <2>1 DEF PassesStep, BelowThreshold
<1>5. CASE ResetsStep
  BY <1>0, <1>5, ClosedEntryBelow DEF ResetsStep
<1>6. CASE UNCHANGED vars
  BY <1>0, <1>6 DEF vars
<1> QED  BY <1>1, <1>2, <1>3, <1>4, <1>5, <1>6, NextKinds

\* No order of the answers to concurrent requests, and no reset, leaves a circuit
\* closed once its consecutive failures have reached the threshold.
THEOREM BelowThresholdAlways == Spec => []ClosedBelowThreshold
<1> DEFINE Inv == \A p \in Providers : BelowThreshold(circuit[p])
<1>1. Init => Inv
  BY ClosedEntryBelow DEF Init
<1>2. TypeOK /\ Inv /\ [Next]_vars => Inv'
  BY BelowStep
<1>3. Inv => ClosedBelowThreshold
  BY DEF BelowThreshold, ClosedBelowThreshold
<1> QED  BY <1>1, <1>2, <1>3, TypeCorrect, PTL DEF Spec
=============================================================================
