----------------------- MODULE DaemonLifecycleProofs -----------------------
(***************************************************************************)
(* Theorems about DaemonLifecycle: its types, and that daemon.json names   *)
(* the daemon that serves.                                                 *)
(***************************************************************************)
EXTENDS DaemonLifecycle, SequenceTheorems, TLAPS

(* Types. *)

\* The types of what a step may leave alone as a whole.
RecordOK == record \in [of : Daemons \union {None}, whole : BOOLEAN]
DaemonsOK ==
  /\ state \in [Daemons -> {"starting", "created", "serving", "leaving", "dead"}]
  /\ by \in [Daemons -> 0..MaxLaunches] /\ work \in [Daemons -> BOOLEAN]
  /\ clients \in [Daemons -> SUBSET Launches]
  /\ watch \in [Daemons -> BOOLEAN] /\ idle \in [Daemons -> 0..(IdleChecks - 1)]
  /\ ending \in [Daemons -> BOOLEAN]
RelayOK ==
  /\ cache \in [Daemons -> Seq(Reports)] /\ deciding \in [Daemons -> SUBSET Reports]
  /\ \A d \in Daemons : Len(cache[d]) <= CacheMax
  /\ reported \subseteq Reports
DesktopOK ==
  /\ app \in {"off", "start", "connect", "remove", "check", "ask", "wait", "spawn", "poll",
              "ready", "quitting", "broken", "unserved"}
  /\ launch \in 0..MaxLaunches /\ target \in Daemons \union {None}
  /\ upgrade \in {"no", "asked", "replacing"}
FaultsOK ==
  /\ crashes \in 0..MaxCrashes /\ timeouts \in 0..MaxTimeouts /\ struck \in 0..MaxLaunches

\* The parts make up TypeOK.
LEMMA NextParts == RecordOK' /\ DaemonsOK' /\ RelayOK' /\ DesktopOK' /\ FaultsOK' => TypeOK'
  BY DEF TypeOK, RecordOK, DaemonsOK, RelayOK, DesktopOK, FaultsOK

\* Whoever launches the application is launched once at least.
LaunchOK == app # "off" => launch \in Launches
TypeInv == TypeOK /\ LaunchOK

\* A part whose variables do not change keeps its types.
LEMMA Kept ==
  ASSUME TypeOK
  PROVE  /\ UNCHANGED record => RecordOK'
         /\ UNCHANGED daemons => DaemonsOK'
         /\ UNCHANGED relay => RelayOK'
         /\ UNCHANGED desktop => DesktopOK'
         /\ UNCHANGED faults => FaultsOK'
  BY DEF TypeOK, RecordOK, DaemonsOK, RelayOK, DesktopOK, FaultsOK, daemons, relay, desktop, faults

\* The cache takes a report without exceeding HOOK_CACHE_MAX.
LEMMA CachedType ==
  ASSUME NEW s \in Seq(Reports), NEW r \in Reports, Len(s) <= CacheMax
  PROVE  Cached(s, r) \in Seq(Reports) /\ Len(Cached(s, r)) <= CacheMax
<1>1. /\ Append(s, r) \in Seq(Reports) /\ Len(Append(s, r)) = Len(s) + 1
      /\ Append(s, r) # <<>>
  BY AppendProperties
<1>2. Tail(Append(s, r)) \in Seq(Reports) /\ Len(Tail(Append(s, r))) = Len(s)
  BY <1>1, HeadTailProperties
<1>3. Len(s) \in Nat /\ CacheMax \in Nat
  BY ConstantsAssumption
<1> QED  BY <1>1, <1>2, <1>3 DEF Cached

\* A flush empties a cache, and a process that dies takes everything with it.
LEMMA FlushType ==
  ASSUME TypeOK, NEW d \in Daemons, Flush(d), UNCHANGED <<deciding, reported>>
  PROVE  RelayOK'
<1>1. <<>> \in Seq(Reports) /\ Len(<<>>) = 0 /\ CacheMax \in Nat
  BY ConstantsAssumption
<1> QED  BY <1>1 DEF Flush, TypeOK, RelayOK

LEMMA DiesType ==
  ASSUME TypeOK, NEW d \in Daemons, Dies(d)
  PROVE  DaemonsOK' /\ RelayOK'
<1>1. <<>> \in Seq(Reports) /\ Len(<<>>) = 0 /\ CacheMax \in Nat
  BY ConstantsAssumption
<1>2. RelayOK'
  BY <1>1 DEF Dies, TypeOK, RelayOK
<1>3. 0 \in 0..MaxLaunches /\ 0 \in 0..(IdleChecks - 1)
  BY ConstantsAssumption
<1>4. DaemonsOK'
  BY <1>3 DEF Dies, TypeOK, DaemonsOK
<1> QED  BY <1>2, <1>4

\* The types hold at the start ...
LEMMA TypeInit == Init => TypeInv
<1> SUFFICES ASSUME Init PROVE TypeInv
  OBVIOUS
<1>1. <<>> \in Seq(Reports) /\ Len(<<>>) = 0 /\ CacheMax \in Nat /\ 0 \in 0..MaxLaunches
      /\ 0 \in 0..(IdleChecks - 1) /\ 0 \in 0..MaxCrashes /\ 0 \in 0..MaxTimeouts
  BY ConstantsAssumption
<1> QED  BY <1>1 DEF Init, TypeInv, TypeOK, LaunchOK, NoRecord, Launches

\* ... after what happens to a report ...
LEMMA TypeRelay ==
  ASSUME TypeInv,
         \/ PageList
         \/ \E d \in Daemons, r \in Reports : Report(d, r) \/ CacheReport(d, r)
  PROVE  TypeInv'
<1>1. TypeOK
  BY DEF TypeInv
<1>2. UNCHANGED <<record, daemons, desktop, faults>>
  BY DEF PageList, Report, CacheReport
<1>3. RelayOK'
  <2>1. CASE PageList
    <3>1. target \in Daemons
      BY <1>1, <2>1 DEF PageList, Connected, Up, TypeOK
    <3>2. Flush(target) /\ UNCHANGED <<deciding, reported>>
      BY <2>1 DEF PageList
    <3> QED  BY <1>1, <3>1, <3>2, FlushType
  <2>2. ASSUME NEW d \in Daemons, NEW r \in Reports, Report(d, r)
        PROVE  RelayOK'
    BY <1>1, <2>2 DEF Report, TypeOK, RelayOK
  <2>3. ASSUME NEW d \in Daemons, NEW r \in Reports, CacheReport(d, r)
        PROVE  RelayOK'
    <3>1. cache[d] \in Seq(Reports) /\ Len(cache[d]) <= CacheMax
      BY <1>1 DEF TypeOK
    <3>2. Cached(cache[d], r) \in Seq(Reports) /\ Len(Cached(cache[d], r)) <= CacheMax
      BY <3>1, CachedType
    <3> QED  BY <1>1, <2>3, <3>2 DEF CacheReport, TypeOK, RelayOK
  <2> QED  BY <2>1, <2>2, <2>3
<1>4. LaunchOK'
  BY <1>2 DEF TypeInv, LaunchOK, desktop
<1> QED  BY <1>1, <1>2, <1>3, <1>4, Kept, NextParts DEF TypeInv

\* ... after what the application does by itself ...
LEMMA TypeApp ==
  ASSUME TypeInv, AppStep \/ ConnectTimesOut
  PROVE  TypeInv'
<1>1. TypeOK /\ (app # "off" => launch \in Launches)
  BY DEF TypeInv, LaunchOK
<1>a. MaxTimeouts \in Nat
  BY ConstantsAssumption
<1> USE DEF TypeInv, LaunchOK
<1>2. CASE ReadRecord
  BY <1>1, <1>2, Kept, NextParts DEF ReadRecord, TypeOK, DesktopOK, daemons, relay, faults
<1>3. CASE Connect
  <2>1. launch \in Launches
    BY <1>1, <1>3 DEF Connect
  <2>2. DaemonsOK' /\ DesktopOK'
    BY <1>1, <1>3, <2>1 DEF Connect, Join, Launches, TypeOK, DaemonsOK, DesktopOK
  <2> QED  BY <1>1, <1>3, <2>1, <2>2, Kept, NextParts DEF Connect, relay, faults
<1>4. CASE ConnectFails \/ ConnectTimesOut
  <2>1. DesktopOK' /\ FaultsOK'
    BY <1>1, <1>4, <1>a
       DEF ConnectFails, ConnectTimesOut, Unreachable, TypeOK, DesktopOK, FaultsOK, faults
  <2> QED  BY <1>1, <1>4, <2>1, Kept, NextParts DEF ConnectFails, ConnectTimesOut
<1>5. CASE RemoveStale
  BY <1>1, <1>5, Kept, NextParts
     DEF RemoveStale, NoRecord, TypeOK, RecordOK, DesktopOK, daemons, relay, faults
<1>6. CASE KeepClient \/ AskFails \/ GiveUp
  BY <1>1, <1>6, Kept, NextParts DEF KeepClient, AskFails, GiveUp, TypeOK, DesktopOK
<1>7. CASE ListOld
  <2>1. target \in Daemons
    BY <1>1, <1>7 DEF ListOld, Connected, Up, TypeOK
  <2>2. RelayOK'
    BY <1>1, <1>7, <2>1, FlushType DEF ListOld
  <2>3. DesktopOK' /\ LaunchOK'
    BY <1>1, <1>7 DEF ListOld, TypeOK, DesktopOK
  <2> QED  BY <1>1, <1>7, <2>2, <2>3, Kept, NextParts DEF ListOld
<1>8. CASE Ask
  <2>1. target \in Daemons
    BY <1>1, <1>8 DEF Ask, Connected, Up, TypeOK
  <2>2. (ending[target] \/ ~work[target]) \in BOOLEAN
    BY <1>1, <2>1 DEF TypeOK
  <2>3. DaemonsOK' /\ DesktopOK' /\ LaunchOK'
    BY <1>1, <1>8, <2>1, <2>2 DEF Ask, TypeOK, DaemonsOK, DesktopOK
  <2> QED  BY <1>1, <1>8, <2>3, Kept, NextParts DEF Ask
<1>9. CASE Wait
  BY <1>1, <1>9, Kept, NextParts DEF Wait, TypeOK, DesktopOK
<1>10. CASE Spawn
  <2>1. PICK d \in FreeIds : /\ state' = [state EXCEPT ![d] = "starting"]
                            /\ by' = [by EXCEPT ![d] = launch]
    BY <1>10 DEF Spawn
  <2>2. DaemonsOK' /\ DesktopOK' /\ LaunchOK'
    BY <1>1, <1>10, <2>1 DEF Spawn, FreeIds, TypeOK, DaemonsOK, DesktopOK
  <2> QED  BY <1>1, <1>10, <2>2, Kept, NextParts DEF Spawn
<1>11. CASE Poll
  <2>1. launch \in Launches
    BY <1>1, <1>11 DEF Poll
  <2>2. Up(record.of) => record.of \in Daemons
    BY <1>1 DEF TypeOK, Up
  <2>3. DesktopOK' /\ LaunchOK'
    BY <1>1, <1>11, <2>1, <2>2 DEF Poll, TypeOK, DesktopOK
  <2>4. clients' \in [Daemons -> SUBSET Launches]
    <3>1. CASE UNCHANGED clients
      BY <1>1, <3>1 DEF TypeOK
    <3>2. CASE Join(record.of) /\ Up(record.of)
      <4>1. clients[record.of] \union {launch} \in SUBSET Launches
        BY <1>1, <2>1, <2>2, <3>2 DEF TypeOK
      <4> QED  BY <1>1, <2>2, <3>2, <4>1 DEF Join, TypeOK
    <3> QED  BY <1>11, <3>1, <3>2 DEF Poll
  <2>5. DaemonsOK'
    BY <1>1, <1>11, <2>4 DEF Poll, TypeOK, DaemonsOK
  <2> QED  BY <1>1, <1>11, <2>3, <2>5, Kept, NextParts DEF Poll
<1>12. CASE QuitShutdown
  <2>1. Connected(target) => target \in Daemons /\ (ending[target] \/ ~work[target]) \in BOOLEAN
    BY <1>1 DEF Connected, Up, TypeOK
  <2>2. DaemonsOK' /\ DesktopOK' /\ LaunchOK'
    BY <1>1, <1>12, <2>1 DEF QuitShutdown, TypeOK, DaemonsOK, DesktopOK
  <2> QED  BY <1>1, <1>12, <2>2, Kept, NextParts DEF QuitShutdown
<1> QED  BY <1>2, <1>3, <1>4, <1>5, <1>6, <1>7, <1>8, <1>9, <1>10, <1>11, <1>12 DEF AppStep

\* ... after what the user does ...
LEMMA TypeUser ==
  ASSUME TypeInv, UserStep
  PROVE  TypeInv'
<1>1. TypeOK /\ (app # "off" => launch \in Launches)
  BY DEF TypeInv, LaunchOK
<1> USE DEF TypeInv, LaunchOK
<1>2. CASE Launch
  <2>1. launch + 1 \in Launches /\ launch + 1 \in 0..MaxLaunches
    BY <1>1, <1>2, ConstantsAssumption DEF Launch, Launches, TypeOK
  <2>2. DesktopOK' /\ LaunchOK'
    BY <1>1, <1>2, <2>1 DEF Launch, TypeOK, DesktopOK
  <2> QED  BY <1>1, <1>2, <2>2, Kept, NextParts DEF Launch
<1>3. CASE StartWork
  <2>1. DaemonsOK' /\ LaunchOK'
    BY <1>1, <1>3 DEF StartWork, TypeOK, DaemonsOK, desktop
  <2> QED  BY <1>1, <1>3, <2>1, Kept, NextParts DEF StartWork
<1>4. CASE UpgradeIfIdle
  <2>1. target \in Daemons
    BY <1>1, <1>4 DEF UpgradeIfIdle, Connected, Up, TypeOK
  <2>2. RelayOK'
    BY <1>1, <1>4, <2>1, FlushType DEF UpgradeIfIdle
  <2>3. DesktopOK' /\ LaunchOK'
    BY <1>1, <1>4 DEF UpgradeIfIdle, TypeOK, DesktopOK
  <2> QED  BY <1>1, <1>4, <2>2, <2>3, Kept, NextParts DEF UpgradeIfIdle
<1>5. CASE Quit
  <2>1. PICK closed \in BOOLEAN : work' = [work EXCEPT ![target] = @ /\ ~closed]
    BY <1>5 DEF Quit
  <2>2. target \in Daemons /\ (work[target] /\ ~closed) \in BOOLEAN
    BY <1>1, <1>5 DEF Quit, Connected, Up, TypeOK
  <2>3. DaemonsOK' /\ DesktopOK' /\ LaunchOK'
    BY <1>1, <1>5, <2>1, <2>2 DEF Quit, TypeOK, DaemonsOK, DesktopOK
  <2> QED  BY <1>1, <1>5, <2>3, Kept, NextParts DEF Quit
<1>6. CASE AppEnds
  BY <1>1, <1>6, Kept, NextParts DEF AppEnds, TypeOK, DesktopOK
<1> QED  BY <1>2, <1>3, <1>4, <1>5, <1>6 DEF UserStep

\* ... and after what a daemon does.
LEMMA TypeDaemon ==
  ASSUME TypeInv, NEW d \in Daemons,
         \/ DaemonStep(d) \/ Disconnect(d) \/ WatchClients(d) \/ WatchWork(d)
         \/ EndWork(d) \/ Crash(d)
  PROVE  TypeInv'
<1>1. TypeOK /\ (app # "off" => launch \in Launches)
  BY DEF TypeInv, LaunchOK
<1>2. LaunchOK' /\ DesktopOK'
  <2>1. UNCHANGED desktop
    BY DEF DaemonStep, CreateRecord, WriteRecord, EndShutdown, Exit, Disconnect, WatchClients,
           WatchWork, EndWork, Crash
  <2> QED  BY <1>1, <2>1, Kept DEF LaunchOK, desktop
<1> USE DEF TypeInv
<1>3. CASE CreateRecord(d)
  <2>0. RecordOK'
    <3>1. [of |-> d, whole |-> FALSE] \in [of : Daemons \union {None}, whole : BOOLEAN]
      OBVIOUS
    <3> QED  BY <1>1, <1>3, <3>1 DEF CreateRecord, TypeOK, RecordOK
  <2>1. RecordOK' /\ FaultsOK'
    BY <1>1, <1>3, <2>0, Kept DEF CreateRecord
  <2>2. DaemonsOK' /\ RelayOK'
    <3>1. CASE Dies(d)
      BY <1>1, <3>1, DiesType
    <3>2. CASE ~Dies(d)
      BY <1>1, <1>3, <3>2, Kept DEF CreateRecord, TypeOK, DaemonsOK
    <3> QED  BY <3>1, <3>2
  <2> QED  BY <1>2, <2>1, <2>2, NextParts
<1>4. CASE WriteRecord(d)
  <2>1. RecordOK' /\ DaemonsOK'
    BY <1>1, <1>4 DEF WriteRecord, TypeOK, RecordOK, DaemonsOK
  <2> QED  BY <1>1, <1>2, <1>4, <2>1, Kept, NextParts DEF WriteRecord
<1>5. CASE EndShutdown(d)
  <2>1. RecordOK' /\ DaemonsOK'
    BY <1>1, <1>5 DEF EndShutdown, NoRecord, TypeOK, RecordOK, DaemonsOK
  <2> QED  BY <1>1, <1>2, <1>5, <2>1, Kept, NextParts DEF EndShutdown
<1>6. CASE Exit(d)
  BY <1>1, <1>2, <1>6, DiesType, Kept, NextParts DEF Exit
<1>7. CASE Disconnect(d) \/ EndWork(d)
  <2>1. DaemonsOK'
    <3>1. clients[d] \ Ended \in SUBSET Launches
      BY <1>1 DEF TypeOK
    <3>2. CASE Disconnect(d)
      BY <1>1, <3>1, <3>2 DEF Disconnect, TypeOK, DaemonsOK
    <3>3. CASE EndWork(d)
      BY <1>1, <3>3 DEF EndWork, TypeOK, DaemonsOK
    <3> QED  BY <1>7, <3>2, <3>3
  <2> QED  BY <1>1, <1>2, <1>7, <2>1, Kept, NextParts DEF Disconnect, EndWork
<1>8. CASE WatchClients(d)
  <2>1. 0 \in 0..(IdleChecks - 1)
    BY ConstantsAssumption
  <2>2. DaemonsOK'
    BY <1>1, <1>8, <2>1 DEF WatchClients, TypeOK, DaemonsOK
  <2> QED  BY <1>1, <1>2, <1>8, <2>2, Kept, NextParts DEF WatchClients
<1>9. CASE WatchWork(d)
  <2>1. /\ 0 \in 0..(IdleChecks - 1) /\ idle[d] \in 0..(IdleChecks - 1)
        /\ (idle[d] + 1 # IdleChecks => idle[d] + 1 \in 0..(IdleChecks - 1))
    BY <1>1, ConstantsAssumption DEF TypeOK
  <2>2. RecordOK' /\ DaemonsOK'
    <3>1. NoRecord \in [of : Daemons \union {None}, whole : BOOLEAN]
      BY DEF NoRecord
    <3>2. RecordOK'
      BY <1>1, <1>9, <3>1 DEF WatchWork, TypeOK, RecordOK
    <3>3. state' \in [Daemons -> {"starting", "created", "serving", "leaving", "dead"}]
      BY <1>1, <1>9 DEF WatchWork, TypeOK
    <3>4. idle' \in [Daemons -> 0..(IdleChecks - 1)]
      <4>1. CASE UNCHANGED idle
        BY <1>1, <4>1 DEF TypeOK
      <4>2. CASE idle' = [idle EXCEPT ![d] = IF work[d] THEN 0 ELSE idle[d] + 1]
                 /\ (work[d] \/ idle[d] + 1 # IdleChecks)
        <5>1. (IF work[d] THEN 0 ELSE idle[d] + 1) \in 0..(IdleChecks - 1)
          BY <2>1, <4>2
        <5> QED  BY <1>1, <4>2, <5>1 DEF TypeOK
      <4> QED  BY <1>9, <4>1, <4>2 DEF WatchWork
    <3> QED  BY <1>1, <1>9, <3>2, <3>3, <3>4 DEF WatchWork, TypeOK, DaemonsOK
  <2> QED  BY <1>1, <1>2, <1>9, <2>2, Kept, NextParts DEF WatchWork
<1>10. CASE Crash(d)
  <2>1. FaultsOK'
    BY <1>1, <1>10, ConstantsAssumption DEF Crash, TypeOK, FaultsOK
  <2> QED  BY <1>1, <1>2, <1>10, <2>1, DiesType, Kept, NextParts DEF Crash
<1> QED  BY <1>3, <1>4, <1>5, <1>6, <1>7, <1>8, <1>9, <1>10 DEF DaemonStep

\* Every step keeps the types.
LEMMA TypeStep == TypeInv /\ [Next]_vars => TypeInv'
<1> SUFFICES ASSUME TypeInv, [Next]_vars PROVE TypeInv'
  OBVIOUS
<1>1. CASE UNCHANGED vars
  BY <1>1, Kept, NextParts DEF vars, TypeInv, LaunchOK, desktop
<1>2. CASE Next
  BY <1>2, TypeRelay, TypeApp, TypeUser, TypeDaemon DEF Next
<1> QED  BY <1>1, <1>2

\* The types, and a launch that is counted, hold in every behaviour.
LEMMA TypeAlways == Spec => []TypeInv
  BY TypeInit, TypeStep, PTL DEF Spec

\* Every variable keeps its type, and hook_cache never holds more than HOOK_CACHE_MAX.
THEOREM TypeCorrect == Spec => []TypeOK
<1>1. TypeInv => TypeOK
  BY DEF TypeInv
<1> QED  BY <1>1, TypeAlways, PTL
-----------------------------------------------------------------------------
(* The record. *)

\* As long as no live daemon was taken for a zombie: a daemon that has created its record
\* owns it, before it is written and after.  The application only looks for a daemon when
\* none is on its way to its record; so when it cannot reach what the record names, no
\* daemon serves, and its removal hits no successor.
Owned ==
  \A d \in Daemons :
    /\ state[d] = "serving" => record = [of |-> d, whole |-> TRUE]
    /\ state[d] = "created" => record = [of |-> d, whole |-> FALSE]
Looking == app \in {"start", "connect", "remove", "check", "ask", "wait", "spawn"}
OnlyTarget ==
  /\ app \in {"connect", "remove"} => \A d \in Daemons : state[d] # "created"
  /\ app = "connect" => \A d \in Daemons : state[d] = "serving" => d = target
  /\ app = "remove" => \A d \in Daemons : state[d] # "serving"
RecordInv == timeouts = 0 => Owned /\ (Looking => Settled) /\ OnlyTarget

LEMMA RecordInit == Init => RecordInv
  BY DEF Init, RecordInv, Owned, Looking, Settled, OnlyTarget

\* A step that leaves record and processes alone keeps the invariant if it begins no search.
LEMMA RecordKept ==
  ASSUME TypeOK, RecordInv, UNCHANGED <<record, state>>, timeouts' = timeouts,
         Looking' => Settled,
         app' \in {"connect", "remove"} => UNCHANGED <<app, target>>
  PROVE  RecordInv'
  BY DEF RecordInv, Owned, Looking, Settled, OnlyTarget

\* The application's steps keep it ...
LEMMA RecordApp ==
  ASSUME TypeOK, RecordInv, AppStep \/ PageList \/ UserStep \/ ConnectTimesOut
  PROVE  RecordInv'
<1> SUFFICES ASSUME timeouts = 0, timeouts' = 0 PROVE RecordInv'
  <2>1. timeouts' # 0 => RecordInv'
    BY DEF RecordInv
  <2>2. CASE ConnectTimesOut
    BY <2>1, <2>2, ConstantsAssumption DEF ConnectTimesOut, TypeOK
  <2>3. CASE ~ConnectTimesOut
    <3>1. UNCHANGED faults
      BY <2>3 DEF AppStep, PageList, UserStep, ReadRecord, Connect, ConnectFails, RemoveStale,
             KeepClient, ListOld, Ask, AskFails, Wait, Spawn, Poll, GiveUp, QuitShutdown, Launch,
             StartWork, UpgradeIfIdle, Quit, AppEnds
    <3> QED  BY <2>1, <3>1 DEF faults
  <2> QED  BY <2>2, <2>3
<1>1. Owned /\ (Looking => Settled) /\ OnlyTarget
  BY DEF RecordInv
<1>2. CASE ReadRecord
  <2>1. Settled /\ UNCHANGED <<record, state>> /\ app' \in {"spawn", "broken", "connect", "remove"}
    BY <1>1, <1>2 DEF ReadRecord, Looking, daemons
  <2>2. CASE app' \in {"spawn", "broken"}
    BY <1>2, <2>1, <2>2, RecordKept
  <2>3. CASE app' \in {"connect", "remove"}
    <3>1. /\ record.whole /\ target' = record.of
          /\ app' = "remove" => state[record.of] = "dead"
      BY <1>2, <2>3 DEF ReadRecord, PidAlive
    <3>2. \A d \in Daemons : /\ state[d] # "created"
                             /\ state[d] = "serving" => d = record.of
      BY <1>1, <3>1 DEF Owned
    <3> QED  BY <1>1, <2>1, <3>1, <3>2 DEF RecordInv, Owned, Settled, OnlyTarget
  <2> QED  BY <2>1, <2>2, <2>3
<1>3. CASE ConnectFails
  <2>1. /\ app = "connect" /\ app' = "remove" /\ UNCHANGED <<record, state>>
        /\ ~Up(target)
    BY <1>3 DEF ConnectFails, Unreachable, daemons
  <2>2. \A d \in Daemons : state[d] \notin {"created", "serving"}
    BY <1>1, <2>1, ConstantsAssumption DEF OnlyTarget, Up
  <2> QED  BY <1>1, <2>1, <2>2 DEF RecordInv, Owned, Looking, Settled, OnlyTarget
<1>4. CASE RemoveStale
  <2>1. \A d \in Daemons : state[d] \notin {"created", "serving"}
    BY <1>1, <1>4 DEF OnlyTarget, RemoveStale
  <2> QED  BY <1>1, <1>4, <2>1
           DEF RemoveStale, RecordInv, Owned, Looking, Settled, OnlyTarget, daemons
<1>5. CASE Spawn
  <2>1. PICK d \in FreeIds : state' = [state EXCEPT ![d] = "starting"]
    BY <1>5 DEF Spawn
  <2>2. UNCHANGED record /\ app' = "poll"
    BY <1>5 DEF Spawn
  <2>3. \A e \in Daemons : state'[e] \in {"created", "serving"} => state'[e] = state[e]
    BY <2>1 DEF FreeIds, TypeOK
  <2> QED  BY <1>1, <2>2, <2>3 DEF RecordInv, Owned, Looking, OnlyTarget
<1>6. CASE Launch \/ UpgradeIfIdle
  <2>1. UNCHANGED <<record, state>> /\ Settled /\ app' \in {"start", "ask"}
    BY <1>6 DEF Launch, UpgradeIfIdle, daemons
  <2> QED  BY <2>1, RecordKept
<1>7. CASE Connect \/ KeepClient \/ ListOld \/ Ask \/ AskFails \/ Wait
  <2>1. UNCHANGED <<record, state>> /\ Looking /\ app' \notin {"connect", "remove"}
    BY <1>7 DEF Connect, KeepClient, ListOld, Ask, AskFails, Wait, Looking, daemons
  <2> QED  BY <1>1, <2>1, RecordKept
<1>8. CASE Poll \/ GiveUp \/ QuitShutdown \/ Quit \/ AppEnds
  <2>1. UNCHANGED <<record, state>> /\ app' \in {"broken", "ready", "unserved", "off", "quitting"}
    BY <1>8 DEF Poll, GiveUp, QuitShutdown, Quit, AppEnds, daemons
  <2> QED  BY <2>1, RecordKept DEF Looking
<1>9. CASE StartWork \/ PageList
  <2>1. UNCHANGED <<record, state, app, target>>
    BY <1>9 DEF StartWork, PageList, daemons, desktop
  <2> QED  BY <1>1, <2>1, RecordKept DEF Looking
<1>10. CASE ConnectTimesOut
  BY <1>10, ConstantsAssumption DEF ConnectTimesOut, TypeOK
<1> QED  BY <1>2, <1>3, <1>4, <1>5, <1>6, <1>7, <1>8, <1>9, <1>10 DEF AppStep, UserStep

\* A step of one daemon that takes it nowhere near a record keeps the invariant.
LEMMA RecordLeaves ==
  ASSUME TypeOK, RecordInv, NEW d \in Daemons, UNCHANGED <<app, target>>, timeouts' = timeouts,
         \A e \in Daemons \ {d} : state'[e] = state[e],
         state'[d] \in {"leaving", "dead"},
         UNCHANGED record \/ state[d] = "serving"
  PROVE  RecordInv'
<1> SUFFICES ASSUME timeouts = 0 PROVE Owned' /\ (Looking' => Settled') /\ OnlyTarget'
  BY DEF RecordInv
<1>1. Owned /\ (Looking => Settled) /\ OnlyTarget
  BY DEF RecordInv
<1>2. Owned'
  <2>1. CASE UNCHANGED record
    BY <1>1, <2>1 DEF Owned
  <2>2. CASE state[d] = "serving"
    <3>1. \A e \in Daemons \ {d} : state[e] \notin {"serving", "created"}
      BY <1>1, <2>2 DEF Owned
    <3> QED  BY <3>1 DEF Owned
  <2> QED  BY <2>1, <2>2
<1> QED  BY <1>1, <1>2 DEF Looking, Settled, OnlyTarget

\* ... and so do those of a daemon.
LEMMA RecordDaemon ==
  ASSUME TypeOK, RecordInv, NEW d \in Daemons,
         \/ DaemonStep(d) \/ Disconnect(d) \/ WatchClients(d) \/ WatchWork(d)
         \/ EndWork(d) \/ Crash(d)
  PROVE  RecordInv'
<1>0. UNCHANGED <<app, target, timeouts>>
  BY DEF DaemonStep, CreateRecord, WriteRecord, EndShutdown, Exit, Disconnect, WatchClients,
         WatchWork, EndWork, Crash, desktop, faults
<1>1. CASE Exit(d) \/ Crash(d) \/ EndShutdown(d)
  <2>1. /\ \A e \in Daemons \ {d} : state'[e] = state[e]
        /\ state'[d] \in {"leaving", "dead"}
        /\ UNCHANGED record \/ state[d] = "serving"
    BY <1>1 DEF Exit, Crash, EndShutdown, Dies, TypeOK
  <2> QED  BY <1>0, <2>1, RecordLeaves
<1>2. CASE Disconnect(d) \/ EndWork(d) \/ WatchClients(d)
  <2>1. UNCHANGED <<record, state>>
    BY <1>2 DEF Disconnect, EndWork, WatchClients
  <2> QED  BY <1>0, <2>1 DEF RecordInv, Owned, Looking, Settled, OnlyTarget
<1>3. CASE WatchWork(d)
  <2>1. CASE UNCHANGED <<record, state>>
    BY <1>0, <2>1 DEF RecordInv, Owned, Looking, Settled, OnlyTarget
  <2>2. CASE state' = [state EXCEPT ![d] = "leaving"] /\ state[d] = "serving"
    <3>1. state'[d] = "leaving" /\ \A e \in Daemons \ {d} : state'[e] = state[e]
      BY <2>2 DEF TypeOK
    <3> QED  BY <1>0, <2>2, <3>1, RecordLeaves
  <2> QED  BY <1>3, <2>1, <2>2 DEF WatchWork
<1>4. CASE CreateRecord(d)
  <2>1. CASE Free /\ state' = [state EXCEPT ![d] = "created"]
             /\ record' = [of |-> d, whole |-> FALSE]
    <3> SUFFICES ASSUME timeouts = 0 PROVE Owned' /\ (Looking' => Settled') /\ OnlyTarget'
      BY <1>0 DEF RecordInv
    <3>1. ~Settled /\ ~Looking
      BY <1>4 DEF CreateRecord, Settled, RecordInv
    <3>2. \A e \in Daemons : state[e] \notin {"created", "serving"}
      BY <2>1, ConstantsAssumption DEF Free, NoRecord, RecordInv, Owned
    <3>3. state'[d] = "created" /\ \A e \in Daemons \ {d} : state'[e] = state[e]
      BY <2>1 DEF TypeOK
    <3> QED  BY <1>0, <2>1, <3>1, <3>2, <3>3 DEF Owned, Looking, OnlyTarget
  <2>2. CASE Dies(d) /\ UNCHANGED record
    <3>1. state'[d] = "dead" /\ \A e \in Daemons \ {d} : state'[e] = state[e]
      BY <2>2 DEF Dies, TypeOK
    <3> QED  BY <1>0, <2>2, <3>1, RecordLeaves
  <2> QED  BY <1>4, <2>1, <2>2 DEF CreateRecord
<1>5. CASE WriteRecord(d)
  <2> SUFFICES ASSUME timeouts = 0 PROVE Owned' /\ (Looking' => Settled') /\ OnlyTarget'
    BY <1>0 DEF RecordInv
  <2>1. record = [of |-> d, whole |-> FALSE] /\ state[d] = "created"
    BY <1>5 DEF WriteRecord, RecordInv, Owned
  <2>2. record' = [of |-> d, whole |-> TRUE]
    BY <1>5, <2>1 DEF WriteRecord
  <2>3. state'[d] = "serving" /\ \A e \in Daemons \ {d} : state'[e] = state[e]
    BY <1>5 DEF WriteRecord, TypeOK
  <2>4. \A e \in Daemons \ {d} : state[e] \notin {"created", "serving"}
    BY <2>1 DEF RecordInv, Owned
  <2>5. app \notin {"connect", "remove"} /\ (Looking => Settled)
    BY <2>1 DEF RecordInv, OnlyTarget
  <2> QED  BY <1>0, <2>2, <2>3, <2>4, <2>5 DEF Owned, Looking, Settled, OnlyTarget
<1> QED  BY <1>1, <1>2, <1>3, <1>4, <1>5 DEF DaemonStep

\* Every step keeps it.
LEMMA RecordStep == TypeOK /\ RecordInv /\ [Next]_vars => RecordInv'
<1> SUFFICES ASSUME TypeOK, RecordInv, [Next]_vars PROVE RecordInv'
  OBVIOUS
<1>1. CASE UNCHANGED vars
  BY <1>1 DEF vars, daemons, desktop, faults, RecordInv, Owned, Looking, Settled, OnlyTarget
<1>2. ASSUME NEW d \in Daemons, NEW r \in Reports, Report(d, r) \/ CacheReport(d, r)
      PROVE  RecordInv'
  BY <1>2 DEF Report, CacheReport, daemons, desktop, faults, RecordInv, Owned, Looking, Settled,
              OnlyTarget
<1>3. CASE Next
  BY <1>2, <1>3, RecordApp, RecordDaemon DEF Next
<1> QED  BY <1>1, <1>3

\* While every live daemon answers its handshake in time, daemon.json names the daemon that
\* serves: nobody removes the record of another daemon, and no two serve, for any number of
\* launches, versions and crashes.
THEOREM RecordAlways == Spec => []RecordNamesServer
<1>1. RecordInv => RecordNamesServer
  BY DEF RecordInv, Owned, RecordNamesServer
<1> QED  BY <1>1, RecordInit, RecordStep, TypeCorrect, PTL DEF Spec
=============================================================================
