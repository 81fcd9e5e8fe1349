-------------------------- MODULE DaemonLifecycle --------------------------
(***************************************************************************)
(* How the desktop application finds, starts, upgrades and ends the PTY    *)
(* daemon: the discovery file daemon.json, the idle watchdog, Shutdown, and *)
(* the hook reports a daemon keeps while no application is connected.      *)
(* One application runs at a time; a daemon outlives it.                   *)
(***************************************************************************)
EXTENDS Naturals, FiniteSets, Sequences, SequencesExt

CONSTANTS
  Daemons,      \* process ids, the first free one is given to a daemon that is started
  None,         \* no daemon
  MaxLaunches,  \* bound: launches of the application
  Upgrade,      \* the first launch of a newer version
  IdleChecks,   \* IDLE_EXIT_AFTER / IDLE_CHECK_INTERVAL
  Reports,      \* reports of CLI hooks
  CacheMax,     \* HOOK_CACHE_MAX
  MaxCrashes,   \* bound: daemons that die
  MaxTimeouts   \* bound: handshakes a running daemon answers too late

ASSUME ConstantsAssumption ==
  /\ Daemons \subseteq Nat /\ None \notin Daemons
  /\ MaxLaunches \in Nat \ {0} /\ Upgrade \in Nat /\ IdleChecks \in Nat \ {0}
  /\ CacheMax \in Nat \ {0} /\ MaxCrashes \in Nat /\ MaxTimeouts \in Nat

Launches == 1..MaxLaunches

VARIABLES
  record,    \* daemon.json: whose it is, and whether its content is written
  state,     \* of each daemon process
  by,        \* the launch that started it, which gives it its version
  work,      \* whether it has a live session or a running route
  clients,   \* the launches in its table of clients
  watch,     \* its watchdog has found no client, and not yet looked for work
  idle,      \* checks in a row that found it idle (idle_since)
  ending,    \* it has accepted Shutdown
  cache,     \* hook_cache
  deciding,  \* reports that found no client and are not cached yet
  app,       \* what the application is doing about its daemon
  launch,    \* how often it has been launched
  target,    \* the daemon it deals with
  upgrade,   \* it replaces an idle daemon: has asked it to end, or looks for another
  reported,  \* the reports that have come
  crashes, timeouts,
  struck     \* the launch in which a daemon last died

daemons == <<state, by, work, clients, watch, idle, ending>>
relay == <<cache, deciding, reported>>
desktop == <<app, launch, target, upgrade>>
faults == <<crashes, timeouts, struck>>
vars == <<record, daemons, relay, desktop, faults>>

NoRecord == [of |-> None, whole |-> FALSE]

TypeOK ==
  /\ record \in [of : Daemons \union {None}, whole : BOOLEAN]
  /\ state \in [Daemons -> {"starting", "created", "serving", "leaving", "dead"}]
  /\ by \in [Daemons -> 0..MaxLaunches] /\ work \in [Daemons -> BOOLEAN]
  /\ clients \in [Daemons -> SUBSET Launches]
  /\ watch \in [Daemons -> BOOLEAN] /\ idle \in [Daemons -> 0..(IdleChecks - 1)]
  /\ ending \in [Daemons -> BOOLEAN]
  /\ cache \in [Daemons -> Seq(Reports)] /\ deciding \in [Daemons -> SUBSET Reports]
  /\ \A d \in Daemons : Len(cache[d]) <= CacheMax
  /\ app \in {"off", "start", "connect", "remove", "check", "ask", "wait", "spawn", "poll",
              "ready", "quitting", "broken", "unserved"}
  /\ launch \in 0..MaxLaunches /\ target \in Daemons \union {None}
  /\ upgrade \in {"no", "asked", "replacing"} /\ reported \subseteq Reports
  /\ crashes \in 0..MaxCrashes /\ timeouts \in 0..MaxTimeouts /\ struck \in 0..MaxLaunches

Init ==
  /\ record = NoRecord
  /\ state = [d \in Daemons |-> "dead"] /\ by = [d \in Daemons |-> 0]
  /\ work = [d \in Daemons |-> FALSE] /\ clients = [d \in Daemons |-> {}]
  /\ watch = [d \in Daemons |-> FALSE] /\ idle = [d \in Daemons |-> 0]
  /\ ending = [d \in Daemons |-> FALSE]
  /\ cache = [d \in Daemons |-> <<>>] /\ deciding = [d \in Daemons |-> {}]
  /\ app = "off" /\ launch = 0 /\ target = None /\ upgrade = "no" /\ reported = {}
  /\ crashes = 0 /\ timeouts = 0 /\ struck = 0

Up(d) == d # None /\ state[d] \in {"serving", "leaving"}
Connected(d) == Up(d) /\ launch \in clients[d]

-----------------------------------------------------------------------------
(* Hook reports *)

\* broadcast_hook, up to the look at the clients, who are sent the report.
Report(d, r) ==
  /\ Up(d) /\ work[d] /\ r \notin reported
  /\ reported' = reported \union {r}
  /\ deciding' = [deciding EXCEPT ![d] = IF clients[d] = {} THEN @ \union {r} ELSE @]
  /\ UNCHANGED <<record, daemons, cache, desktop, faults>>

\* Variant: the cache is cut before the report is added.
CachedUncut(s, r) == Append(IF Len(s) > CacheMax THEN Tail(s) ELSE s, r)

\* The oldest reports leave a full cache.
Cached(s, r) ==
  LET all == Append(s, r) IN IF Len(all) > CacheMax THEN Tail(all) ELSE all

\* broadcast_hook, with the table of clients released.
CacheReport(d, r) ==
  /\ Up(d) /\ r \in deciding[d]
  /\ deciding' = [deciding EXCEPT ![d] = @ \ {r}]
  /\ cache' = [cache EXCEPT ![d] = Cached(@, r)]
  /\ UNCHANGED <<record, daemons, reported, desktop, faults>>

\* Variant: a list sends nothing of what is cached.
FlushNothing(d) == UNCHANGED cache

\* flush_hook_cache_to: a client that lists is sent what is cached.
Flush(d) == cache' = [cache EXCEPT ![d] = <<>>]

\* The page's periodic pty_daemon_sessions.
PageList ==
  /\ app = "ready" /\ Connected(target) /\ cache[target] # <<>>
  /\ Flush(target)
  /\ UNCHANGED <<record, daemons, deciding, reported, desktop, faults>>

-----------------------------------------------------------------------------
(* The application: connect_or_spawn *)

\* Assumed: a daemon that was started has reached its record, or has failed, before the
\* application is launched again, and before it upgrades (750 ms later at least).
Settled == \A d \in Daemons : state[d] # "starting"

Launch ==
  /\ app = "off" /\ launch < MaxLaunches /\ Settled
  /\ launch' = launch + 1 /\ app' = "start" /\ upgrade' = "no"
  /\ UNCHANGED <<record, daemons, relay, target, faults>>

\* is_pid_alive: the id of a process that has died may be another one's by now.
PidAlive(d) == IF state[d] = "dead" THEN BOOLEAN ELSE {TRUE}

\* read_daemon_info and is_pid_alive.  An unfinished record cannot be parsed.
ReadRecord ==
  /\ app = "start"
  /\ \/ record = NoRecord /\ app' = "spawn"
     \/ record # NoRecord /\ ~record.whole /\ app' = "broken"
     \/ /\ record.whole
        /\ \E alive \in PidAlive(record.of) : app' = IF alive THEN "connect" ELSE "remove"
  /\ target' = IF record.whole THEN record.of ELSE None
  /\ UNCHANGED <<record, daemons, relay, launch, upgrade, faults>>

\* DaemonClient::connect, and the client's registration.
Join(d) == clients' = [clients EXCEPT ![d] = @ \union {launch}]

Connect ==
  /\ app = "connect" /\ Up(target)
  /\ Join(target) /\ app' = "check"
  /\ UNCHANGED <<record, state, by, work, watch, idle, ending, relay, launch, target, upgrade,
                 faults>>

\* Variant: a daemon that cannot be reached keeps its record.
UnreachableKept == app' = "spawn"

\* What cannot be reached leaves no record.
Unreachable == app' = "remove"

ConnectFails ==
  /\ app = "connect" /\ ~Up(target)
  /\ Unreachable
  /\ UNCHANGED <<record, daemons, relay, launch, target, upgrade, faults>>

\* A daemon that runs answers too late, and is taken for a zombie.
ConnectTimesOut ==
  /\ app = "connect" /\ Up(target) /\ timeouts < MaxTimeouts
  /\ timeouts' = timeouts + 1
  /\ Unreachable
  /\ UNCHANGED <<record, daemons, relay, launch, target, upgrade, crashes, struck>>

\* remove_daemon_info: whosever record it is by now.
RemoveStale ==
  /\ app = "remove"
  /\ record' = NoRecord /\ app' = "spawn"
  /\ UNCHANGED <<daemons, relay, launch, target, upgrade, faults>>

NewVersion(n) == n >= Upgrade
Mismatch(d) == NewVersion(by[d]) # NewVersion(launch)

KeepClient ==
  /\ app = "check" /\ (~Mismatch(target) \/ ~Connected(target))
  /\ app' = "ready"
  /\ UNCHANGED <<record, daemons, relay, launch, target, upgrade, faults>>

\* A list of the sessions shows a session at work, but not a route.
ListsAlive(d) == IF work[d] THEN BOOLEAN ELSE {FALSE}

\* Another version: the sessions are listed, which also sends what is cached.
ListOld ==
  /\ app = "check" /\ Mismatch(target) /\ Connected(target)
  /\ Flush(target)
  /\ \E alive \in ListsAlive(target) : app' = IF alive THEN "ready" ELSE "ask"
  /\ UNCHANGED <<record, daemons, deciding, reported, launch, target, upgrade, faults>>

Ask ==
  /\ app = "ask" /\ Connected(target)
  /\ ending' = [ending EXCEPT ![target] = @ \/ ~work[target]]
  /\ app' = "wait"
  /\ UNCHANGED <<record, state, by, work, clients, watch, idle, relay, launch, target, upgrade,
                 faults>>

\* No answer: at the start the client is kept, an upgrade is given up.
AskFails ==
  /\ app = "ask" /\ ~Connected(target)
  /\ app' = "ready"
  /\ UNCHANGED <<record, daemons, relay, launch, target, upgrade, faults>>

\* The 500 ms after Shutdown.  Assumed: a daemon that is to end has ended by then, and no
\* watchdog takes longer from its one look to the next.
Wait ==
  /\ app = "wait" /\ ~(Up(target) /\ ending[target]) /\ \A d \in Daemons : ~watch[d]
  /\ \/ upgrade = "asked" /\ app' = "start" /\ upgrade' = "replacing"
     \/ upgrade # "asked" /\ app' = "spawn" /\ UNCHANGED upgrade
  /\ UNCHANGED <<record, daemons, relay, launch, target, faults>>

FreeIds == {d \in Daemons : state[d] = "dead" /\ record.of # d}

Spawn ==
  /\ app = "spawn"
  /\ \E d \in FreeIds :
       /\ \A e \in FreeIds : d <= e
       /\ state' = [state EXCEPT ![d] = "starting"]
       /\ by' = [by EXCEPT ![d] = launch]
  /\ app' = "poll" /\ target' = None
  /\ UNCHANGED <<record, work, clients, watch, idle, ending, relay, launch, upgrade, faults>>

\* spawn_and_connect: a turn of the loop that ends it.
Poll ==
  /\ app = "poll" /\ record # NoRecord
  /\ \/ /\ ~record.whole
        /\ app' = "broken"
        /\ UNCHANGED <<clients, target>>
     \/ /\ record.whole /\ Up(record.of)
        /\ Join(record.of) /\ target' = record.of /\ app' = "ready"
  /\ UNCHANGED <<record, state, by, work, watch, idle, ending, relay, launch, upgrade, faults>>

\* SPAWN_RETRY_MAX turns without a daemon.  Assumed: they outlast a daemon's start.  An
\* upgrade that fails ends like a start, without the old client.
GiveUp ==
  /\ app = "poll" /\ (record = NoRecord \/ (record.whole /\ ~Up(record.of)))
  /\ \A d \in Daemons : state[d] \notin {"starting", "created"}
  /\ app' = "unserved"
  /\ UNCHANGED <<record, daemons, relay, launch, target, upgrade, faults>>

-----------------------------------------------------------------------------
(* The application once it has a daemon *)

\* A session is created, or a route started; also while another terminal is prepared.
StartWork ==
  /\ app = "ready" \/ (upgrade # "no" /\ app # "quitting")
  /\ Connected(target) /\ ~work[target]
  /\ work' = [work EXCEPT ![target] = TRUE]
  /\ UNCHANGED <<record, state, by, clients, watch, idle, ending, relay, desktop, faults>>

\* upgrade_daemon_if_idle, called when a terminal is prepared.
UpgradeIfIdle ==
  /\ app = "ready" /\ Connected(target) /\ Mismatch(target) /\ FALSE \in ListsAlive(target)
  /\ Settled
  /\ Flush(target)
  /\ app' = "ask" /\ upgrade' = "asked"
  /\ UNCHANGED <<record, daemons, deciding, reported, launch, target, faults>>

\* The user ends the application with its tasks: the sessions are closed (a failure is
\* noted), then pty_daemon_shutdown_if_idle; if that fails the application stays open.
Quit ==
  /\ app = "ready" /\ Connected(target)
  /\ \E closed \in BOOLEAN : work' = [work EXCEPT ![target] = @ /\ ~closed]
  /\ app' = "quitting"
  /\ UNCHANGED <<record, state, by, clients, watch, idle, ending, relay, launch, target, upgrade,
                 faults>>

QuitShutdown ==
  /\ app = "quitting"
  /\ \/ /\ Connected(target)
        /\ ending' = [ending EXCEPT ![target] = @ \/ ~work[target]]
        /\ app' = "off" /\ target' = None
     \/ /\ ~Connected(target)
        /\ app' = "ready"
        /\ UNCHANGED <<ending, target>>
  /\ UNCHANGED <<record, state, by, work, clients, watch, idle, relay, launch, upgrade, faults>>

\* The application ends and leaves the daemon alone: in the background, or by a crash.
AppEnds ==
  /\ app # "off"
  /\ app' = "off" /\ target' = None
  /\ UNCHANGED <<record, daemons, relay, launch, upgrade, faults>>

-----------------------------------------------------------------------------
(* The daemon *)

\* What ends with the process.
Dies(d) ==
  /\ state' = [state EXCEPT ![d] = "dead"] /\ by' = [by EXCEPT ![d] = 0]
  /\ work' = [work EXCEPT ![d] = FALSE] /\ clients' = [clients EXCEPT ![d] = {}]
  /\ watch' = [watch EXCEPT ![d] = FALSE] /\ idle' = [idle EXCEPT ![d] = 0]
  /\ ending' = [ending EXCEPT ![d] = FALSE]
  /\ cache' = [cache EXCEPT ![d] = <<>>] /\ deciding' = [deciding EXCEPT ![d] = {}]
  /\ UNCHANGED reported

\* Variant: an existing record is overwritten.
FreeAlways == TRUE

\* create_new: only if there is no record.
Free == record = NoRecord

CreateRecord(d) ==
  /\ state[d] = "starting"
  /\ \/ /\ Free
        /\ record' = [of |-> d, whole |-> FALSE]
        /\ state' = [state EXCEPT ![d] = "created"]
        /\ UNCHANGED <<by, work, clients, watch, idle, ending, relay>>
     \/ /\ ~Free
        /\ Dies(d)
        /\ UNCHANGED record
  /\ UNCHANGED <<desktop, faults>>

\* write_all goes to the file that was created, also when that has been removed.
WriteRecord(d) ==
  /\ state[d] = "created"
  /\ record' = IF record.of = d THEN [record EXCEPT !.whole = TRUE] ELSE record
  /\ state' = [state EXCEPT ![d] = "serving"]
  /\ UNCHANGED <<by, work, clients, watch, idle, ending, relay, desktop, faults>>

\* The work of a daemon ends by itself.
EndWork(d) ==
  /\ Up(d) /\ work[d]
  /\ work' = [work EXCEPT ![d] = FALSE]
  /\ UNCHANGED <<record, state, by, clients, watch, idle, ending, relay, desktop, faults>>

\* Variant: a connection stays in the table when its application has ended.
GoneNever == {}

\* The connections whose application has ended.
Ended == {n \in Launches : n # launch \/ app = "off"}

Disconnect(d) ==
  /\ Up(d) /\ clients[d] \intersect Ended # {}
  /\ clients' = [clients EXCEPT ![d] = @ \ Ended]
  /\ UNCHANGED <<record, state, by, work, watch, idle, ending, relay, desktop, faults>>

\* spawn_idle_watchdog: client_count ...  The first check is 30 s after the start, when the
\* launch that started the daemon polls no more.
WatchClients(d) ==
  /\ Up(d) /\ ~watch[d] /\ ~(app = "poll" /\ by[d] = launch)
  /\ IF clients[d] = {}
     THEN watch' = [watch EXCEPT ![d] = TRUE] /\ UNCHANGED idle
     ELSE idle' = [idle EXCEPT ![d] = 0] /\ UNCHANGED watch
  /\ UNCHANGED <<record, state, by, work, clients, ending, relay, desktop, faults>>

\* ... and then alive_session_count and routing_is_running.
WatchWork(d) ==
  /\ state[d] = "serving" /\ watch[d]
  /\ watch' = [watch EXCEPT ![d] = FALSE]
  /\ IF ~work[d] /\ idle[d] + 1 = IdleChecks
     THEN /\ record' = NoRecord /\ state' = [state EXCEPT ![d] = "leaving"]
          /\ UNCHANGED idle
     ELSE /\ idle' = [idle EXCEPT ![d] = IF work[d] THEN 0 ELSE @ + 1]
          /\ UNCHANGED <<record, state>>
  /\ UNCHANGED <<by, work, clients, ending, relay, desktop, faults>>

\* The thread of an accepted Shutdown, 200 ms later; it does not look again.
EndShutdown(d) ==
  /\ state[d] = "serving" /\ ending[d]
  /\ record' = NoRecord /\ state' = [state EXCEPT ![d] = "leaving"]
  /\ UNCHANGED <<by, work, clients, watch, idle, ending, relay, desktop, faults>>

\* process::exit, which follows the removal of the record.
Exit(d) ==
  /\ state[d] = "leaving"
  /\ Dies(d)
  /\ UNCHANGED <<record, desktop, faults>>

Crash(d) ==
  /\ state[d] \in {"starting", "created", "serving", "leaving"} /\ crashes < MaxCrashes
  /\ Dies(d)
  /\ crashes' = crashes + 1 /\ struck' = launch
  /\ UNCHANGED <<record, desktop, timeouts>>

-----------------------------------------------------------------------------
AppStep ==
  \/ ReadRecord \/ Connect \/ ConnectFails \/ RemoveStale \/ KeepClient \/ ListOld \/ Ask
  \/ AskFails \/ Wait \/ Spawn \/ Poll \/ GiveUp \/ QuitShutdown
DaemonStep(d) == CreateRecord(d) \/ WriteRecord(d) \/ EndShutdown(d) \/ Exit(d)
UserStep == Launch \/ StartWork \/ UpgradeIfIdle \/ Quit \/ AppEnds

Next ==
  \/ AppStep \/ PageList \/ UserStep \/ ConnectTimesOut
  \/ \E d \in Daemons :
       \/ DaemonStep(d) \/ Disconnect(d) \/ WatchClients(d) \/ WatchWork(d)
       \/ EndWork(d) \/ Crash(d)
       \/ \E r \in Reports : Report(d, r) \/ CacheReport(d, r)

Spec == Init /\ [][Next]_vars

\* Programs run on, the page goes on listing every few seconds; what the user and the
\* terminals do, and what fails, is up to them.
Fairness ==
  /\ WF_vars(AppStep) /\ WF_vars(PageList)
  /\ \A d \in Daemons :
       /\ WF_vars(DaemonStep(d)) /\ WF_vars(Disconnect(d))
       /\ WF_vars(WatchClients(d)) /\ WF_vars(WatchWork(d))
       /\ \A r \in Reports : WF_vars(CacheReport(d, r))

FairSpec == Spec /\ Fairness

-----------------------------------------------------------------------------
(* Properties *)

\* As long as no running daemon was given up as a zombie, a daemon that serves is the one
\* the record names: no removal hits the record of a successor, and no two serve.
RecordNamesServer ==
  timeouts = 0 => \A d \in Daemons : state[d] = "serving" => record = [of |-> d, whole |-> TRUE]

\* A launch of the application comes by a daemon, whatever earlier launches and daemons
\* have left behind, unless it meets an unfinished record, or a daemon dies under it.
AppServed ==
  app = "start" ~> \/ app \in {"ready", "broken", "off"}
                   \/ (app = "unserved" /\ (struck = launch \/ timeouts > 0))

\* No daemon without work stays for ever when no application is connected, whatever
\* connections ended applications have left in its table.
IdleEnds ==
  \A d \in Daemons :
    []<>~(state[d] = "serving" /\ ~work[d] /\ (app = "off" \/ launch \notin clients[d]))

\* A report that found no client does not stay in the daemon while an application is
\* connected, also when it reached the cache after the client's first list.
BacklogSent ==
  \A d \in Daemons, r \in Reports :
    []<>~(/\ r \in deciding[d] \union ToSet(cache[d])
          /\ app = "ready" /\ target = d /\ Connected(d))
=============================================================================
