--------------------------------- MODULE Arena ---------------------------------
(***************************************************************************)
(* The Arena (scripts/run_arena.py): the supervisor that starts every      *)
(* process of the colony, refuses to go on unless the dead man's switch    *)
(* has beaten and the Wire has fetched since its boot stamp, restarts what *)
(* dies and shuts down in order.  With it the dead man's switch            *)
(* (risk/heartbeat.py), the monitor of its heartbeat in the Genesis cycle  *)
(* (risk/dms_meta_monitor.py) and, from RegimeReviews, the reviews of that *)
(* same cycle, which go on only while Genesis is alive.                    *)
(*                                                                         *)
(* Children die, Redis fails, alerts are lost, and the Arena itself may be *)
(* killed: its children then go on as strays that nobody restarts.         *)
(***************************************************************************)
EXTENDS RegimeReviews, Sequences

CONSTANTS
    Processes,      \* keys of PROCESSES
    ShutdownOrder,  \* SHUTDOWN_ORDER
    Mortal,         \* bound: the processes that die
    MaxFailures,    \* MAX_CONSECUTIVE_FAILURES of the dead man's switch
    MaxUpsets       \* bound: deaths, outages, timeouts, failed posts and stamps

ASSUME ArenaAssumption ==
    /\ {"heartbeat", "wire_scheduler", "genesis", "warden"} \subseteq Processes
    /\ ShutdownOrder \in Seq(Processes) /\ Mortal \subseteq Processes
    /\ MaxFailures \in Nat \ {0} /\ MaxUpsets \in Nat

VARIABLES
    phase,      \* where main() of the Arena is
    child,      \* the children that run
    stray,      \* processes that outlived their Arena
    serving,    \* of the heartbeat and the scheduler: those through their start
    stamped,    \* last_arena_boot_at is set
    fresh,      \* those whose timestamp is not before last_arena_boot_at
    since,      \* those that wrote theirs since the Arena started its children
    unstamped,  \* the boot stamp of this Arena failed
    old,        \* last_heartbeat_at is more than two intervals ago, or never was
    posted,     \* the last alert about the heartbeat in the Agora
    lost,       \* the alert after it could not be posted
    silent,     \* DmsMetaMonitor._currently_silent
    checked,    \* this Genesis cycle is past the meta-monitor
    failures,   \* consecutive_failures["redis"]
    alertStatus,    \* SystemState.alert_status
    redisUp, upsets

boot == <<stamped, fresh, since, unstamped>>
switch == <<serving, failures, alertStatus>>
alerts == <<silent, posted, lost>>
monitor == <<old, alerts, checked>>
arenaVars == <<reviewVars, phase, child, stray, boot, switch, monitor, redisUp, upsets>>

Alive(p) == p \in child \cup stray

ArenaTypes ==
    /\ phase \in {"off", "verify_beat", "verify_fetch", "watch", "stopping"}
    /\ child \subseteq Processes /\ stray \subseteq Processes
    /\ {serving, fresh, since} \subseteq SUBSET {"heartbeat", "wire_scheduler"}
    /\ {stamped, unstamped, old, silent, lost, checked, redisUp} \subseteq BOOLEAN
    /\ posted \in {"none", "silent", "recovered"}
    /\ failures \in 0..MaxFailures /\ alertStatus \in {"green", "red"}
    /\ upsets \in 0..MaxUpsets

ArenaInit ==
    /\ ReviewInit
    /\ phase = "off" /\ child = {} /\ stray = {}
    /\ serving = {} /\ failures = 0 /\ alertStatus = "green"
    /\ stamped = FALSE /\ fresh = {} /\ since = {} /\ unstamped = FALSE
    /\ old = TRUE /\ silent = FALSE /\ posted = "none" /\ lost = FALSE /\ checked = FALSE
    /\ redisUp = TRUE /\ upsets = 0

Upset == upsets < MaxUpsets /\ upsets' = upsets + 1

\* What a Genesis that ends leaves in memory: nothing.
GenesisEnds ==
    /\ RestartGenesis
    /\ silent' = FALSE /\ checked' = FALSE
    /\ UNCHANGED <<old, posted, lost>>

\* The processes of P end.
End(P) ==
    /\ serving' = serving \ P
    /\ failures' = IF "heartbeat" \in P THEN 0 ELSE failures
    /\ IF "genesis" \in P THEN GenesisEnds ELSE UNCHANGED <<reviewVars, monitor>>

-------------------------------------------------------------------------------
(* main() *)

\* start_process for each of P.
Started(P) == child' = child \cup P

\* _preflight_checks; what else they look at is taken to be in order.
Preflight == redisUp

\* start_arena starts one unless check_arena finds the port of a dashboard taken.
\* Bound: no second Arena beside strays other than an orderly shutdown leaves.
NoArenaRuns ==
    phase = "off" /\ \A p \in stray : \A i \in DOMAIN ShutdownOrder : ShutdownOrder[i] # p

\* The boot is stamped, which may fail with a warning, and all processes are started.
LaunchArena(stamp) ==
    /\ NoArenaRuns /\ Preflight
    /\ IF stamp THEN stamped' = TRUE /\ fresh' = {} /\ UNCHANGED upsets
       ELSE Upset /\ UNCHANGED <<stamped, fresh>>
    /\ unstamped' = ~stamp /\ since' = {}
    /\ phase' = "verify_beat" /\ Started(Processes)
    /\ UNCHANGED <<reviewVars, stray, switch, monitor, redisUp>>

\* Mutant: any heartbeat will do, of whatever boot.
VerifyAnyBeat ==
    /\ phase = "verify_beat" /\ ~old
    /\ phase' = "verify_fetch"
    /\ UNCHANGED <<reviewVars, child, stray, boot, switch, monitor, redisUp, upsets>>

\* _verify_dead_mans_switch_alive, then _verify_wire_scheduler_alive.
VerifyBeat ==
    /\ phase = "verify_beat" /\ stamped /\ "heartbeat" \in fresh
    /\ phase' = "verify_fetch"
    /\ UNCHANGED <<reviewVars, child, stray, boot, switch, monitor, redisUp, upsets>>

VerifyFetch ==
    /\ phase = "verify_fetch" /\ stamped /\ "wire_scheduler" \in fresh
    /\ phase' = "watch"
    /\ UNCHANGED <<reviewVars, child, stray, boot, switch, monitor, redisUp, upsets>>

Awaited == IF phase = "verify_beat" THEN "heartbeat" ELSE "wire_scheduler"

\* 60 seconds without what is awaited: every child is terminated.
AbortBoot ==
    /\ phase \in {"verify_beat", "verify_fetch"}
    /\ ~(stamped /\ Awaited \in fresh)
    /\ IF stamped /\ Awaited \in child THEN Upset ELSE UNCHANGED upsets
    /\ phase' = "off" /\ child' = {}
    /\ End(child)
    /\ UNCHANGED <<stray, boot, alertStatus, redisUp>>

\* Mutant: Genesis is missing from the loop.
RestartOther(p) ==
    /\ phase = "watch" /\ p \in Processes \ child /\ p # "genesis"
    /\ Started({p})
    /\ UNCHANGED <<reviewVars, phase, stray, boot, switch, monitor, redisUp, upsets>>

\* The monitor loop: a child that has died is started again, some time after its
\* restart_delay.
RestartChild(p) ==
    /\ phase = "watch" /\ p \in Processes \ child
    /\ Started({p})
    /\ UNCHANGED <<reviewVars, phase, stray, boot, switch, monitor, redisUp, upsets>>

\* SIGTERM or SIGINT ends the loop.
StopSignal ==
    /\ phase = "watch"
    /\ phase' = "stopping"
    /\ UNCHANGED <<reviewVars, child, stray, boot, switch, monitor, redisUp, upsets>>

Listed == {ShutdownOrder[i] : i \in DOMAIN ShutdownOrder}

\* The first child of SHUTDOWN_ORDER that runs is terminated, and waited for.
TerminateChild ==
    /\ phase = "stopping" /\ child \cap Listed # {}
    /\ LET first == CHOOSE i \in DOMAIN ShutdownOrder :
               ShutdownOrder[i] \in child /\ \A j \in 1..(i - 1) : ShutdownOrder[j] \notin child
       IN  child' = child \ {ShutdownOrder[first]} /\ End({ShutdownOrder[first]})
    /\ UNCHANGED <<phase, stray, boot, alertStatus, redisUp, upsets>>

\* The Arena exits: the children it does not list go on without it.
ExitArena ==
    /\ phase = "stopping" /\ child \cap Listed = {}
    /\ phase' = "off" /\ stray' = stray \cup child /\ child' = {}
    /\ UNCHANGED <<reviewVars, boot, switch, monitor, redisUp, upsets>>

\* stop_arena: the detached Arena gets no signal and its tree is killed.
StopArena ==
    /\ phase # "off"
    /\ phase' = "off" /\ child' = {}
    /\ End(child)
    /\ UNCHANGED <<stray, boot, alertStatus, redisUp, upsets>>

\* The Arena alone dies.  Bound: while it watches.
ArenaDies ==
    /\ phase = "watch"
    /\ phase' = "off" /\ stray' = stray \cup child /\ child' = {}
    /\ UNCHANGED <<reviewVars, boot, switch, monitor, redisUp, upsets>>

Die(p) ==
    /\ Alive(p) /\ Upset
    /\ child' = child \ {p} /\ stray' = stray \ {p}
    /\ End({p})
    /\ UNCHANGED <<phase, boot, alertStatus, redisUp>>

-------------------------------------------------------------------------------
(* The dead man's switch and the Wire scheduler *)

Wrote(p) == fresh' = fresh \cup {p} /\ since' = since \cup {p} /\ UNCHANGED <<stamped, unstamped>>

\* _update_heartbeat.
Beaten == Wrote("heartbeat") /\ old' = FALSE

\* The first beat needs only PostgreSQL.
FirstBeat ==
    /\ Alive("heartbeat") /\ "heartbeat" \notin serving
    /\ Beaten
    /\ serving' = serving \cup {"heartbeat"}
    /\ UNCHANGED <<reviewVars, phase, child, stray, failures, alertStatus, alerts, checked,
                   redisUp, upsets>>

\* _run_checks: all pass.
Beat ==
    /\ Alive("heartbeat") /\ "heartbeat" \in serving /\ redisUp
    /\ Beaten
    /\ failures' = 0
    /\ UNCHANGED <<reviewVars, phase, child, stray, serving, alertStatus, alerts, checked,
                   redisUp, upsets>>

\* _run_checks with Redis down: after MAX_CONSECUTIVE_FAILURES, _escalate.
CheckFails ==
    /\ Alive("heartbeat") /\ "heartbeat" \in serving /\ ~redisUp
    /\ failures' = IF failures < MaxFailures THEN failures + 1 ELSE failures
    /\ alertStatus' = IF failures' >= MaxFailures THEN "red" ELSE alertStatus
    /\ UNCHANGED <<reviewVars, phase, child, stray, serving, boot, monitor, redisUp, upsets>>

\* The Warden writes its own alert, of a treasury that is well, over that.
WardenWrites ==
    /\ Alive("warden") /\ alertStatus = "red"
    /\ alertStatus' = "green"
    /\ UNCHANGED <<reviewVars, phase, child, stray, serving, failures, boot, monitor,
                   redisUp, upsets>>

\* More than two intervals without a beat.
GrowOld ==
    /\ ~old /\ ~(Alive("heartbeat") /\ redisUp)
    /\ old' = TRUE
    /\ UNCHANGED <<reviewVars, phase, child, stray, boot, switch, alerts, checked, redisUp, upsets>>

\* cmd_run_scheduler pings Redis for its halt store and exits when it is down.
StartScheduler ==
    /\ Alive("wire_scheduler") /\ "wire_scheduler" \notin serving
    /\ IF redisUp
         THEN serving' = serving \cup {"wire_scheduler"} /\ UNCHANGED <<child, stray>>
         ELSE /\ child' = child \ {"wire_scheduler"} /\ stray' = stray \ {"wire_scheduler"}
              /\ UNCHANGED serving
    /\ UNCHANGED <<reviewVars, phase, boot, failures, alertStatus, monitor, redisUp, upsets>>

\* A tick writes last_fetch_attempt of the sources it fetches.
AttemptFetch ==
    /\ Alive("wire_scheduler") /\ "wire_scheduler" \in serving
    /\ "wire_scheduler" \notin since
    /\ Wrote("wire_scheduler")
    /\ UNCHANGED <<reviewVars, phase, child, stray, switch, monitor, redisUp, upsets>>

-------------------------------------------------------------------------------
(* The Genesis cycle *)

\* _emit.
Emit(event, sent) ==
    IF sent THEN posted' = event /\ lost' = FALSE /\ UNCHANGED upsets
            ELSE lost' = TRUE /\ Upset /\ UNCHANGED posted

Report(sent) ==
    IF old # silent THEN Emit(IF old THEN "silent" ELSE "recovered", sent)
                    ELSE sent /\ UNCHANGED <<posted, lost, upsets>>

\* Mutant: the silence is never over.
CheckHeartbeatOnce(sent) ==
    /\ Alive("genesis") /\ cycle.step = "idle" /\ ~checked /\ redisUp
    /\ checked' = TRUE
    /\ silent' = (silent \/ old)
    /\ Report(sent)
    /\ UNCHANGED <<reviewVars, phase, child, stray, boot, switch, old, redisUp>>

\* Steps 1 and 1b.  A failed health check ends the cycle before the meta-monitor;
\* DmsMetaMonitor.check alerts on a change, and remembers it whether or not the
\* alert could be posted.
CheckHeartbeat(sent) ==
    /\ Alive("genesis") /\ cycle.step = "idle" /\ ~checked /\ redisUp
    /\ checked' = TRUE
    /\ silent' = old
    /\ Report(sent)
    /\ UNCHANGED <<reviewVars, phase, child, stray, boot, switch, old, redisUp>>

\* Steps 2b to 12, of RegimeReviews.
ReviewStep ==
    /\ Alive("genesis") /\ (cycle.step = "idle" => checked)
    /\ RunCycle
    /\ checked' = FALSE
    /\ UNCHANGED <<phase, child, stray, boot, switch, old, alerts, redisUp, upsets>>

\* The scheduler's digester commits a severity 5 event.
Digest(e) ==
    /\ Alive("wire_scheduler") /\ "wire_scheduler" \in serving
    /\ InsertEvent(e)
    /\ UNCHANGED <<phase, child, stray, boot, switch, monitor, redisUp, upsets>>

-------------------------------------------------------------------------------
(* Redis (Memurai) *)

\* stop_memurai, or an outage: nothing of the colony is asked or told.
RedisFails ==
    /\ redisUp /\ Upset
    /\ redisUp' = FALSE
    /\ UNCHANGED <<reviewVars, phase, child, stray, boot, switch, monitor>>

\* start_memurai; one that fails leaves everything as it was.
RedisReturns ==
    /\ ~redisUp
    /\ redisUp' = TRUE
    /\ UNCHANGED <<reviewVars, phase, child, stray, boot, switch, monitor, upsets>>

Supervise ==
    \/ (\E stamp \in BOOLEAN : LaunchArena(stamp)) \/ VerifyBeat \/ VerifyFetch \/ AbortBoot
    \/ (\E p \in Processes : RestartChild(p))
    \/ StopSignal \/ TerminateChild \/ ExitArena

Mishap == StopArena \/ ArenaDies \/ (\E p \in Mortal : Die(p)) \/ RedisFails

Heart == FirstBeat \/ Beat \/ CheckFails
Genesis == (\E sent \in BOOLEAN : CheckHeartbeat(sent)) \/ ReviewStep

ArenaNext ==
    \/ Supervise \/ Mishap \/ RedisReturns
    \/ Heart \/ GrowOld \/ WardenWrites
    \/ StartScheduler \/ AttemptFetch \/ (\E e \in Events : Digest(e))
    \/ Genesis

\* Every process that runs goes on, the Arena polls its children every ten
\* seconds, an outage of Redis ends, and it is not always the database that fails
\* in a Genesis cycle.
ArenaFairness ==
    /\ WF_arenaVars(RedisReturns) /\ WF_arenaVars(Heart)
    /\ WF_arenaVars(StartScheduler) /\ WF_arenaVars(AttemptFetch)
    /\ \A p \in Processes : WF_arenaVars(RestartChild(p))
    /\ WF_arenaVars(VerifyBeat) /\ WF_arenaVars(VerifyFetch) /\ WF_arenaVars(AbortBoot)
    /\ SF_arenaVars(CheckHeartbeat(TRUE)) /\ WF_arenaVars(ReviewStep)
    /\ SF_arenaVars(ReviewStep /\ ConsumePending)

ArenaSpec == ArenaInit /\ [][ArenaNext]_arenaVars /\ ArenaFairness

-------------------------------------------------------------------------------
(* Properties *)

\* The Arena never watches over a colony whose dead man's switch has not beaten,
\* or whose Wire has not tried to fetch, since it started them: what an earlier
\* Arena left in the database does not count.  When the boot stamp fails it does.
BootIsVerified ==
    phase \in {"watch", "stopping"} => {"heartbeat", "wire_scheduler"} \subseteq since \/ unstamped

\* The last alert about a heartbeat that stays old says that it is silent, unless
\* its post failed: every silence is announced, not the first alone.  Redis must be
\* up: its outage stops the heartbeat, and Genesis does not get as far as the
\* meta-monitor either.
SilenceIsAnnounced ==
    old ~> ~old \/ posted = "silent" \/ lost \/ ~redisUp \/ ~Alive("genesis")

\* While an Arena watches, every severity 5 event is reviewed or given up in the
\* end: Genesis may die at any step of any cycle and is always started again.
ReviewsSettle ==
    \A e \in Events :
        (<>[](phase = "watch")) =>
            (regimeReview[e] = "pending" ~> regimeReview[e] \in {"reviewed", "failed"})

===============================================================================
