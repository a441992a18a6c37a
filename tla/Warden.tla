--------------------------------- MODULE Warden --------------------------------
(***************************************************************************)
(* The Warden and the trade gate.  The Warden process assesses the         *)
(* treasury every cycle, judges queued trade requests, escalates a changed *)
(* alert and writes it to system_state.  A second Warden object inside the *)
(* agents process reads that row before it judges a trade.  Both run       *)
(* evaluate_trade.  The database may be unreachable, the alert post may    *)
(* fail and the Warden process may restart.                                *)
(*                                                                         *)
(* Time is counted in Warden cycles.  Thresholds are per cent.             *)
(***************************************************************************)
EXTENDS Integers, Sequences, FiniteSetsExt, SequencesExt

CONSTANTS
    Agents,
    Levels,             \* the treasury values the market brings about
    Initial,            \* the treasury and its peak at the start
    CircuitBreaker, Red, Yellow,   \* config thresholds, per cent
    Window,             \* the cycles in the rolling window of "4 hours"
    MaxRequests,        \* bound: requests ever pushed to "trade_requests"
    MaxFaults           \* bound: database outages, failed posts and restarts

ASSUME WardenAssumption ==
    /\ Levels \subseteq Nat /\ Initial \in Nat \ {0}
    /\ 0 < Yellow /\ Yellow < Red /\ Red < CircuitBreaker /\ CircuitBreaker < 100
    /\ Window \in Nat \ {0} /\ MaxRequests \in Nat /\ MaxFaults \in Nat

VARIABLES
    treasury, peak,     \* SystemState.total_treasury and peak_treasury
    dbAlert,            \* SystemState.alert_status
    dbUp,               \* the database answers
    status,             \* Agent.status
    warden,             \* the Warden process
    requests, pushed,   \* queued requests in Redis, requests pushed so far
    faults,
    gate,               \* the thinking cycle in progress and its Warden
    late,               \* trades committed since alert_status left "green"
    severe              \* some assessment of the treasury was red or worse

vars == <<treasury, peak, dbAlert, dbUp, status, warden, requests,
          pushed, faults, gate, late, severe>>
state == <<treasury, peak, status>>
counts == <<requests, pushed, faults>>
history == <<late, severe>>

Alerts == {"green", "yellow", "red", "circuit_breaker"}
Severe == {"red", "circuit_breaker"}

\* A Warden object as constructed: green, no snapshots.
NewWarden == [pc |-> "idle", alert |-> "green", old |-> "green", snapshots |-> <<>>]

TypeOK ==
    /\ treasury \in Nat /\ peak \in Nat
    /\ dbAlert \in Alerts /\ dbUp \in BOOLEAN
    /\ status \in [Agents -> {"active", "frozen"}]
    /\ warden \in [pc : {"idle", "requests", "write"}, alert : Alerts, old : Alerts,
                   snapshots : Seq(Nat)]
    /\ Len(warden.snapshots) <= Window
    /\ pushed \in 0..MaxRequests /\ requests \in 0..pushed /\ faults \in 0..MaxFaults
    /\ gate \in [call : {"idle", "cycle", "approved"}, alert : Alerts, unknown : BOOLEAN]
    /\ late \in Nat /\ severe \in BOOLEAN

Init ==
    /\ treasury = Initial /\ peak = Initial
    /\ dbAlert = "green" /\ dbUp = TRUE
    /\ status = [a \in Agents |-> "active"]
    /\ warden = NewWarden
    /\ requests = 0 /\ pushed = 0 /\ faults = 0
    /\ gate = [call |-> "idle", alert |-> "green", unknown |-> FALSE]
    /\ late = 0 /\ severe = FALSE

-------------------------------------------------------------------------------
(* Helpers *)

BelowBreaker(t, p) == p > 0 /\ t * 100 < p * (100 - CircuitBreaker)

\* The alert that a cycle computes from the treasury, its peak, the snapshots
\* of the window and the alert in memory.
Assessed(t, p, snapshots, alert) ==
    LET high == Max(ToSet(snapshots))
        Fell(percent) == high > 0 /\ (high - t) * 100 >= percent * high
    IN  CASE BelowBreaker(t, p) -> "circuit_breaker"
          [] ~BelowBreaker(t, p) /\ Fell(Red) -> "red"
          [] ~BelowBreaker(t, p) /\ Fell(Yellow) /\ ~Fell(Red) -> "yellow"
          [] OTHER -> IF alert = "circuit_breaker" \/ high = 0 THEN alert ELSE "green"

\* The snapshots no older than the window.
InWindow(snapshots) ==
    SubSeq(snapshots, Max({1, Len(snapshots) - Window + 1}), Len(snapshots))

\* _refresh_alert_status_from_db: unreadable state is judged as red.
Refreshed == IF dbUp THEN dbAlert ELSE "red"

Fault == faults < MaxFaults /\ faults' = faults + 1

-------------------------------------------------------------------------------
(* The Warden process: check_cycle *)

\* Steps 1 to 4: read the state, take a snapshot, compute the alert.
Assess ==
    LET seen == InWindow(Append(warden.snapshots, treasury))
        alert == Assessed(treasury, peak, seen, warden.alert)
    IN  /\ warden.pc = "idle" /\ dbUp
        /\ warden' = [pc |-> "requests", alert |-> alert, old |-> warden.alert,
                      snapshots |-> seen]
        /\ severe' = (severe \/ alert \in Severe)
        /\ UNCHANGED <<state, dbAlert, dbUp, counts, gate, late>>

\* Step 5: evaluate_trade on a queued request refreshes alert_status first.
ProcessTradeRequest ==
    /\ warden.pc = "requests" /\ requests > 0
    /\ requests' = requests - 1
    /\ warden' = [warden EXCEPT !.alert = Refreshed]
    /\ UNCHANGED <<state, dbAlert, dbUp, pushed, faults, gate, history>>

\* Mutant: a yellow alert freezes too.
FreezeOnAnyAlert(alert) ==
    status' = [a \in Agents |-> IF alert # "green" THEN "frozen" ELSE status[a]]

\* Step 6: only a red alert or the circuit breaker does more than post.
FreezeAllAgents(alert) ==
    status' = IF alert \in Severe
              THEN [a \in Agents |-> IF status[a] = "active" THEN "frozen" ELSE status[a]]
              ELSE status

EscalateAlert ==
    /\ warden.pc = "requests" /\ requests = 0
    /\ warden.alert # warden.old
    /\ dbUp \/ warden.alert \notin Severe
    /\ FreezeAllAgents(warden.alert)
    /\ warden' = [warden EXCEPT !.pc = "write"]
    /\ UNCHANGED <<treasury, peak, dbAlert, dbUp, counts, gate, history>>

\* The post or the freeze raises: check_cycle logs the error and returns.
EscalateFails ==
    /\ warden.pc = "requests" /\ requests = 0
    /\ warden.alert # warden.old
    /\ \/ Fault
       \/ ~dbUp /\ warden.alert \in Severe /\ UNCHANGED faults
    /\ warden' = [warden EXCEPT !.pc = "idle"]
    /\ UNCHANGED <<state, dbAlert, dbUp, requests, pushed, gate, history>>

AlertUnchanged ==
    /\ warden.pc = "requests" /\ requests = 0
    /\ warden.alert = warden.old
    /\ warden' = [warden EXCEPT !.pc = "write"]
    /\ UNCHANGED <<state, dbAlert, dbUp, counts, gate, history>>

\* Mutant: the row is written only when this cycle changed the alert.
UpdateChangedAlert ==
    /\ warden.pc = "write" /\ dbUp
    /\ dbAlert' = IF warden.alert # warden.old THEN warden.alert ELSE dbAlert
    /\ late' = IF dbAlert = "green" THEN 0 ELSE late
    /\ warden' = [warden EXCEPT !.pc = "idle"]
    /\ UNCHANGED <<state, dbUp, counts, gate, severe>>

\* Step 7.
UpdateAlertStatus ==
    /\ warden.pc = "write" /\ dbUp
    /\ dbAlert' = warden.alert
    /\ late' = IF dbAlert = "green" THEN 0 ELSE late
    /\ warden' = [warden EXCEPT !.pc = "idle"]
    /\ UNCHANGED <<state, dbUp, counts, gate, severe>>

UpdateFails ==
    /\ warden.pc = "write" /\ ~dbUp
    /\ warden' = [warden EXCEPT !.pc = "idle"]
    /\ UNCHANGED <<state, dbAlert, dbUp, counts, gate, history>>

\* The process is restarted: a new Warden object.
RestartWarden ==
    /\ Fault
    /\ warden' = NewWarden
    /\ UNCHANGED <<state, dbAlert, dbUp, requests, pushed, gate, history>>

-------------------------------------------------------------------------------
(* The agents process *)

\* The scheduler starts a thinking cycle of an active agent.
StartCycle ==
    /\ gate.call = "idle"
    /\ \E a \in Agents : status[a] = "active"
    /\ gate' = [gate EXCEPT !.call = "cycle"]
    /\ UNCHANGED <<state, dbAlert, dbUp, warden, counts, history>>

\* Mutant: the alert in memory is believed.
EvaluateTradeOnCachedAlert ==
    /\ gate.call = "cycle"
    /\ gate' = [gate EXCEPT !.call = IF gate.alert = "green" THEN "approved" ELSE "idle"]
    /\ UNCHANGED <<state, dbAlert, dbUp, warden, counts, history>>

\* evaluate_trade: whatever is not green is refused or held; a green trade may
\* still fail the agent's own limits.
EvaluateTrade ==
    /\ gate.call = "cycle"
    /\ \E within \in BOOLEAN :
        gate' = [call |-> IF dbUp /\ Refreshed = "green" /\ within THEN "approved" ELSE "idle",
                 alert |-> Refreshed, unknown |-> ~dbUp]
    /\ UNCHANGED <<state, dbAlert, dbUp, warden, counts, history>>

\* The approved order is written.
CommitTrade ==
    /\ gate.call = "approved" /\ dbUp
    /\ gate' = [gate EXCEPT !.call = "idle"]
    /\ late' = late + (IF dbAlert = "green" THEN 0 ELSE 1)
    /\ UNCHANGED <<state, dbAlert, dbUp, warden, counts, severe>>

-------------------------------------------------------------------------------
(* The rest of the colony *)

SetTreasury ==
    /\ treasury' \in Levels
    /\ UNCHANGED <<peak, dbAlert, dbUp, status, warden, counts, gate, history>>

\* TreasuryManager.update_peak_treasury, every Genesis cycle.
UpdatePeakTreasury ==
    /\ dbUp /\ treasury > peak
    /\ peak' = treasury
    /\ UNCHANGED <<treasury, dbAlert, dbUp, status, warden, counts, gate, history>>

PushRequest ==
    /\ pushed < MaxRequests
    /\ pushed' = pushed + 1 /\ requests' = requests + 1
    /\ UNCHANGED <<state, dbAlert, dbUp, warden, faults, gate, history>>

DatabaseDown ==
    /\ dbUp /\ Fault
    /\ dbUp' = FALSE
    /\ UNCHANGED <<state, dbAlert, warden, requests, pushed, gate, history>>

DatabaseUp ==
    /\ ~dbUp
    /\ dbUp' = TRUE
    /\ UNCHANGED <<state, dbAlert, warden, counts, gate, history>>

-------------------------------------------------------------------------------

Cycle ==
    \/ Assess \/ ProcessTradeRequest \/ EscalateAlert \/ EscalateFails
    \/ AlertUnchanged \/ UpdateAlertStatus \/ UpdateFails

Next ==
    \/ Cycle
    \/ RestartWarden
    \/ StartCycle \/ EvaluateTrade \/ CommitTrade
    \/ SetTreasury \/ UpdatePeakTreasury \/ PushRequest
    \/ DatabaseDown \/ DatabaseUp

\* The Warden loops for ever and an outage of the database ends.
Spec == Init /\ [][Next]_vars /\ WF_vars(Cycle) /\ WF_vars(DatabaseUp)

-------------------------------------------------------------------------------
(* Properties *)

\* After alert_status leaves green, the one order that was past the gate may
\* still be written, and no other, however slow its thinking cycle is.
OneLateTrade == dbAlert # "green" => late <= 1

\* A treasury that stays below the breaker ends with the breaker in the
\* database for good, through restarts, outages and queued requests.
BreakerTrips ==
    (<>[](BelowBreaker(treasury, peak))) => (<>[](dbAlert = "circuit_breaker"))

\* Agents are frozen only if some cycle found the treasury red or worse: while
\* no request is queued, an outage of the database does not freeze the colony.
FreezesAreEarned == pushed = 0 /\ (\E a \in Agents : status[a] = "frozen") => severe

===============================================================================
