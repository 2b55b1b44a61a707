------------------------------ MODULE Session ------------------------------
(***************************************************************************)
(* The main loop of LiveTrader.run from the first pass to the end of the   *)
(* session: the kill file, the heartbeat with its disconnect policy, the   *)
(* trading hours, the square-off, the daily loss limit, the halt of the    *)
(* market, and the except clause that lets a pass that raised be followed  *)
(* by the next one.  What the scan and the monitors do is in the modules   *)
(* SignalScan, PendingEntry and ExitOrders; here they place entries, turn  *)
(* them into trades and close trades, in any way, and may raise.           *)
(*                                                                         *)
(* A trade is a number, in the order in which trades are opened; an entry  *)
(* order only counts.  A call of the broker succeeds or fails at each use. *)
(***************************************************************************)
EXTENDS Naturals, SequencesExt

CONSTANTS
    FlattenAfter,  \* disconnect_emergency_threshold_mins
    HaltAfter,     \* failed NIFTY quotes in a row that are taken for a halt
    LongPass,      \* bound: minutes that a pass takes, with its sleep
    SqPasses,      \* bound: passes that fit between square-off and market close
    MaxTrades,     \* bound: trades opened in the session
    MaxFaults      \* bound: writes that fail

\* The 15 minutes before the close hold more passes than writes fail.
ASSUME SessionAssumption ==
    /\ {FlattenAfter, HaltAfter, LongPass, SqPasses, MaxTrades} \subseteq Nat \ {0}
    /\ MaxFaults \in Nat /\ SqPasses > MaxFaults + 1

VARIABLES
    pc,           \* where the pass has got to
    period,       \* what the clock says
    now,          \* what it said when the pass began
    late,         \* passes begun in the square-off period
    due,          \* a heartbeat interval has gone by since the last heartbeat
    blind,        \* minutes since client.last_success_at
    reconnecting, \* _is_reconnecting
    fails,        \* _consecutive_halt_failures, up to HaltAfter
    killFile,     \* KILL_SWITCH_FILE exists
    pending,      \* number of pending entries
    queue,        \* those that the cancel loop has still to visit
    active,       \* the tracker's list of active trades
    at,           \* index of a loop over that list
    opened,       \* trades opened so far
    exits,        \* exits asked of the broker client for each trade
    why,          \* what ends the session
    faults        \* writes that failed so far

clockVars == <<period, now, late>>
linkVars == <<due, blind, reconnecting>>
bookVars == <<pending, active, opened, exits>>
loopVars == <<queue, at, why>>
vars == <<pc, clockVars, linkVars, fails, killFile, bookVars, loopVars, faults>>

Periods == {"before", "open", "sqoff", "after"}
Trades == 1..MaxTrades

Init ==
    /\ pc = "top" /\ period \in Periods /\ now = period /\ late = 0
    /\ due = FALSE /\ blind = 0 /\ reconnecting = FALSE
    /\ fails = 0 /\ killFile \in BOOLEAN
    /\ active = <<>> /\ opened = 0 /\ exits = [t \in Trades |-> 0]
    /\ pending \in 0..MaxTrades
    /\ queue = 0 /\ at = 1 /\ why = "none" /\ faults = 0

-----------------------------------------------------------------------------
(* The tracker: the cache changes, then the file is written, or raises.    *)

Fault == faults < MaxFaults /\ faults' = faults + 1

FileFirst(new, next, raised) == \* variant: a failed write leaves the old list
    \/ active' = new /\ pc' = next /\ UNCHANGED faults
    \/ UNCHANGED active /\ pc' = raised /\ Fault
Saves(new, next, raised) ==
    /\ active' = new
    /\ \/ pc' = next /\ UNCHANGED faults
       \/ pc' = raised /\ Fault

\* _activate_trade_from_pending and close_trade.
Activates(next) ==
    /\ opened < MaxTrades /\ opened' = opened + 1
    /\ Saves(Append(active, opened'), next, "sleep")
    /\ UNCHANGED exits
Closes(i, next, raised) ==
    /\ i \in DOMAIN active
    /\ exits' = [exits EXCEPT ![active[i]] = @ + 1]
    /\ Saves(RemoveAt(active, i), next, raised)
    /\ UNCHANGED opened

-----------------------------------------------------------------------------
(* The broker.                                                             *)

SellsAll == exits' = [t \in Trades |-> exits[t] + (IF Contains(active, t) THEN 1 ELSE 0)]

\* A call that succeeds resets last_success_at.
Calls == blind' \in {0, blind}

\* _get_ltp_cached: the price of a trade, when it is there, clears the flag too.
PricesRead ==
    \/ UNCHANGED reconnecting
    \/ {active, active'} # {<<>>} /\ blind' = 0 /\ reconnecting' = FALSE

\* _is_market_open: the quote is there, is missing, or cannot be had.
Quote ==
    \/ fails' = 0 /\ blind' = 0
    \/ fails' = Min({fails + 1, HaltAfter}) /\ Calls
Halted == fails' >= HaltAfter

-----------------------------------------------------------------------------
(* Top of the pass: kill file and heartbeat.                               *)

BeginPass ==
    /\ pc = "top"
    /\ now' = period
    /\ late' = IF period = "sqoff" /\ late <= SqPasses THEN late + 1 ELSE late

\* The file is removed first, if that is possible.
KillSwitch ==
    /\ BeginPass /\ killFile
    /\ killFile' \in BOOLEAN
    /\ pc' = "cancel" /\ why' = "kill" /\ queue' = pending
    /\ UNCHANGED <<period, linkVars, fails, bookVars, at, faults>>

NoHeartbeat ==
    /\ BeginPass /\ ~killFile /\ ~due
    /\ pc' = "hours"
    /\ UNCHANGED <<period, linkVars, fails, killFile, bookVars, loopVars, faults>>

UnlessReconnecting == blind > FlattenAfter /\ ~reconnecting \* variant: under the wrong flag
FlattenDue == blind > FlattenAfter

Heartbeat ==
    /\ BeginPass /\ ~killFile /\ due
    /\ due' = FALSE
    /\ pc' = IF FlattenDue THEN "flatten"
             ELSE IF blind > 1 /\ ~reconnecting THEN "resync" ELSE "check"
    /\ UNCHANGED <<period, blind, reconnecting, fails, killFile, bookVars,
                   loopVars, faults>>

\* _emergency_flatten: the trades are closed in the tracker, whose errors are
\* caught, and the kill file is written; without a trade it returns at once.
\* The client drops its market orders (see ExitOrders).
Flatten ==
    /\ pc = "flatten"
    /\ SellsAll /\ active' = <<>>
    /\ \/ /\ pc' = "ended" /\ why' = "flatten"
          /\ killFile' = (active # <<>>) /\ UNCHANGED faults
       \/ /\ active # <<>> /\ Fault
          /\ pc' = "sleep" /\ UNCHANGED <<killFile, why>>
    /\ UNCHANGED <<clockVars, linkVars, fails, pending, opened, queue, at>>

\* _reconnect_resync: the flag is cleared if this one quote is there.
ResyncVerified ==
    /\ pc = "resync"
    /\ reconnecting' = FALSE /\ blind' = 0
    /\ pc' = "sanitize" /\ at' = 1
    /\ UNCHANGED <<clockVars, due, fails, killFile, bookVars, queue, why, faults>>

ResyncUnverified ==
    /\ pc = "resync"
    /\ reconnecting' = TRUE /\ Calls
    /\ pc' = "check"
    /\ UNCHANGED <<clockVars, due, fails, killFile, bookVars, loopVars, faults>>

\* _sanitize_restored_state over the live list; what it raises is caught.
SanitizePasses ==
    /\ pc = "sanitize" /\ at <= Len(active)
    /\ at' = at + 1
    /\ UNCHANGED <<pc, clockVars, linkVars, fails, killFile, bookVars, queue,
                   why, faults>>
SanitizeCloses ==
    /\ pc = "sanitize" /\ Closes(at, "sanitize", "check")
    /\ at' = at + 1
    /\ UNCHANGED <<clockVars, linkVars, fails, killFile, pending, queue, why>>
SanitizeEnds ==
    /\ pc = "sanitize" /\ at > Len(active)
    /\ pc' = "check"
    /\ UNCHANGED <<clockVars, linkVars, fails, killFile, bookVars, loopVars, faults>>

\* The market check of the heartbeat only warns and writes a checkpoint.
HeartbeatCheck ==
    /\ pc = "check" /\ Quote
    /\ pc' = "hours"
    /\ UNCHANGED <<clockVars, due, reconnecting, killFile, bookVars, loopVars, faults>>

-----------------------------------------------------------------------------
(* The guards of the pass.                                                 *)

\* The hours are read anew, the square-off time is compared with now.
OutsideHours ==
    /\ pc = "hours" /\ period \in {"before", "after"}
    /\ pc' = "sleep"
    /\ UNCHANGED <<clockVars, linkVars, fails, killFile, bookVars, loopVars, faults>>

Trading == pc = "hours" /\ period \in {"open", "sqoff"}

HaltBeforeSquareOff == \* variant: a halted market is waited out first
    /\ Trading /\ now = "sqoff"
    /\ IF fails >= HaltAfter THEN pc' = "sleep" /\ UNCHANGED <<why, queue>>
       ELSE pc' = "cancel" /\ why' = "sqoff" /\ queue' = pending
    /\ UNCHANGED <<clockVars, linkVars, fails, killFile, bookVars, at, faults>>
SquareOffTime ==
    /\ Trading /\ now = "sqoff"
    /\ pc' = "cancel" /\ why' = "sqoff" /\ queue' = pending
    /\ UNCHANGED <<clockVars, linkVars, fails, killFile, bookVars, at, faults>>

\* _check_daily_loss_limit; the limit ends the session without the cancels.
DailyLoss ==
    /\ Trading /\ now # "sqoff"
    /\ pc' = "exit" /\ why' = "loss" /\ at' = 1
    /\ Calls
    /\ UNCHANGED <<clockVars, due, fails, killFile, bookVars, queue, faults>>
    /\ PricesRead

WithinLoss ==
    /\ Trading /\ now # "sqoff"
    /\ pc' = "market"
    /\ Calls
    /\ UNCHANGED <<clockVars, due, fails, killFile, bookVars, loopVars, faults>>
    /\ PricesRead

MarketCheck ==
    /\ pc = "market" /\ Quote
    /\ pc' = IF Halted THEN "sleep" ELSE "work"
    /\ UNCHANGED <<clockVars, due, reconnecting, killFile, bookVars, loopVars, faults>>

-----------------------------------------------------------------------------
(* The end of the session.                                                 *)

\* _cancel_all_pending_entries_at_sqoff: one that is found filled is activated.
CancelEntry ==
    /\ pc = "cancel" /\ queue > 0
    /\ queue' = queue - 1
    /\ Calls
    /\ UNCHANGED <<pc, clockVars, due, reconnecting, fails, killFile, bookVars,
                   at, why, faults>>
CancelFindsFilled ==
    /\ pc = "cancel" /\ queue > 0
    /\ queue' = queue - 1
    /\ Activates("cancel")
    /\ Calls
    /\ UNCHANGED <<clockVars, due, reconnecting, fails, killFile, pending, at, why>>
CancelEnds ==
    /\ pc = "cancel" /\ queue = 0
    /\ pending' = 0
    /\ pc' = "exit" /\ at' = 1
    /\ UNCHANGED <<clockVars, linkVars, fails, killFile, active, opened, exits,
                   queue, why, faults>>

\* Square-off and daily loss walk the live list and close what they sell.
ExitTrade ==
    /\ pc = "exit" /\ why \in {"sqoff", "loss"} /\ Closes(at, "exit", "sleep")
    /\ at' = at + 1
    /\ Calls
    /\ UNCHANGED <<clockVars, due, reconnecting, fails, killFile, pending, queue, why>>

ExitEnds ==
    /\ pc = "exit" /\ why \in {"sqoff", "loss"} /\ at > Len(active)
    /\ pc' = "ended"
    /\ UNCHANGED <<clockVars, linkVars, fails, killFile, bookVars, loopVars, faults>>

\* The kill switch sells and leaves the tracker as it is.
KillExits ==
    /\ pc = "exit" /\ why = "kill"
    /\ SellsAll
    /\ pc' = "ended"
    /\ UNCHANGED <<clockVars, linkVars, fails, killFile, pending, active, opened,
                   loopVars, faults>>

-----------------------------------------------------------------------------
(* The work of a pass: one thing that matters to the session, or nothing,  *)
(* as when the scan or a monitor raises before it has changed anything.    *)

Works ==
    /\ pc = "work"
    /\ UNCHANGED <<clockVars, due, fails, killFile, loopVars>>

PlaceEntry ==
    /\ Works
    /\ opened + pending < MaxTrades /\ pending' = pending + 1
    /\ blind' = 0
    /\ pc' = "sleep"
    /\ UNCHANGED <<active, opened, exits, faults>>
    /\ PricesRead

\* A filled entry leaves pending_entries after its trade has been saved; if that
\* raised, a full fill leaves it all the same and a partial one stays.
ActivateEntry ==
    /\ Works /\ pending > 0
    /\ Activates("sleep") /\ blind' = 0
    /\ pending' = pending - 1 \/ (faults' # faults /\ pending' = pending)
    /\ PricesRead

\* An entry that lapsed, was negated or was rejected.
LoseEntry ==
    /\ Works /\ pending > 0 /\ pending' = pending - 1 /\ Calls
    /\ pc' = "sleep"
    /\ UNCHANGED <<active, opened, exits, faults>>
    /\ PricesRead

CloseTrade ==
    /\ Works
    /\ \E i \in DOMAIN active : Closes(i, "sleep", "sleep")
    /\ blind' = 0
    /\ UNCHANGED pending
    /\ PricesRead

NothingDone ==
    /\ Works /\ Calls
    /\ pc' = "sleep"
    /\ UNCHANGED <<bookVars, faults>>
    /\ PricesRead

-----------------------------------------------------------------------------
(* Between passes, and around them.                                        *)

\* The sleeps of the loop, and the time that the calls of the pass took.
Wake ==
    /\ pc = "sleep" /\ pc' = "top"
    /\ \E d \in 0..LongPass : blind' = blind + d /\ due' = (due \/ d > 0)
    /\ UNCHANGED <<clockVars, reconnecting, fails, killFile, bookVars, loopVars, faults>>

\* The clock reaches 9:15, 15:15 and 15:30.
Clock ==
    /\ pc # "ended" /\ period # "after"
    /\ period = "sqoff" => late > SqPasses
    /\ period' = CASE period = "before" -> "open" [] period = "open" -> "sqoff"
                   [] period = "sqoff" -> "after"
    /\ UNCHANGED <<pc, now, late, linkVars, fails, killFile, bookVars, loopVars, faults>>

\* touch KILL_SWITCH_FILE
TouchKillFile ==
    /\ pc = "sleep" /\ ~killFile /\ killFile' = TRUE
    /\ UNCHANGED <<pc, clockVars, linkVars, fails, bookVars, loopVars, faults>>

-----------------------------------------------------------------------------
HeartbeatSteps ==
    \/ NoHeartbeat \/ Heartbeat \/ Flatten \/ ResyncVerified \/ ResyncUnverified
    \/ SanitizePasses \/ SanitizeCloses \/ SanitizeEnds \/ HeartbeatCheck

Guards == OutsideHours \/ SquareOffTime \/ DailyLoss \/ WithinLoss \/ MarketCheck

Ending ==
    \/ KillSwitch \/ CancelEntry \/ CancelFindsFilled \/ CancelEnds
    \/ ExitTrade \/ ExitEnds \/ KillExits

Work == PlaceEntry \/ ActivateEntry \/ LoseEntry \/ CloseTrade \/ NothingDone

Pass == HeartbeatSteps \/ Guards \/ Ending \/ Work \/ Wake

Next == Pass \/ Clock \/ TouchKillFile

Spec == Init /\ [][Next]_vars

\* The loop goes on and so does the clock.
FairSpec == Spec /\ WF_vars(Pass) /\ WF_vars(Clock)

-----------------------------------------------------------------------------
(* Properties.                                                             *)

\* Type invariant.
TypeOK ==
    /\ pc \in {"top", "flatten", "resync", "sanitize", "check", "hours", "market",
              "cancel", "exit", "work", "sleep", "ended"}
    /\ {period, now} \subseteq Periods /\ late \in 0..(SqPasses + 1)
    /\ {due, reconnecting, killFile} \subseteq BOOLEAN
    /\ blind \in Nat /\ fails \in 0..HaltAfter
    /\ pending \in 0..MaxTrades /\ queue \in 0..MaxTrades
    /\ active \in Seq(1..opened) /\ at \in Nat \ {0}
    /\ opened \in 0..MaxTrades /\ exits \in [Trades -> Nat]
    /\ why \in {"none", "kill", "sqoff", "loss", "flatten"}
    /\ faults \in 0..MaxFaults

\* "if bot is blind for too long": the trader does not run without an answer
\* from the broker for longer than the threshold, the pass that crosses it and
\* one more for each write of the kill file that fails.  No guard, halt,
\* exception or resync that did not get through keeps the heartbeat from it
\* (types included).
BlindIsBounded == TypeOK /\ blind <= FlattenAfter + LongPass * (1 + MaxFaults)

\* Whatever ends it, a trade is exited once: the loop does not sell it again
\* when the pass that sold it raised and is repeated, when the heartbeat, a
\* monitor and an end of the session meet, or when the file could not be
\* written; and no trade leaves the list of active trades without its exit.
ExitOnce ==
    \A t \in 1..opened : exits[t] <= 1 /\ (exits[t] = 0 => Contains(active, t))

\* A session that is running before the close of the market ends: failed
\* writes, halts, outages and stuck flags do not carry it past the square-off.
SessionEnds == (pc # "ended" /\ period # "after") ~> pc = "ended"

=============================================================================
