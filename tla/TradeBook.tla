------------------------------ MODULE TradeBook ------------------------------
(***************************************************************************)
(* The records that must survive the process: bot_trades.json behind the   *)
(* write-through cache of TradeTracker, and pending_entries.json.  The     *)
(* trader reads them at startup (_initialize_day), writes them in every    *)
(* operation of the session, and walks the trade list at the square-off.   *)
(* It may crash between any two writes and any write may fail.             *)
(*                                                                         *)
(* An entry is an order placed by the trader, named by a number.  The book *)
(* lists trades; an entry can be activated more than once across restarts, *)
(* so a trade is told apart by its entry and its id <<day, num>>.  Money   *)
(* is counted in units: a partial exit gains 1, a final exit gains or      *)
(* loses 1.  A process runs within one day.  A record of a corrupted file, *)
(* the kill switch and the emergency flatten are not in this module.       *)
(***************************************************************************)
EXTENDS Integers, SequencesExt

CONSTANTS
    MaxEntries, \* bound: entry orders placed
    MaxDays,    \* bound: days
    MaxCrashes, \* bound: crashes of the process
    MaxFaults,  \* bound: writes that fail
    KeepDays    \* keep_days of trim_old_closed_trades

ASSUME TradeBookAssumption ==
    /\ {MaxEntries, MaxDays} \subseteq Nat \ {0}
    /\ {MaxCrashes, MaxFaults, KeepDays} \subseteq Nat

Entries == 1..MaxEntries
None == 0

VARIABLES
    mode,     \* where run / _initialize_day has got to
    day,      \* the date
    late,     \* it is past auto_square_off
    cache,    \* tracker._cache: the trades, [active, closed]
    disk,     \* bot_trades.json
    pend,     \* pending_entries
    pendDisk, \* pending_entries.json
    resumed,  \* entries restored with a textual placed_at: never polled again
    queue,    \* entries the handler in progress has still to visit
    at,       \* index of the loop over the live list of active trades
    doing,    \* idle, or between two writes of one handler
    entry,    \* the entry that handler works on
    dailyPnl, \* daily_pnl
    sent,     \* entries sent to the broker so far
    live,     \* broker: entry orders that can still fill
    filled,   \* broker: entry orders filled
    held,     \* broker: entries whose position is open
    booked,   \* gains and losses the trader has booked today
    excused,  \* fills it knowingly left without a trade (see KnownFills)
    crashes,  \* crashes so far
    faults,   \* writes that failed so far
    unsaved   \* a crash lost a write that had failed

fileVars == <<cache, disk>>
pendVars == <<pend, pendDisk, resumed>>
loopVars == <<queue, at, doing, entry, sent>>
brokerVars == <<live, filled, held>>
ghostVars == <<excused, crashes, unsaved>>
vars == <<mode, day, late, fileVars, pendVars, loopVars, dailyPnl, brokerVars,
          booked, ghostVars, faults>>

EmptyBook == [active |-> <<>>, closed |-> <<>>]

Init ==
    /\ mode = "down" /\ day = 1 /\ late = FALSE
    /\ cache = EmptyBook /\ disk = EmptyBook
    /\ pend = {} /\ pendDisk = {} /\ resumed = {}
    /\ queue = {} /\ at = 1 /\ doing = "idle" /\ entry = None
    /\ dailyPnl = 0 /\ booked = 0
    /\ sent = 0 /\ live = {} /\ filled = {} /\ held = {}
    /\ excused = {} /\ crashes = 0 /\ faults = 0 /\ unsaved = FALSE

-----------------------------------------------------------------------------
(* trade_tracker.py                                                        *)

\* _save_data updates the cache, then the file; a failed write raises.
Saves(book) == cache' = book /\ disk' = book /\ UNCHANGED faults
SaveRaises(book) ==
    /\ faults < MaxFaults /\ faults' = faults + 1
    /\ cache' = book /\ UNCHANGED disk
SavesOrNot(book) == Saves(book) \/ SaveRaises(book)

\* save_pending_entries swallows the error.
SavesPending(set) ==
    \/ pendDisk' = set /\ UNCHANGED faults
    \/ faults < MaxFaults /\ faults' = faults + 1 /\ UNCHANGED pendDisk

AllTrades(book) == book.active \o book.closed

\* Variant: counts the active trades only.
CountsActive == Len(cache.active) + 1

NextNum == Len(cache.active) + Len(cache.closed) + 1

\* add_active_trade.
WithTrade(e) ==
    [cache EXCEPT !.active = Append(@,
        [entry |-> e, day |-> day, num |-> NextNum, partial |-> 0, pnl |-> 0,
         status |-> "OPEN"])]

\* close_trade for the trade at index i; STALE is reason STALE_RECOVERY.
WithoutTrade(i, pnl, status) ==
    [active |-> RemoveAt(cache.active, i),
     closed |-> Append(cache.closed,
                       [cache.active[i] EXCEPT !.pnl = pnl, !.status = status])]

\* update_trade with the partial profit.
WithPartial(i) == [cache EXCEPT !.active[i].partial = @ + 1]

\* Variant of clear_day_data: drops what is active.
DropsActive == [cache EXCEPT !.active = <<>>]

\* clear_day_data: what is active is archived as EXPIRED, without a pnl.
DayCleared ==
    LET expired == [i \in DOMAIN cache.active |->
                      [cache.active[i] EXCEPT !.status = "EXPIRED"]]
    IN  [active |-> <<>>, closed |-> cache.closed \o expired]

\* trim_old_closed_trades.
Recent(t) == t.day >= day - KeepDays
OnlyRecent(trades) ==
    FoldLeft(LAMBDA kept, t : IF Recent(t) THEN Append(kept, t) ELSE kept, <<>>, trades)
Trimmed == [cache EXCEPT !.closed = OnlyRecent(@)]

\* get_daily_pnl, which adds the pnl of the trades of the date.
Total(numbers) == FoldLeft(LAMBDA sum, n : sum + n, 0, numbers)
PnlToday(t) == IF t.day = day THEN t.pnl ELSE 0
GetDailyPnl(book) == Total([i \in DOMAIN book.closed |-> PnlToday(book.closed[i])])

\* Variant: forgets the partials.
FinalOnly(i, final) == final

\* What close_trade is given: the final exit and the partials before it.
TotalPnl(i, final) == final + cache.active[i].partial

-----------------------------------------------------------------------------
(* The broker.                                                             *)

BrokerFill(e) ==
    /\ e \in live
    /\ live' = live \ {e}
    /\ filled' = filled \cup {e}
    /\ held' = held \cup {e}
    /\ UNCHANGED <<mode, day, late, fileVars, pendVars, loopVars, dailyPnl,
                   booked, ghostVars, faults>>

\* An SL or target order at the broker closes the position.
BrokerExit(e) ==
    /\ e \in held
    /\ held' = held \ {e}
    /\ UNCHANGED <<mode, day, late, fileVars, pendVars, loopVars, dailyPnl,
                   live, filled, booked, ghostVars, faults>>

\* Intraday (MIS) orders and positions do not outlive the day.
NewDay ==
    /\ mode = "down" /\ day < MaxDays
    /\ day' = day + 1 /\ late' = FALSE
    /\ live' = {} /\ held' = {}
    /\ booked' = 0 /\ unsaved' = FALSE
    /\ UNCHANGED <<mode, fileVars, pendVars, loopVars, dailyPnl, filled,
                   excused, crashes, faults>>

-----------------------------------------------------------------------------
(* The end of a process: a crash, an exception out of _initialize_day, or  *)
(* the end of run.  Memory is lost.                                        *)

ProcessEnds ==
    /\ mode' = "down"
    /\ cache' = EmptyBook /\ pend' = {} /\ resumed' = {}
    /\ queue' = {} /\ at' = 1 /\ doing' = "idle" /\ entry' = None
    /\ dailyPnl' = 0 /\ UNCHANGED sent

Crash ==
    /\ mode # "down" /\ crashes < MaxCrashes
    /\ crashes' = crashes + 1
    /\ ProcessEnds
    /\ unsaved' = (unsaved \/ cache # disk)
    /\ excused' = excused \cup (resumed \ pendDisk)
                           \cup IF doing = "sent" THEN {entry} ELSE {}
    /\ UNCHANGED <<day, late, disk, pendDisk, brokerVars, booked, faults>>

-----------------------------------------------------------------------------
(* Startup: _initialize_day with _reconcile_positions.                     *)

Boot ==
    /\ mode = "down"
    /\ mode' = "reconcile"
    /\ cache' = disk
    /\ queue' = pendDisk /\ at' = 1
    /\ UNCHANGED <<day, late, disk, pendVars, doing, entry, sent, dailyPnl,
                   brokerVars, booked, ghostVars, faults>>

\* The symbol still has a price: "ACTIVE POSITION CARRIED OVER".
CarryOver ==
    /\ mode = "reconcile" /\ at <= Len(cache.active)
    /\ at' = at + 1
    /\ UNCHANGED <<mode, day, late, fileVars, pendVars, queue, doing, entry, sent,
                   dailyPnl, brokerVars, booked, ghostVars, faults>>

\* No price: the trade is closed, which shortens the list under the loop.  A
\* failed write is caught inside the loop.
CloseStale ==
    /\ mode = "reconcile" /\ at <= Len(cache.active)
    /\ SavesOrNot(WithoutTrade(at, 0, "STALE"))
    /\ at' = at + 1
    /\ UNCHANGED <<mode, day, late, pendVars, queue, doing, entry, sent, dailyPnl,
                   brokerVars, booked, ghostVars>>

TradesChecked ==
    /\ mode = "reconcile" /\ at > Len(cache.active)
    /\ mode' = "pending"
    /\ UNCHANGED <<day, late, fileVars, pendVars, loopVars, dailyPnl,
                   brokerVars, booked, ghostVars, faults>>

\* Variant: the status of a filled order is not recognised.
RecoverUnrecognised(e) ==
    /\ mode = "pending" /\ e \in queue \cap filled
    /\ queue' = queue \ {e}
    /\ UNCHANGED <<mode, day, late, fileVars, pendVars, at, doing, entry, sent,
                   dailyPnl, brokerVars, booked, ghostVars, faults>>

\* The order filled while the bot was down: the trade is activated now.
RecoverFilled(e) ==
    /\ mode = "pending" /\ e \in queue \cap filled
    /\ SavesOrNot(WithTrade(e))
    /\ queue' = queue \ {e}
    /\ UNCHANGED <<mode, day, late, pendVars, at, doing, entry, sent, dailyPnl,
                   brokerVars, booked, ghostVars>>

\* The order is still live: back into pending_entries, as read from JSON.
RecoverLive(e) ==
    /\ mode = "pending" /\ e \in queue \cap live
    /\ queue' = queue \ {e}
    /\ pend' = pend \cup {e} /\ resumed' = resumed \cup {e}
    /\ UNCHANGED <<mode, day, late, fileVars, pendDisk, at, doing, entry, sent,
                   dailyPnl, brokerVars, booked, ghostVars, faults>>

\* Cancelled or rejected at the broker.
RecoverDead(e) ==
    /\ mode = "pending" /\ e \in queue \ (live \cup filled)
    /\ queue' = queue \ {e}
    /\ UNCHANGED <<mode, day, late, fileVars, pendVars, at, doing, entry, sent,
                   dailyPnl, brokerVars, booked, ghostVars, faults>>

\* The status cannot be had (or a filled order is gap-aborted): no record.
RecoverSkipped(e) ==
    /\ mode = "pending" /\ e \in queue
    /\ queue' = queue \ {e}
    /\ excused' = excused \cup {e}
    /\ UNCHANGED <<mode, day, late, fileVars, pendVars, at, doing, entry, sent,
                   dailyPnl, brokerVars, booked, crashes, unsaved, faults>>

PendingCleared ==
    /\ mode = "pending" /\ queue = {}
    /\ SavesPending({})
    /\ mode' = "clear"
    /\ UNCHANGED <<day, late, fileVars, pend, resumed, loopVars, dailyPnl,
                   brokerVars, booked, ghostVars>>

ClearDay ==
    /\ mode = "clear"
    /\ Saves(DayCleared)
    /\ mode' = "trim"
    /\ UNCHANGED <<day, late, pendVars, loopVars, dailyPnl, brokerVars, booked,
                   ghostVars>>

\* Written only when something was trimmed; then daily_pnl is read back.
Trim ==
    /\ mode = "trim"
    /\ IF Trimmed = cache THEN UNCHANGED <<fileVars, faults>> ELSE Saves(Trimmed)
    /\ dailyPnl' = GetDailyPnl(Trimmed)
    /\ mode' = "running"
    /\ UNCHANGED <<day, late, pendVars, loopVars, brokerVars, booked, ghostVars>>

\* A write that fails in clear_day_data or trim_old_closed_trades ends run.
InitializeRaises ==
    /\ \/ mode = "clear"
       \/ mode = "trim" /\ Trimmed # cache
    /\ faults < MaxFaults /\ faults' = faults + 1
    /\ ProcessEnds
    /\ UNCHANGED <<day, late, disk, pendDisk, brokerVars, booked, ghostVars>>

-----------------------------------------------------------------------------
(* The session.                                                            *)

Trading == mode = "running" /\ doing = "idle" /\ ~late

\* _place_pending_entry: the order is at the broker before it is recorded.
Send ==
    /\ Trading /\ sent < MaxEntries
    /\ sent' = sent + 1
    /\ live' = live \cup {sent'}
    /\ doing' = "sent" /\ entry' = sent'
    /\ UNCHANGED <<mode, day, late, fileVars, pendVars, queue, at, dailyPnl,
                   filled, held, booked, ghostVars, faults>>

Record ==
    /\ doing = "sent"
    /\ pend' = pend \cup {entry}
    /\ SavesPending(pend')
    /\ doing' = "idle" /\ entry' = None
    /\ UNCHANGED <<mode, day, late, fileVars, resumed, queue, at, sent,
                   dailyPnl, brokerVars, booked, ghostVars>>

\* _monitor_pending_entries finds the order filled and activates the trade; an
\* entry restored from JSON raises before its status is looked at.
Activate(e) ==
    /\ Trading /\ e \in (pend \cap filled) \ resumed
    /\ SavesOrNot(WithTrade(e))
    /\ doing' = "activated" /\ entry' = e
    /\ UNCHANGED <<mode, day, late, pendVars, queue, at, sent, dailyPnl,
                   brokerVars, booked, ghostVars>>

\* Slippage or gap abort: sold at once, no trade.
AbortEntry(e) ==
    /\ Trading /\ e \in (pend \cap filled) \ resumed
    /\ held' = held \ {e}
    /\ excused' = excused \cup {e}
    /\ doing' = "activated" /\ entry' = e
    /\ UNCHANGED <<mode, day, late, fileVars, pendVars, queue, at, sent,
                   dailyPnl, live, filled, booked, crashes, unsaved, faults>>

\* The entry leaves pending_entries after the trade is in the book, or after
\* the exception that adding it raised.
Untrack ==
    /\ doing = "activated"
    /\ pend' = pend \ {entry} /\ resumed' = resumed \ {entry}
    /\ SavesPending(pend')
    /\ doing' = "idle" /\ entry' = None
    /\ UNCHANGED <<mode, day, late, fileVars, queue, at, sent, dailyPnl,
                   brokerVars, booked, ghostVars>>

\* Timed out, negated, expired or rejected without a fill.
CancelEntry(e) ==
    /\ Trading /\ e \in pend /\ e \notin filled
    /\ live' = live \ {e}
    /\ pend' = pend \ {e} /\ resumed' = resumed \ {e}
    /\ SavesPending(pend')
    /\ UNCHANGED <<mode, day, late, fileVars, loopVars, dailyPnl, filled, held,
                   booked, ghostVars>>

\* TP1 or TP2 of a trade fills: profit is booked, the trade stays open.
PartialExit(i) ==
    /\ Trading /\ i \in DOMAIN cache.active
    /\ cache.active[i].partial = 0
    /\ SavesOrNot(WithPartial(i))
    /\ dailyPnl' = dailyPnl + 1 /\ booked' = booked + 1
    /\ UNCHANGED <<mode, day, late, pendVars, loopVars, brokerVars, ghostVars>>

\* SL or final target.  daily_pnl is adjusted before the book is written.
CloseTrade(i, final) ==
    /\ Trading /\ i \in DOMAIN cache.active
    /\ SavesOrNot(WithoutTrade(i, TotalPnl(i, final), "CLOSED"))
    /\ dailyPnl' = dailyPnl + final /\ booked' = booked + final
    /\ held' = held \ {cache.active[i].entry}
    /\ UNCHANGED <<mode, day, late, pendVars, loopVars, live, filled, ghostVars>>

-----------------------------------------------------------------------------
(* The square-off.  An exception sends run back to it on the next turn.    *)

\* _cancel_all_pending_entries_at_sqoff returns at once with none pending.
SqOffTime ==
    /\ mode = "running" /\ doing = "idle"
    /\ late' = TRUE
    /\ mode' = IF pend = {} THEN "squareoff" ELSE "sqcancel"
    /\ queue' = pend /\ at' = 1
    /\ UNCHANGED <<day, fileVars, pendVars, doing, entry, sent, dailyPnl,
                   brokerVars, booked, ghostVars, faults>>

\* Found filled: activated, for the loop below.
SqOffActivate(e) ==
    /\ mode = "sqcancel" /\ e \in queue \cap filled
    /\ SavesOrNot(WithTrade(e))
    /\ queue' = queue \ {e}
    /\ UNCHANGED <<mode, day, late, pendVars, at, doing, entry, sent, dailyPnl,
                   brokerVars, booked, ghostVars>>

\* Otherwise cancelled; a fill whose status could not be read, or a cancel
\* that is refused, is only logged.
SqOffCancel(e) ==
    /\ mode = "sqcancel" /\ e \in queue
    /\ queue' = queue \ {e}
    /\ \/ e \notin filled /\ live' = live \ {e} /\ UNCHANGED excused
       \/ excused' = excused \cup {e} /\ UNCHANGED live
    /\ UNCHANGED <<mode, day, late, fileVars, pendVars, at, doing, entry, sent,
                   dailyPnl, filled, held, booked, crashes, unsaved, faults>>

SqOffCleared ==
    /\ mode = "sqcancel" /\ queue = {}
    /\ pend' = {} /\ resumed' = {}
    /\ SavesPending({})
    /\ mode' = "squareoff"
    /\ UNCHANGED <<day, late, fileVars, loopVars, dailyPnl, brokerVars, booked,
                   ghostVars>>

\* One turn of "for trade in active_trades": the list is live, and close_trade
\* takes the trade out of it.
SquareOff(final, sold) ==
    /\ mode = "squareoff" /\ at <= Len(cache.active)
    /\ Saves(WithoutTrade(at, TotalPnl(at, final), "CLOSED"))
    /\ held' = IF sold THEN held \ {cache.active[at].entry} ELSE held
    /\ dailyPnl' = dailyPnl + final /\ booked' = booked + final
    /\ at' = at + 1
    /\ UNCHANGED <<mode, day, late, pendVars, queue, doing, entry, sent, live,
                   filled, ghostVars>>

SquareOffRaises(final, sold) ==
    /\ mode = "squareoff" /\ at <= Len(cache.active)
    /\ SaveRaises(WithoutTrade(at, TotalPnl(at, final), "CLOSED"))
    /\ held' = IF sold THEN held \ {cache.active[at].entry} ELSE held
    /\ dailyPnl' = dailyPnl + final /\ booked' = booked + final
    /\ mode' = "running" /\ at' = 1
    /\ UNCHANGED <<day, late, pendVars, queue, doing, entry, sent, live, filled,
                   ghostVars>>

SessionEnds ==
    /\ mode = "squareoff" /\ at > Len(cache.active)
    /\ mode' = "ended"
    /\ UNCHANGED <<day, late, fileVars, pendVars, loopVars, dailyPnl,
                   brokerVars, booked, ghostVars, faults>>

Exit ==
    /\ mode = "ended"
    /\ ProcessEnds
    /\ unsaved' = (unsaved \/ cache # disk)
    /\ UNCHANGED <<day, late, disk, pendDisk, brokerVars, booked, excused,
                   crashes, faults>>

-----------------------------------------------------------------------------
Startup ==
    \/ Boot \/ CarryOver \/ CloseStale \/ TradesChecked
    \/ \E e \in Entries : \/ RecoverFilled(e) \/ RecoverLive(e)
                          \/ RecoverDead(e) \/ RecoverSkipped(e)
    \/ PendingCleared \/ ClearDay \/ Trim \/ InitializeRaises

Session ==
    \/ Send \/ Record \/ Untrack
    \/ \E e \in Entries : Activate(e) \/ AbortEntry(e) \/ CancelEntry(e)
    \/ \E i \in Entries : PartialExit(i) \/ \E final \in {-1, 1} : CloseTrade(i, final)

SessionEnd ==
    \/ SqOffTime \/ SqOffCleared \/ SessionEnds \/ Exit
    \/ \E e \in Entries : SqOffActivate(e) \/ SqOffCancel(e)
    \/ \E final \in {-1, 1}, sold \in BOOLEAN :
          SquareOff(final, sold) \/ SquareOffRaises(final, sold)

Next ==
    \/ Startup \/ Session \/ SessionEnd
    \/ \E e \in Entries : BrokerFill(e) \/ BrokerExit(e)
    \/ NewDay \/ Crash

Spec == Init /\ [][Next]_vars

-----------------------------------------------------------------------------
(* Properties.                                                             *)

Modes == {"down", "reconcile", "pending", "clear", "trim", "running",
          "sqcancel", "squareoff", "ended"}
Trade == [entry : Entries, day : 1..MaxDays, num : Nat \ {0}, partial : 0..1,
          pnl : -1..2, status : {"OPEN", "CLOSED", "STALE", "EXPIRED"}]

Book == [active : Seq(Trade), closed : Seq(Trade)]

\* Types, with what the lists hold: active trades are OPEN, closed ones are not.
TypeOK ==
    /\ mode \in Modes /\ day \in 1..MaxDays /\ late \in BOOLEAN
    /\ {cache, disk} \subseteq Book
    /\ \A book \in {cache, disk} :
         /\ \A i \in DOMAIN book.active : book.active[i].status = "OPEN"
         /\ \A i \in DOMAIN book.closed : book.closed[i].status # "OPEN"
    /\ pend \subseteq Entries /\ pendDisk \subseteq Entries /\ resumed \subseteq pend
    /\ queue \subseteq Entries /\ at \in Nat \ {0}
    /\ doing \in {"idle", "sent", "activated"} /\ entry \in Entries \cup {None}
    /\ {dailyPnl, booked} \subseteq Int
    /\ sent \in 0..MaxEntries
    /\ {live, filled, held, excused} \subseteq SUBSET Entries
    /\ live \cap filled = {} /\ held \subseteq filled
    /\ crashes \in 0..MaxCrashes /\ faults \in 0..MaxFaults /\ unsaved \in BOOLEAN

GaveUp == {"STALE", "EXPIRED"}

\* No two trades that a session opened share a trade_id ("Generate unique
\* trade ID"), although the number is a count of records and startups trim the
\* records.  Records that a startup gave up are left out: a trade recovered at
\* startup is numbered before that startup trims the list.
UniqueIds ==
    /\ TypeOK
    /\ \A book \in {cache, disk} :
         LET trades == AllTrades(book)
         IN  \A i, j \in DOMAIN trades :
               /\ i # j
               /\ trades[i].day = trades[j].day /\ trades[i].num = trades[j].num
               => \E t \in {trades[i], trades[j]} : t.status \in GaveUp

\* Across crashes and failed writes the file forgets no trade younger than
\* keep_days, and never reopens or revalues one it has recorded as closed.
SameTrade(t, u) == t.entry = u.entry /\ t.day = u.day /\ t.num = u.num
KeepsClosed ==
    \A i \in DOMAIN disk.closed : Recent(disk.closed[i])
        => \E j \in DOMAIN disk'.closed : disk'.closed[j] = disk.closed[i]
KeepsActive ==
    \A i \in DOMAIN disk.active :
        \E j \in DOMAIN AllTrades(disk') :
            SameTrade(AllTrades(disk')[j], disk.active[i])
FileForgetsNothing == [][KeepsClosed /\ KeepsActive]_vars

\* A restart recovers the day's result: unless a crash lost a write that had
\* failed, daily_pnl is what the day's processes booked, less the partial
\* profits of the trades that startups gave up.
Up == mode \in {"running", "sqcancel", "squareoff", "ended"}
LostPartial(t) == IF t.day = day /\ t.status \in GaveUp THEN t.partial ELSE 0
LostPartials(book) ==
    Total([i \in DOMAIN book.closed |-> LostPartial(book.closed[i])])
PnlSurvives == Up /\ ~unsaved => booked = dailyPnl + LostPartials(cache)

\* Every open position has a record, whatever the crashes, as long as writes
\* succeed: its entry is pending, or a trade of the book; except for an order
\* whose recording a crash preempted, an entry that a startup resumed but took
\* off the file before another crash (PendingOnFile), a status that could not
\* be read at startup or at the square-off, and a cancel refused there.
Recorded(e) ==
    \/ e \in pend
    \/ \E i \in DOMAIN AllTrades(cache) : AllTrades(cache)[i].entry = e
KnownPositions ==
    Up /\ faults = 0 /\ doing = "idle"
        => \A e \in held : Recorded(e) \/ e \in excused

\* "Square off active trades", "Time to exit all remaining positions": when
\* the session ends no trade is active.
SessionEndsFlat == mode = "ended" => cache.active = <<>>

-----------------------------------------------------------------------------
(* Said of the program and not upheld by it.  No run checks these (README). *)

\* "ACTIVE POSITION CARRIED OVER ... Resuming monitor.": a trade found active
\* or activated at startup whose position is still open is still monitored in the session.
ResumesMonitoring ==
    [][mode = "clear" /\ mode' = "trim" =>
         \A i \in DOMAIN cache.active :
            cache.active[i].entry \in held =>
              \E j \in DOMAIN cache'.active : SameTrade(cache'.active[j], cache.active[i])]_vars

\* "Persist to disk for crash recovery": unless a write failed, an entry that is
\* pending in the session is in pending_entries.json.
PendingOnFile ==
    mode = "running" /\ doing = "idle" /\ faults = 0 => pend \subseteq pendDisk

=============================================================================
