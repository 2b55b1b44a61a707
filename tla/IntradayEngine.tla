--------------------------- MODULE IntradayEngine ---------------------------
(***************************************************************************)
(* One trading day of the backtest: the indices of the day one after the   *)
(* other, each replayed over its 15-minute timestamps, with at most one    *)
(* trade, its stop and targets judged on recorded bars, and the capital    *)
(* and the day's result carried from index to index.                       *)
(*                                                                         *)
(* Prices are whole ticks, so rounding to ticks keeps them.  A bar is      *)
(* drawn when it is looked at: of the one that opens at the timestamp only *)
(* its open matters, of the one before it also its high and low; a close   *)
(* may be any price.  Bars and timestamps may be missing from the files.   *)
(* The alert that is entered is the same for every trade; the losses in a  *)
(* row and their cooldown are left out, for they are looked at only after  *)
(* a trade, when no other is entered that day.                             *)
(***************************************************************************)
EXTENDS Integers

CONSTANTS
    Indices,         \* number of indices traded on the day
    ExitModes,       \* exit modes: subset of {"multi_lot", "single_lot"}
    Lots,            \* lots_per_trade, of one unit each
    SingleLotTarget, \* single_lot_exit_target
    Trigger,         \* high of the alert candle
    AlertRange,      \* alert_range
    FirstStop,       \* the strategy's stop
    StopDistance,    \* safe_sl_max_loss over the quantity
    MaxGap,          \* max_slippage_pct of the trigger
    PositionPct,     \* max_position_pct, in percent of the capital
    Slip,            \* slippage_ticks_per_side
    LossLimit,       \* max_loss_per_day
    Capitals,        \* capital at the start of the day
    LastEntry,       \* timestamp of the end of the trading window
    SquareOff,       \* timestamp of auto_square_off
    LastBar,         \* bound: timestamps of the day are 0..LastBar
    Prices           \* bound: the prices of opens, highs, lows and closes

ASSUME IntradayEngineAssumption ==
    /\ Indices \in Nat \ {0} /\ Lots \in Nat \ {0} /\ AlertRange \in Nat \ {0}
    /\ ExitModes \subseteq {"multi_lot", "single_lot"}
    /\ SingleLotTarget \in 1..3
    /\ {Trigger, FirstStop, StopDistance, MaxGap, PositionPct, Slip, LossLimit} \subseteq Nat
    /\ Capitals \subseteq Nat /\ Prices \subseteq Nat
    /\ {LastEntry, SquareOff, LastBar} \subseteq Nat
    /\ FirstStop <= Trigger \* _calculate_effective_sl takes a distance off the trigger

None == -1 \* no bar

VARIABLES
    exitMode,  \* strategy.exit_mode
    index,     \* the index being replayed
    stage,     \* where its loop is
    t,         \* the timestamp
    previous,  \* open of the bar before it, if on file
    current,   \* open of the bar that starts at it, if on file
    latest,    \* open of the latest bar on file
    trade,     \* active_trade
    traded,    \* has_traded_today
    dayPnl,    \* current_day_pnl
    recorded,  \* sum of pnl over self.trades
    capital,   \* self.capital
    started,   \* history: capital at the start
    abandoned  \* history: a trade was neither closed nor recorded

barVars == <<previous, current, latest>>
bookVars == <<dayPnl, recorded, capital>>
replayVars ==
    <<exitMode, index, stage, t, barVars, trade, traded, bookVars, started, abandoned>>

NoTrade == [open |-> FALSE]
Holding == trade.open

Bars(o) == {b \in [open : {o}, high : Prices, low : Prices] :
                b.low <= o /\ o <= b.high}

-----------------------------------------------------------------------------
(* _manage_active_trade: what becomes of a trade on one bar.  The proceeds *)
(* of its sales gather in "credit".                                        *)

Larger(a, b) == IF a > b THEN a ELSE b
Smaller(a, b) == IF a < b THEN a ELSE b

Target(level) == Trigger + level * AlertRange
Scaled == exitMode = "multi_lot" /\ Lots >= 3
FinalTarget == IF Scaled THEN 3 ELSE SingleLotTarget

\* _apply_exit_slippage
SoldAt(price) == price - Slip

WholeLotSold(tr, price) == \* variant: pays for the whole quantity again
    [tr EXCEPT !.open = FALSE,
               !.credit = @ + SoldAt(price) * Lots,
               !.pnl = (SoldAt(price) - tr.entry) * tr.left + tr.partial]

\* The rest is sold and the trade closed.
RestSold(tr, price) ==
    [tr EXCEPT !.open = FALSE,
               !.credit = @ + SoldAt(price) * tr.left,
               !.pnl = (SoldAt(price) - tr.entry) * tr.left + tr.partial]

StopAfter(tr, level) == IF level = 1 THEN tr.entry ELSE Target(1)

\* TP1 and TP2: one lot is sold if the trade is scaled out, the stop moves.
LevelTaken(tr, level, price) ==
    LET moved == [tr EXCEPT !.hits = level, !.sl = StopAfter(tr, level)]
    IN  IF ~Scaled THEN moved
        ELSE [moved EXCEPT !.left = @ - 1,
                           !.credit = @ + SoldAt(price),
                           !.partial = @ + SoldAt(price) - tr.entry]

FromTheFirst(tr, level) == level <= FinalTarget \* variant: levels are taken again
Ahead(tr, level) == tr.hits < level /\ level <= FinalTarget

TakesTarget(tr, bar, level) ==
    IF ~tr.open \/ ~Ahead(tr, level) \/ bar.high < Target(level) THEN tr
    ELSE IF level = FinalTarget THEN RestSold(tr, Larger(bar.open, Target(level)))
    ELSE LevelTaken(tr, level, Larger(bar.open, Target(level)))

StopTouched(tr, bar) == bar.low <= tr.sl

\* A stop trailed above the entry gives way to the final target.
FinalFirst(tr, bar) ==
    ~Scaled /\ tr.sl > tr.entry /\ bar.high >= Target(FinalTarget)

\* The loop over the levels.
TargetsTaken(tr, bar) ==
    TakesTarget(TakesTarget(TakesTarget(tr, bar, 1), bar, 2), bar, 3)

AfterBar(tr, bar) ==
    IF ~StopTouched(tr, bar) THEN TargetsTaken(tr, bar)
    ELSE IF FinalFirst(tr, bar) THEN RestSold(tr, Larger(bar.open, Target(FinalTarget)))
    ELSE RestSold(tr, Smaller(bar.open, tr.sl))

-----------------------------------------------------------------------------
(* The loop over the indices (run) and over the timestamps of one of them  *)
(* (process_expiry_day).                                                   *)

ReplayInit ==
    /\ exitMode \in ExitModes
    /\ index = 1 /\ stage = "index" /\ t = 0
    /\ previous = None /\ current = None /\ latest = None
    /\ trade = NoTrade /\ traded = FALSE
    /\ dayPnl = 0 /\ recorded = 0
    /\ capital \in Capitals /\ started = capital
    /\ abandoned = FALSE

LimitHit == dayPnl <= -LossLimit

ForgetBars == previous' = None /\ current' = None /\ latest' = None

\* break, or the timestamps are used up: on to the next index.
IndexOver ==
    /\ stage' = "index" /\ index' = index + 1 /\ t' = 0
    /\ traded' = FALSE
    /\ ForgetBars

\* The daily limit is reached, or there is no data for the index.
SkipIndex ==
    /\ stage = "index" /\ index <= Indices
    /\ IndexOver
    /\ UNCHANGED <<exitMode, trade, bookVars, started, abandoned>>

\* The first timestamp, at or after the start of the window.
BeginIndex ==
    /\ stage = "index" /\ index <= Indices /\ ~LimitHit
    /\ t' \in 0..LastBar
    /\ stage' = "bar"
    /\ UNCHANGED <<exitMode, index, barVars, trade, traded, bookVars, started, abandoned>>

\* The next timestamp of the spot file.  A trade that is still open when the
\* file ends is not recorded.
NextBar ==
    /\ stage = "next" /\ t < LastBar
    /\ t' \in (t + 1)..LastBar
    /\ stage' = "bar"
    /\ IF ~Holding THEN ForgetBars
       ELSE /\ IF t' = t + 1 THEN previous' = current
               ELSE previous' \in Prices \cup {None}
            /\ current' \in Prices \cup {None}
            /\ IF current' # None THEN latest' = current'
               ELSE IF t' > t + 1 THEN latest' \in Prices
               ELSE UNCHANGED latest
    /\ UNCHANGED <<exitMode, index, trade, traded, bookVars, started, abandoned>>

DataEnds ==
    /\ stage = "next"
    /\ IndexOver
    /\ trade' = NoTrade
    /\ abandoned' = (abandoned \/ Holding)
    /\ UNCHANGED <<exitMode, bookVars, started>>

\* The closed trade joins self.trades.
Record(tr) ==
    /\ recorded' = recorded + tr.pnl
    /\ dayPnl' = dayPnl + tr.pnl
    /\ capital' = capital + tr.credit
    /\ trade' = NoTrade

\* _close_trade at the close of the latest bar.
ClosedAt(price) == RestSold(trade, price)

SquaredOff ==
    /\ stage = "bar" /\ t >= SquareOff
    /\ IF Holding THEN \E close \in Prices : Record(ClosedAt(close))
       ELSE UNCHANGED <<trade, bookVars>>
    /\ IndexOver
    /\ UNCHANGED <<exitMode, started, abandoned>>

InSession == stage = "bar" /\ t < SquareOff

\* No bar before the timestamp: nothing is judged.
NotJudged ==
    /\ InSession /\ Holding /\ previous = None
    /\ stage' = "limit"
    /\ UNCHANGED <<exitMode, index, t, barVars, trade, traded, bookVars, started, abandoned>>

Judged(bar) ==
    /\ InSession /\ Holding /\ previous # None
    /\ LET tr == AfterBar(trade, bar)
       IN  IF tr.open
           THEN /\ capital' = capital + tr.credit
                /\ trade' = [tr EXCEPT !.credit = 0]
                /\ stage' = "limit"
                /\ UNCHANGED <<index, t, barVars, traded, dayPnl, recorded>>
           ELSE /\ Record(tr)
                /\ IF dayPnl' <= -LossLimit THEN IndexOver
                   ELSE stage' = "next" /\ UNCHANGED <<index, t, barVars, traded>>
    /\ UNCHANGED <<exitMode, started, abandoned>>

\* The open trade at the latest open.
MarkedToMarket == dayPnl + (latest - trade.entry) * trade.left + trade.partial

WithinLimit ==
    /\ stage = "limit" /\ MarkedToMarket > -LossLimit
    /\ stage' = "next"
    /\ UNCHANGED <<exitMode, index, t, barVars, trade, traded, bookVars, started, abandoned>>

\* Announced at the open, done at the close.
LimitClose ==
    /\ stage = "limit" /\ MarkedToMarket <= -LossLimit
    /\ \E close \in Prices : Record(ClosedAt(close))
    /\ IndexOver
    /\ UNCHANGED <<exitMode, started, abandoned>>

\* Traded already, past the window, no candidate, or _enter_trade declines.
NoEntry ==
    /\ InSession /\ ~Holding
    /\ stage' = "next"
    /\ UNCHANGED <<exitMode, index, t, barVars, trade, traded, bookVars, started, abandoned>>

\* _enter_trade: at the trigger, or at an open above it; the stop is brought
\* closer if it would lose more than safe_sl_max_loss.
Opened(fill) ==
    [open |-> TRUE, entry |-> fill, sl |-> Larger(FirstStop, fill - StopDistance),
     hits |-> 0, left |-> Lots, partial |-> 0, credit |-> 0, pnl |-> 0]

Enter(open) ==
    LET fill == (IF open > Trigger THEN open ELSE Trigger) + Slip
    IN  /\ InSession /\ ~Holding /\ ~traded /\ ~LimitHit /\ t <= LastEntry
        /\ open <= Trigger + MaxGap
        /\ fill * Lots * 100 <= capital * PositionPct /\ fill * Lots <= capital
        /\ capital' = capital - fill * Lots
        /\ trade' = Opened(fill)
        /\ traded' = TRUE
        /\ current' = open /\ previous' = None
        /\ IF open # None THEN latest' = open ELSE latest' \in Prices
        /\ stage' = "next"
        /\ UNCHANGED <<exitMode, index, t, dayPnl, recorded, started, abandoned>>

ReplayNext ==
    \/ SkipIndex \/ BeginIndex
    \/ NextBar \/ DataEnds
    \/ SquaredOff
    \/ NotJudged \/ \E bar \in Bars(previous) : Judged(bar)
    \/ WithinLimit \/ LimitClose
    \/ NoEntry \/ \E open \in Prices \cup {None} : Enter(open)

ReplaySpec == ReplayInit /\ [][ReplayNext]_replayVars

-----------------------------------------------------------------------------
(* What an exchange would have done: the price moves tick by tick, a tick  *)
(* at or below the stop sells the rest, a tick at a target fills it.       *)

AtTick(tr, price) ==
    IF ~tr.open THEN tr
    ELSE IF price <= tr.sl THEN RestSold(tr, price)
    ELSE IF tr.hits = 3 \/ price # Target(tr.hits + 1) THEN tr
    ELSE IF tr.hits + 1 = FinalTarget THEN RestSold(tr, price)
    ELSE LevelTaken(tr, tr.hits + 1, price)

Between(from, to) == IF from <= to THEN to - from ELSE from - to
Tick(from, to, i) == IF from <= to THEN from + i ELSE from - i

\* The trade after each tick of the way from one price to another.
Course(tr, from, to) ==
    LET after[i \in 0..Between(from, to)] ==
            IF i = 0 THEN tr ELSE AtTick(after[i - 1], Tick(from, to, i))
    IN  after
Walked(tr, from, to) == Course(tr, from, to)[Between(from, to)]

Executed(tr, a, b, c) == Walked(Walked(tr, a, b), b, c)

-----------------------------------------------------------------------------
(* Properties.                                                             *)

ReplayTypes ==
    /\ exitMode \in ExitModes /\ index \in 1..(Indices + 1) /\ t \in 0..LastBar
    /\ stage \in {"index", "bar", "limit", "next"}
    /\ {previous, current, latest} \subseteq Prices \cup {None}
    /\ traded \in BOOLEAN /\ abandoned \in BOOLEAN
    /\ {dayPnl, recorded, capital} \subseteq Int
    /\ Holding => /\ trade.left \in 1..Lots /\ trade.hits \in 0..2
                  /\ trade.credit = 0 /\ latest # None
                  /\ Scaled => trade.left = Lots - trade.hits

\* The books of the day agree through partial exits, stops, gaps, slippage and
\* the limit: the capital is what it was, plus the result of every recorded
\* trade, plus what an open trade has realised, less what it still holds at
\* cost; and current_day_pnl, on which the daily limit is judged, is the result
\* of the recorded trades.  A trade left open when the data end is apart
\* (EveryTradeRecorded).
BooksBalance ==
    /\ ReplayTypes
    /\ dayPnl = recorded
    /\ ~abandoned =>
         capital = started + recorded
                   + IF Holding THEN trade.partial - trade.entry * trade.left ELSE 0

\* On a bar that opens between the stop and the next target, the replay gives
\* what resting orders would have given on one of the two paths through its
\* extremes: no fill is invented, missed or taken twice, in whatever order stop
\* and targets are reached.  Apart are trades entered above their first target
\* by a gap, whose stop moves above the price.
FillsPossible ==
    InSession /\ Holding =>
        \A b \in Bars(previous) :
            trade.sl < b.open /\ b.open < Target(trade.hits + 1) /\ trade.entry < Target(1)
            => AfterBar(trade, b) \in {Executed(trade, b.open, b.low, b.high),
                                       Executed(trade, b.open, b.high, b.low)}

-----------------------------------------------------------------------------
(* Said of the program and not upheld by it.  No run checks these (README). *)

\* "auto square-off": every trade of a day is closed and recorded.
EveryTradeRecorded == ~abandoned

\* "If candle opens below SL [...] the SL-M order fills at the open price
\* (worse)": such a bar closes the trade at its open.
GapFillsStop ==
    InSession /\ Holding =>
        \A b \in Bars(previous) :
            b.open < trade.sl => AfterBar(trade, b) = RestSold(trade, b.open)

=============================================================================
