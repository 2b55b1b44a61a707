# A verification project for the RSI 15-minute expiry breakout trader

The repository is an automated trader of Indian index options (NIFTY, SENSEX,
BANKNIFTY). A 15-minute candle whose RSI crosses 60 raises an *alert* on an option
symbol; the trader places a stop-market BUY above the alert candle (a *pending
entry*), turns its fill into a *trade* protected by a stop-loss order (SL) and
targets (TP1-TP3), and is flat at the end of the day. It trades the contract that
expires next, on any trading day; `trade_only_on_expiry`, which `config.yaml` 90
ships as false, restricts it to the days on which a contract expires. It trades
real money through the Groww API from one Python thread.

The modules here describe the live trader (`src/live/live_trader.py`), what it
is built on, and the replay of its strategy on history. TLC checks them on small
instances, TLAPS proves what matters most for every value of the constants. All
source paths below are relative to `src/`.

    ExpiryCalendar      which contract expires when, and what is traded on a day
    MCExpiryCalendar    its instance: five years of days, the code's self tests
    CandleFeed          from polled prices and candle files to the bar scanned
    SignalScan          the alerts of the strategy and the entries placed for them
    MCSignalScan        its instance: the options of an index are symmetric
    Portfolio           which alerts become entries; the risk gates
    EntrySlot           what the entry handling promises for one index
    PendingEntry        one entry order against a hostile broker; implements EntrySlot
    ExitOrders          the stop and the targets of one trade, to its close
    TradeBook           the records on disk, crashes, startup, square-off
    Session             the main loop: what may end the session, and what raises
    BrokerClient        limiter, retries and re-authentication under every call
    IntradayEngine      the backtest: one trading day replayed bar by bar

`CandleFeedProofs`, `SignalScanProofs`, `PendingEntryProofs`, `TradeBookProofs`,
`SessionProofs` and `BrokerClientProofs` prove the safety properties of the module
they are named after. `SelectionProofs` holds those of what is traded (`Portfolio` and
`ExpiryCalendar`), `ExitProofs` those of the exit of a trade, live (`ExitOrders`)
and replayed (`IntradayEngine`). See section 5.

`PROJECT.json` maps every definition to the lines it stands for and lists the
runs, the mutants, the findings, the hazards and the theorems.

## 1. Inventory

**Threads and sharing.** The live trader runs on the main thread:
`LiveTrader.run` (2804) loops over session guards, order monitor, trade monitor
and strategy scan. The one exception is the scan's fetch of the spot candles
(923-958), which a `ThreadPoolExecutor` runs for all indices at once: its threads
meet in the client's rate limiter. The concurrency that matters otherwise is with
the *exchange*, which moves between any two broker calls, and with *crashes*,
which separate any two writes.

| Component | State | Operations | Talks to |
|---|---|---|---|
| Entry order life cycle: `live/live_trader.py` 1213-2003, 2639 | `pending_entries` (symbol to order id, `placed_at`, quantity) | place, poll/timeout, re-check, activate, cancel on NEGATED/EXPIRED, cancel at the square-off | broker calls; consumes the alert; adds the trade; saves the pending file |
| Alert selection and risk gates: 550, 836-1160, 1361-1470, 2689 | `consecutive_losses`, `circuit_breaker_active`, `daily_pnl` | scan, candidate per index, correlation limit, exposure cap, loss limit, breaker | strategy, tracker, entry life cycle |
| Trade book: `execution/trade_tracker.py` | `_cache` (active, closed, metadata), `bot_trades.json`, `pending_entries.json` | add, update, close, clear day, trim, daily P&L, save/load pending | every handler; read at startup |
| Startup: `_initialize_day` 240, `_reconcile_positions` 357 | all of the above | load, reconcile trades and entries with the broker, clear the day, trim | tracker, broker, strategy |
| Exit management: 2133-2776, `execution/order_manager.py` | `sl_order_id`, `target_order_ids`, `trail_state`, `remaining_qty` of a trade | SL polling, target polling, trailing, SL re-placement, market close | broker, tracker, breaker |
| Session control: `run` 2804-3223 | `last_api_success`, day flags, breaker | square-off, kill switch, emergency flatten, reconnect, daily-loss shutdown | all |
| RSI alerts: `strategy/expiry_rsi_breakout.py` | `state` per symbol: alert candle, age, last processed time | `check_signal`, `consume_alert`, export, import | scan; `strategy_state.json` |
| Candle builder: `utils/candle_builder.py` | the bars and the forming candle per symbol | `feed`, warm-up, restore, missed candles | LTP polling, candle state files, data-gap breaker |
| Market data: `data/` | CSV files per symbol | refresh from the broker, merge, load | spot polling, warm-up, backtest |
| Groww client: `core/` | SDK object, limiter's timestamps and lock | order and data calls with retry, re-authentication | everything |
| Sizing and exit plans: `order_manager.py`, `_calculate_effective_sl` | none | lot split, SL price | activation |
| Calendars, lot sizes: `utils/` | none | trading days, expiries, nearest contract, lot size by date | startup, symbols, backtest |
| Backtest: `backtest/intraday_engine.py` | `capital`, `trades`, `current_day_pnl`, the active trade | walk over days and indices, entry, exits, daily limit | strategy, calendars, CSV files |
| Reports, notifications, entry point, scripts, studies | own | output, argument and lock handling | not modelled (section 6) |

What is hard about each, and what makes it correct:

* *Entry orders.* A status is stale as soon as it was read; cancels race fills;
  orders fill in pieces; three different handlers may find the same fill.
  Correct: nothing is sold that was not bought, one trade per entry order, an
  entry that was dropped can no longer fill, every unit bought has a stop, a
  filled entry is eventually a trade and an unfilled one eventually resolved.
* *Risk gates.* The limits are counted over two structures updated one after
  the other, by several indices in one scan. Correct: one position per index,
  the limits hold through any order of events, slots go by priority, the
  breaker stops entries.
* *Trade book and startup.* Cache and file differ after a failed write; the
  records must be enough to find every position after a crash. Correct:
  recorded trades are not lost or revalued, ids are unique, the day's result
  survives, open positions are still managed.
* *Exit management.* No OCO at the broker: SL and targets are separate orders
  and both may fill; fills are found out of order; partial target fills are
  reported cumulatively. Correct: the quantities sold never exceed the
  position, P&L counts each fill once, the SL covers what remains.
* *Session control.* The square-off, kill switch, emergency flatten and loss
  shutdown each close everything by a path of their own, and an exception in one
  of them starts the pass again. Correct: each trade is exited once, the trader
  does not run blind, the session ends.
* *Alerts.* Age is counted in candles that may be missing or repeated; the
  strategy's file and the entries' file are written one after the other, and read
  and removed far apart by a startup that may itself crash. Correct: an alert lives
  its validity, a bar is traded once, a crash restores an entry together with its
  alert.
* *Candles.* A bar is made of whatever prices were polled, joined to bars from
  two files. Correct: bars built from prices come in order and once, a bar is
  scanned in time or the symbol is halted, and only a gap halts it.
* *Broker client.* A retry repeats what may have been done; threads sleep inside
  a lock. Correct: the rate holds, the caller is told the truth, an expired
  session is replaced.
* *Calendars.* Two functions decide by different rules whether a day is an
  expiry, over holidays and nine rule changes. Correct: both agree with the
  exchanges' rule on every day, and an index that is traded has a contract.
* *Backtest.* One bar may reach the stop and several targets, files have gaps.
  Correct: money is neither lost nor invented, fills are possible ones.

The hazards, each at its line, are listed in `PROJECT.json` with the properties
that would catch them, or a note saying why none does.

## 2. Plan

In order of what can lose money first: `PendingEntry` with `EntrySlot` and its
refinement, `Portfolio`, `TradeBook`, `ExitOrders`, `SignalScan`, `Session`,
`CandleFeed`, `BrokerClient`, `ExpiryCalendar`, `IntradayEngine`. All are modelled
and checked, and every safety property that a run checks, the refinement
included, is proved. Liveness is checked only (section 5).

## 3. What is modelled, and how it corresponds to the code

### PendingEntry

One index, live mode. `pending` is the index's key in `pending_entries`, `aged` is
the age test on `placed_at` (30 s), `alert` says the strategy has not consumed the
alert, `trades`, `managed` and `sold` count what activations did per entry order,
`how` why the entry left the dictionary. `st`, `filled` and `cxl` are the
exchange's.

A handler is not atomic: every broker call is a step, its answer is kept in
`seen`, and the exchange may move before the handler acts on it. `pc` says
where the handler in progress is. The actions by code:

| Code (`live/live_trader.py`) | Actions |
|---|---|
| `_place_pending_entry` 1361 | `PlaceEntry` |
| `_monitor_pending_entries` 1733: poll and timeout | `PollSees`, `PollError`, `TimeoutCancelOk`, `TimeoutCancelFails`, `RecheckSees`, `RecheckError` |
| its branches on the status | `KeepWaiting`, `FilledActivate`, `PartialActivate`, `PartialBadPrice`, `DeadActivate`, `DeadDrop` |
| `_cancel_with_retry` 2639 | `TrimCancel`, `TrimCheck` |
| `_cancel_pending_entry` 1213 | `NegateBegin`, `NegateFilled`, `NegateCancelOk`, `NegateCancelFails` |
| `_cancel_all_pending_entries_at_sqoff` 1318 | `SqOffBegin`, `SqOffFilled`, `SqOffCancel` |
| `_activate_trade_from_pending` 1471 | the records `Activations(q)`, applied by `Booked` and `Consumed` |

The exchange (`Fill`, `Reject`, `CancelSettles`, and the answers to a status
call or a cancel) is external: it is modelled from how the code uses it. What
it may do wrong is the variable `faults`, chosen initially from `FaultModels`.
The activation is one step: its own calls (exit, three SL attempts, targets) are summed
up by their outcome. The paper-trading branch is not modelled.

### Portfolio

The scan visits one index at a time, by priority, and offers its best candidate
(any of them: the distance to the spot price is data). `Consider(i)` has one
disjunct per way the code answers: `SkipBusy`, `SkipCorrelated`, `Declined`
(daily loss limit, balance, size), `Failed` (the alert is consumed), `Place`.
What becomes of an entry afterwards is one step (`Activate`,
`ActivateNotSaved`, `Lapse`, `Drop`); PendingEntry has the steps it summarises.
Closes (`CloseLosing`, `CloseWinning`) are `_update_circuit_breaker`. The count
of losses is capped at `MaxLosses`, since the code only compares it with that.

`TradeOptType` answers "missing" for every trade, because `trade_record` has no
`opt_type` field: that is what `_check_correlation_limit` reads.

### TradeBook

`cache` and `disk` are `tracker._cache` and `bot_trades.json`, `pend` and
`pendDisk` are `pending_entries` and `pending_entries.json`. Each write may
fail (`SavesOrNot`): the tracker has then updated its cache already. `Crash`
may come between any two steps, and a handler with two writes is two steps
(`Send`/`Record`, `Activate`/`Untrack`). Startup runs in the code's order:
`Boot`, the loop over active trades (`CarryOver`, `CloseStale`), the pending
entries (`RecoverFilled`, `RecoverLive`, `RecoverDead`, `RecoverSkipped`),
`PendingCleared`, `ClearDay`, `Trim`. The square-off is a loop with an index
over the live list, as Python iterates. A restored entry is in `resumed`: its
`placed_at` is text, the monitor raises on it and never looks at its status.

A unit of money is one partial exit. A process starts and ends within one day.
The failure of the first of the two writes of a partial exit changes nothing
and is left out.

### ExitOrders

One live trade from its activation. Orders are numbers: targets 1-3, then the
stops placed for it. `st`, `qty`, `filled`, `level` are the exchange's; a price
is the level it stands for (0 the first stop, 1 cost, 2 TP1), since the code
only moves the stop between these. That takes first stop < cost < TP1: an entry
filled above its own TP1 is left out. `remaining`, `trail`, `currentSl`, `slId`,
`targetIds` are fields of the trade's record, `booked` the units whose result
went into `daily_pnl` (counted up to `MaxBooked`), `sold` what the exchange
really sold, `warned` the orders the owner was told of. Handlers run on one
thread, so `pc` is the place of the one in progress: a monitor pass (`sl`,
`targets`), a stop hit (`slHit`) or a close (`closing`).

| Code | Actions |
|---|---|
| `place_partial_exits`, `_activate_trade_from_pending` | `Init` with `TargetQty` |
| `_monitor_active_trades` 2154-2191 | `TrailSingle` |
| 2280-2382, the SL | `StopFilled`, `CancelTargets`, `CloseStopped`, `StopPartial`, `StopOpen`, `StopReplaced`, `StopLost` |
| 2384-2458, the targets; `_handle_tp_hit` | `TargetSkipped`, `TargetPartial`, `TargetHit`, `TargetFinal` |
| square-off 2962, daily loss 3053, `_close_entire_position` | `BeginClose`, `CancelForClose`, `SellAndClose` |
| `_emergency_flatten`, kill switch 2855 | `EmergencyFlatten`, `KillSwitch` |

The exchange (`Fill`, `Kill`) fills any live order, the targets in the order of
their prices. A poll and the broker call it leads to are one step where the
status is final: nothing the exchange does in between changes it.
`EmergencyFlatten` sells nothing: it calls `place_order` without a trading
symbol, which the client answers with None (`core/groww_client.py` 409).

### EntrySlot

The abstract specification of the entry handling: an index has one slot, an
order takes it, buys, has what it bought taken over by a trade or a market exit,
and leaves once, with an outcome; one that lapsed buys nothing more. There are no
polls, cancels or statuses in it. `PendingEntry.ImplementsSlot` is the refinement
mapping (`INSTANCE EntrySlot WITH slot <- pending, ...`), checked in
`entry_faults`. From the moment the trade file could not be written `EntrySlot`
promises nothing, because the code then may activate an entry twice.

### SignalScan

The strategy's `state` per option symbol of an index (`strat`: bar of the alert,
age in candles, last processed bar), the trader's `last_processed_candle_time`
(`seen`), and the entry placed for an alert. A closed bar is abstracted to what
the strategy makes of it: thin, an RSI cross that passes the filters, a close below
the low of the alert.

| Code | Actions |
|---|---|
| `_process_strategy_logic` 836-1160, `check_signal` | `NewBar`, `StartScan`, `AskOnly`, `AskAndCancel` |
| 1090-1158 and `_place_pending_entry` | `NothingPlaced`, `AlertConsumed`, `EntryPlaced` |
| monitor, closes | `Resolve`, `TradeCloses` |
| `save_pending_state`, `save_strategy_state`, halt checkpoint | `WritePending`, `WriteStrategy`, `Checkpoint` |
| process start, `_reconcile_positions` 357-376: `import_state`, the file removed | `Restart` |
| 396-455: the broker is asked about each saved entry | `Reconcile` (`Resumed`, `Filled`, or dropped) |
| 457-461: the file of entries is cleared | `StartupDone` |

The two files of a handler are two steps, so that a crash can fall between them.
A startup is as many steps as it has entries to ask about: it removes the
strategy's file before the first of these calls and clears the entries' file after
the last, and a `Restart` may come in between. The symbols are told apart by
nothing in the code, and `MCSignalScan` declares their permutations a symmetry.

### CandleFeed

One underlying and one option. The clock `now` counts polls, `Polls` of them to
a bar; an outage is a poll without prices. `spotFile` and `optFile` say how much
of each bar's interval the row in the CSV file has seen; `bars`, `forming` and
`cache` are the builder's history, forming candle and state file; `broken` is the
data-gap breaker. A pass is `PollSpot` (`_poll_candle_close`), `Scan` (the gates
of `_process_strategy_logic`), `PollPrices` (`_poll_option_ltps` and the
builder's `feed` with its gap cases `Extend`, `OpensFirst`, `Closes`); `Start` is
warm-up, `Restart` a new process, which finds the files only. `Held` is a pass that
neither scans nor polls, because the market seems halted (`live/live_trader.py`
3140-3153) or something raised: a bar closed before stays in
`_pending_closed_bars` and waits. `SaveHistory` is the write of the state file,
which may fail and leave the older one. `Merge` is `_save_dataframe`: a row that is
there wins over the downloaded one.

`Track` and `UpdateUniverse` are `_update_option_universe`. `Restored` takes the
first bar of each date of the state file. The gap is then always filled from
`warmup_start`, a week back: `restore_state` has turned the dates into objects
(`utils/candle_builder.py` 129), on which `fromisoformat` raises into a bare
`except` (`live/live_trader.py` 674). A row that the state file lacks goes behind
every restored bar, however old it is.

### Session

`run` from the first pass to the end of the session. `pc` is the place within a
pass: `top` (kill file, heartbeat), `flatten`, `resync`, `sanitize`, `check`,
`hours`, `market`, `work`, `sleep`, and `cancel`/`exit` for a path that ends the
session (`why` says which). `period` is the clock, `now` what it said when the
pass began, `blind` the minutes since `last_api_success`. Any call may fail, and
a write of the tracker may raise (`Saves`), which leads to the `except` clause of
the loop and the next pass. `KillSwitch`, `Heartbeat`, `Flatten`, `Resync...`,
`Sanitize...`, `HeartbeatCheck`, `OutsideHours`, `SquareOffTime`, `DailyLoss`,
`WithinLoss`, `MarketCheck` are the guards in the code's order; `CancelEntry`,
`CancelFindsFilled`, `ExitTrade`, `KillExits`, ... the loops of the ending; `Works`
stands for scan and monitors, which place entries, activate and close.
`PricesRead` is the price of an active trade, read for the loss limit or by a
monitor: `_get_ltp_cached` 495 clears the reconnect flag too.

### BrokerClient

Every call goes `Begin` (or `BeginAuthenticates`), through the limiter
(`Acquire`, `Throttle`, `WakeUp`: the `_RateLimiter` of the client, time stamps
under a lock, slept on while the lock is held), to the broker's `Api`
(`Accepted`, `AnswerLost`, `Outage`, `Refused`, `Unauthorized`), and back into
`_safe_call` (`Success`, `Retry`, `Exhausted`, `Reauthenticate`,
`ReauthenticationFails`, `Raises`). `bound` is the session of the SDK object
whose method the call carries. Reading the clock and appending to the list are
taken as one instant.

### ExpiryCalendar and MCExpiryCalendar

Days are numbers from 1 January 2020, the first day of the lot size table; until
2099 every fourth year is a leap year, and `MonthOf` is the month that a day lies in.
Holidays are a parameter, given the code's table by the run; change dates of the rules and
lot sizes are the code's own tables. `ShortClosures` assumes that the exchanges
are closed for at most `MaxClosure` (four) days in a row, which TLC evaluates on the
code's holidays: `_prev_trading_day` goes back as far as it must, but
`_is_adjusted_weekly_expiry` looks only six days ahead and relies on it.
`IsExpiryDay` (is the day an expiry) and `ExpiryForDate` (which contract a day
trades) are the two functions that decide by different rules; `today` walks over
the calendar (`WalkSpec`, by `NextDay`), `Settle` being what the day's startup
derives: the expiring indices, the contract of each, and the indices taken on
(`Taken`). `onlyOnExpiry` is `trade_only_on_expiry`. Without it all indices are
taken on, live on whatever day the trader is started, in the backtest on trading
days; with it all that expire in the backtest, and live those of them that the
broker's list of expiries does not deny (`live/live_trader.py` 204-228). The
code's own self tests and start-up assertions are `ASSUME`s of `MCExpiryCalendar`.

### IntradayEngine

The backtest of one day, its indices one after another as in the code
(`process_expiry_day`, which also replays the days without an expiry).
Prices are ticks, bars are drawn as they are needed (`previous` is the open of
the bar just over, which `Judged` completes by any high and low), the alert is the same
each time. `AfterBar` is `_manage_active_trade`; `NextBar`, `DataEnds`,
`SquaredOff`, `NotJudged`, `Judged`, `WithinLimit`, `LimitClose`, `NoEntry`,
`Enter` are the body of `process_expiry_day`, `SkipIndex` and `BeginIndex` the
loop around it (`ReplaySpec`; `stage` is the place in it). `Executed` is the reference
definition: what orders resting at the exchange give on a path that the price walks
tick by tick (`Course`), from the open to one extreme and on to the other. The stop
distance is at most the trigger (`FirstStop <= Trigger`), as
`_calculate_effective_sl` takes it off the trigger price. The circuit
breaker and the cooldown after losses of the code never act, since an index trades once
a day; they are left out.

### How they fit

`ExpiryCalendar` says which indices a day trades, live (`Settle`) and in
`IntradayEngine`. `CandleFeed` ends where `SignalScan` begins: the bar handed to
the strategy. `SignalScan` raises the alerts that `Portfolio` selects from;
`PendingEntry` is one of the entries that `Portfolio` and `SignalScan` see as one
step (`Activate`/`Lapse`, `Resolve`), and implements `EntrySlot`. `ExitOrders`
starts where its activation ends, with the record that `TradeBook` keeps, and its
closes are `TradeBook`'s. `Session` runs all of these as `Works` and owns the
paths that end them. `BrokerClient` is under every broker call: what the others
take as "a call that answers, fails, or did it all the same" is what its `Api` and
`SafeCall` steps produce.

## 4. Runs

`PROJECT.json` names the properties of each. Passing runs:

* `entry_faults`: two entries of three units, two cancel retries. Three units
  let an order grow between two reads while partial; two entries let a later one
  start after every end of the first; two retries exercise both branches of the
  retry test. Three fault models cover together all ten faults. No unit sold that
  was not bought (`NeverOversold`), no second trade for one order
  (`OneTradePerEntry`), dropped entries settled (`LapsedIsSettled`), no bought
  unit without cover when orders fill whole, cancels are final and exits are
  accepted (`NoUnprotectedUnits`), and the slot's promises (`ImplementsSlot`).
* `entry_liveness`: one entry of two units under `FairSpec`: a filled entry
  leaves the monitor as a trade, an unfilled one is resolved by its timeout.
* `admission`: all three indices, both directions, one strike, limits of one
  entry per direction, two premiums, two losses: every limit can be reached and
  exceeded.
* `recovery`: two entries over two days with a crash, a failed write and
  `KeepDays = 0`, so that trimming happens on the second day. Two entries make
  ids collide and loops skip if they can; one crash separates any two writes
  and startup repeats after the exit of the first day too.
* `exits`: four lots of one unit, so that the last target has one more than the
  others; single-lot exit at the third target, so that the stop is trailed
  twice; one re-placement of the stop. Three fault models cover together all
  eight faults. The stop covers what is held (`RemainderCovered`) and only rises
  (`StopOnlyRises`), a closed trade is sold (`ClosedSoldAll`), booked units were
  sold (`BookedWasSold`), no live order is left without a warning
  (`ClosedOrWarned`), filled stops and last targets are noticed
  (`FilledExitCloses`).
* `candles`: five bars of two polls, a history of two bars, one restart: gaps of
  one to three missing bars, histories restored, filled and trimmed, closed bars
  that wait out a halt. No bar built from prices is before an older one, and only
  the interval in which the option was taken up may be there twice
  (`OwnBarsInOrder`); the data-gap breaker stops the scan of a bar that is too old
  and is on for a gap only (`BreakerTracksGaps`).
* `signals`: two options of an index, three bars, an alert valid for one, two
  crashes: alerts that expire, entries that lapse and are followed by others, a
  crash between any two writes, and another one in the startup that follows or in
  what the first has left. An alert lives its validity (`AlertLives`), a
  breakout bar is traded once (`BarUsedOnce`), entry and alert come back together
  (`RestoredTogether`).
* `calendar`: every day from 2022, before the first change of a rule, to the end of
  2026, the last year of the holiday table, with `trade_only_on_expiry` and
  without. The day test agrees with the exchanges' rule (`ExpiryRecognised`), the
  forward search finds the nearest expiry (`NearestExpiry`), and an index that is
  traded has a contract that is a real expiry and not over, under the flag that
  very day (`TradesRealContracts`).
* `session`: two trades, two failed writes, at least four passes between the
  square-off and the close: one for each failure, one that succeeds, and one more. A
  trade is exited once (`ExitOnce`), blindness is bounded (`BlindIsBounded`), a
  session ends (`SessionEnds`).
* `broker`: two threads, two calls in a window of two ticks, two retries: calls
  wait for the limiter together, and retry before and after a
  re-authentication. Any window stays within the budget (`RateHolds`), the
  caller is told what happened (`AnswerTells`), an expired session is replaced
  (`SessionHeals`).
* `backtest`: two indices, five timestamps, three lots (one for each target),
  both exit modes, eight prices below, at and between stop, entry and targets,
  and above the last one, a loss limit that one trade can reach. Money balances
  (`BooksBalance`), fills are those of resting orders (`FillsPossible`).

One run shows a disagreement with what the repository says of itself
(`findings` quotes the lines): `square_off`, the loop over the live list skips
every other active trade.

Deadlock checking is off: a session ends and bounded entries, days and crashes
run out, so every instance stops. Each property of a passing run has a mutant,
a plausible slip in a mapped definition that makes TLC report it violated; the
mutated forms are the definitions marked *variant* in the modules. Where a module's
type invariant is not a property of its own it is a conjunct of the first
invariant of the run.

**Said of the program and not upheld.** These are stated at the end of the
modules; TLC refutes each when it is named in the module's configuration
(`MonthlyExpiryTraded` in that of `MCExpiryCalendar`,
`BarUsedOnceEver` in that of `MCSignalScan`). They have no run of their own.

* `PendingEntry.NegationLeavesNoPosition`: an entry negated while partly filled
  is cancelled and forgotten, with units bought and no trade (1231).
* `Portfolio.DirectionLimit`: active trades do not count against the direction
  limit, as their records have no `opt_type` (1680). `Portfolio.BreakerHolds`: a
  winning close re-arms the breaker in the same session (2719).
* `TradeBook.ResumesMonitoring`: startup announces that it resumes a position
  and then archives its trade as EXPIRED (347). `TradeBook.PendingOnFile`:
  startup restores a live entry in memory and empties the file (458).
* `ExitOrders.RemainingIsUnsold`: the cumulative quantity of a partly filled
  target is subtracted from `remaining_qty` at every poll (2405).
  `ExitOrders.FlattenSells`: the emergency flatten closes records and sells nothing.
* `CandleFeed.HistoryInTimeOrder`: the gap "from last known bar" is filled from a
  week back, and older rows go behind the restored ones (674).
  `CandleFeed.NoScanBehindGap`: a bar that waited while the market was halted is
  scanned before a price can trip the breaker (3140).
  `CandleFeed.ConfirmedIsFinal`: `drop_duplicates` keeps the first row, the
  forming candle as first downloaded (`data/historical_downloader.py` 181).
  `CandleFeed.StarvedNotScanned`: `get_closed_df` drops the column the STARVED
  guard reads (`utils/candle_builder.py` 214).
* `SignalScan.BarUsedOnceEver`: the metadata is replaced at each save, so processed
  bars do not survive a restart (`execution/trade_tracker.py` 78).
* `BrokerClient.OneOrderPerCall`: `_safe_call` sends an order again whose answer
  was lost. `BrokerClient.RetriesWithNewSession`: the retry calls the method
  bound to the old object.
* `ExpiryCalendar.MonthlyExpiryTraded`: a monthly expiry of BANKNIFTY that a
  holiday moves off its weekday is not recognised (25 January 2023, 30 March 2026).
* `IntradayEngine.EveryTradeRecorded`: a spot file that ends before the
  square-off leaves the trade neither closed nor recorded.
  `IntradayEngine.GapFillsStop`: in single-lot mode a bar that opens below the trailed
  stop and reaches the final target is booked at the target (803).

Further divergences that were met while modelling and are visible in the
definitions: `_cancel_with_retry` counts COMPLETE as a confirmed cancel, so a close
still sells what a stop sold; a resync that fails leaves `_is_reconnecting` set,
after which no other is tried until a price is read for an active trade, or the
flatten; the kill switch and the flatten leave SL and target orders live, and a kill
file removed before an exception is a request lost; a trader started after 15:30
idles, as the idle branch comes before the square-off; while the loss gate or the
breaker is on the scan is skipped and NEGATED/EXPIRED no longer cancel entries; a
halt that the guard sees first skips the halt checkpoint of the monitors; a
heartbeat backup calls a method that is commented out (`execution/trade_tracker.py`
391). The replay differs from the live trader where it closes one lot at TP1 and TP2
(live: a third) and does not recompute SL and targets after a gap entry; both let a
stop move down when the fill is above TP1.

**Named exceptions.** `NeverOversold` and `OneTradePerEntry` except sessions in
which the trade file could not be written: the entry may then stay pending
after its trade exists. `UniqueIds` leaves out records given up at startup: a
trade recovered there is numbered before the list is trimmed. `PnlSurvives`
accounts for the partial profits of given-up trades, which are lost to
`daily_pnl`, and excepts a crash after a failed write. `KnownPositions` lists in
`excused` the windows it excepts: a crash between sending and recording an
order, an entry taken off the file at startup before a second crash, a status
that could not be read at startup or at the square-off, a cancel refused there.

In `exits`, `RemainderCovered`, `ClosedSoldAll` and `BookedWasSold` except
partial fills (see `RemainingIsUnsold`); the last two also refused market exits,
which the code reports and then closes the trade all the same, and targets that
were not placed or that the exchange cancelled, which the live monitor passes
over. `ClosedOrWarned` speaks of closes by the stop or at market: a final target
cancels the stop once, unverified and possibly under its old id, and the
emergency flatten, the kill switch and the exit after a failed re-placement
leave the trade's orders where they are. `ClosedSoldAll` does not exclude selling more
than was held: without OCO a stop and a target may both fill between two polls.

`OwnBarsInOrder` excepts the interval in which the option was taken up, of which a
downloaded row and a bar built from the prices after it may both be there, and
says nothing of the order of downloaded and restored rows. `GapHalts` leaves out
bars restored at a restart, scans that the spot close brings up again during an
outage, and bars whose scan a market halt or a raised pass deferred; the code has no
gate there. `BarUsedOnce` speaks of one process; `RestoredTogether` excepts a crash
between the two writes or within a startup, and an entry whose cancel had failed.
`TradesRealContracts` does not speak of SENSEX before its launch when it is named
without the flag. `ExitOnce` counts the exits asked for; those of the
flatten never leave the client. `AnswerTells` excepts lost answers. `ExpiryRecognised`
excepts the expiries of BANKNIFTY that a holiday moved to a day of the week of neither
of its rules, and no others (see `MonthlyExpiryTraded`). `BooksBalance` excepts
the abandoned trade. `FillsPossible` speaks of bars that open between stop and
next target and of entries below TP1; its path ends at the bar's second extreme, as
the next bar's open tells the close.

**Fairness.** `entry_liveness`, `exits`, `session` and `broker` assume some.

* Entries: the main loop polls every `order_poll_interval_seconds` and a handler,
  once begun, runs to its end: weak fairness of `Handling`. Time passes (`Age`)
  and an accepted cancel takes effect (`CancelSettles`), weakly fair. A status
  call or a cancel may fail any number of times but not always: strong fairness
  of `PollSees`, `RecheckSees` and `TimeoutCancelOk`, whose alternatives are the
  failing answers. Fills and new entries are not assumed to happen.
* Exits: a pass or a close goes on (weak fairness of `Monitor` and `Closing`),
  and a lookup that may fail succeeds at some point (strong fairness of
  `StopFilled` and of the reaction to each filled target).
* Session: the loop goes on and so does the clock (weak fairness of `Pass` and
  `Clock`). The 15 minutes between square-off and close hold more passes than
  writes fail (`SqPasses > MaxFaults + 1`): a disk that never takes a write
  does keep the session from ending.
* Broker: the clock ticks, a call that has begun goes on, the trader polls (weak
  fairness); an expired session is not met by outages on every first attempt, nor
  does the authentication fail for ever (strong fairness).

## 5. Proofs

The eight proof modules prove their theorems for the component's specification, for
every value of the constants that its `ASSUME` allows, by an inductive invariant
that TLC confirmed on the component's run before it was proved. There is one lemma
per action (or per group of actions that leave the same things alone), lemmas about
the operators come before them, and temporal steps only at the end. No theorem takes
a hypothesis beyond that `ASSUME`.

| Module, its assumption | Theorems |
|---|---|
| `PendingEntryProofs`: positive quantity, entries, retries; any fault models | `TypeCorrect`, `NoOverselling`, `AtMostOneTrade`, `LapsedSettled`, `Protected`, `Implements` |
| `SelectionProofs`, `Portfolio`: indices that have a priority, finitely many strikes, positive limits | `TypeCorrect`, `OneEntryPerIndex`, `PendingLimited`, `PriorityRespected`, `EntriesBacked`, `BreakerIsObeyed` |
| `ExitProofs`, `ExitOrders`: positive quantity, lot size, stops; any modes and fault models | `TypeCorrect`, `StopCoversRemainder`, `ClosedIsSold`, `BookedIsSold`, `NoneLeftUnannounced`, `StopNeverLowered` |
| `TradeBookProofs`: any number of entries, days, crashes, failed writes | `IdsAreUnique`, `FileRemembers`, `ResultSurvives`, `PositionsAreKnown` |
| `SessionProofs`: positive thresholds and trades, any number of failed writes | `ExitedOnce`, `BlindnessBounded` |
| `BrokerClientProofs`: positive budget, window, retries; any set of threads | `RateIsKept`, `AnswersTell` |
| `SignalScanProofs`: any symbols, validity, bars, restarts | `AlertsExpire`, `OneOrderPerBar`, `AlertsComeBack` |
| `CandleFeedProofs`: positive polls and history, any session and restarts | `OwnBarsFollow`, `BreakerIsRight` |
| `SelectionProofs`, `ExpiryCalendar`: any holidays that close the exchanges for four days at most, any days from 2020 on | `NoExpiryLost`, `NearestIsFound`, `ContractsAreReal` |
| `ExitProofs`, `IntradayEngine`: positive lots, range and indices; any prices, stop, slippage, limits and capital | `MoneyIsConserved`, `FillsArePossible` |

Hardly any of the properties is inductive as it stands; what had to be added says
why each holds.

**PendingEntry.** A handler acts on a status it read before. `IInv` adds that it
works on the tracked entry (`HandlerTracks`), that what it has read is at most
what was bought and is the truth if terminal (`SeenIsSound`), that the entry was
not activated before (`NotYetActivated`), and that quantities and statuses agree
(`OrdersSane`). The step proof has three general lemmas: a step that leaves the
books alone, one that drops the entry, one that activates it. `Protected` adds
`WholeInv`: without partial fills an order has bought everything or nothing, and what is
not tracked is dead and disposed of. `Implements` is the refinement: the initial
states are initial states of `EntrySlot`, and under `IInv` every step of the broker
and of a handler is one of its steps or a stutter. `IInv` is needed there, since
the slot's guards speak of the actual status and the handlers' of the one they read.

**Portfolio.** The correlation limit is inductive only together with the order of
the scan: `ScanOrder` says that an index already served has no candidates left,
`RefusedIsFull` that a direction once refused stays full while the scan lasts,
because a scan only adds entries. `BreakerMatches` ties the flag to the count.

**ExitOrders.** The record is adjusted when the monitor notices a fill, the
exchange moved before. `UnitsSold` and `UnitsBooked` tie the two by sums: the exchange
has sold at least what the targets and the present stop filled; with the
targets up to the trail level the record has taken off no more than these have
sold; the stop's quantity is at least the remainder. `TargetsInOrder` (the price reaches
a lower target first) is what makes a trail level stand for the fills below it,
`HandlerSane` keeps what a stop hit or a close in progress relies on until it
acts, `TrailSane` bounds the stop by the trail level. `StopNeverLowered` is an action
property from the same invariant.

**TradeBook.** The book's filters and totals are folds of the library, recursive
functions over sets of indices. `SetInduction` derives induction over the numbers from the
pigeonhole principle, with a set in the place of the predicate (an operator as
parameter is beyond the provers); from it follow the value of a fold, and that
`Total` and `OnlyRecent` do on a book what they say. `BookOK`
says what a book is on a day (numbers of records unique and bounded by the day's
counter, dates not in the future). `Inv` adds where process and loops may be
(`Control`), what a session starts with (`Fresh`), and that the cache has everything the
file has (`FileBehind`). Two further invariants stand on it: `Valued` (the day's
bookings are the value of the cache, and of the file at startup) for
`ResultSurvives`, and `Tracked` (which of the lists accounts for an entry at each place of
startup, session and square-off) for `PositionsAreKnown`.

**Session.** `ExitOnce` needs that what is still listed was not exited
(`ListedNotExited`), except after the kill switch, which leaves the list but ends the
session. The bound on blindness is inductive with an allowance per failed write
and, between a threshold crossed and the heartbeat that looks at it, a slack of one pass
(`BlindWithin`).

**BrokerClient.** `LimiterSane`: the list of stamps is in order of age, what is in
the window is its end, and a thread that sleeps holds the lock and sleeps until the
oldest stamp has left. So the list that a woken thread prunes has room.
`CallsSane` ties what a caller was told to what the broker did.

**SignalScan.** `AlertsAged` ties an alert's age to the bars it has seen,
`ScanSane` and `OrderedOnce` what was ordered to the last bar scanned,
`FilesAgree` the two files to each other between the writes, and `StartSane` the
files and the entries left to ask about while a startup runs: as long as no crash has
parted them, an entry still on file has its alert restored.

**CandleFeed.** Nothing on file, in the history or forming is later than the clock
(`File`, `History`, `FormingLast`), so a bar built from prices goes behind those
restored or downloaded, and what is restored was in that order before. The
downloaded rows are a set put in order by the rank of each member; that ranks are
distinct and fill the positions is the pigeonhole principle. `JustClosed` says that
a bar waiting for its scan was closed by the prices of the poll before, with the
breaker on if they came too late, unless a pass was cut short in between, and
`BrokenGap` that the breaker stands for a gap that is still there.

**ExpiryCalendar.** What the walk derives on a day (`WalkInv`) is a function of the
day, so the invariant is short and the argument is about the functions. The months
come first: a day lies in exactly one (`DayHasMonth`, `OneMonth`), they have 28 to
31 days and follow one another, by the arithmetic of the twelve months of a year and
of the leap years. The search back for a trading day finds the latest one and keeps
the order of days (`PrevIs`, `PrevInOrder`). A weekly expiry then lies at most four
days before the day scheduled, so the six days the code looks ahead are enough
(`WeeklyExpiry`), and the forward search meets exactly the expiries of the rule
(`SearchMeetsRule`). The monthly rules change on the first of a month, so one rule
holds in each (`OneRulePerMonth`); the weekday it names occurs once in the last
seven days (`OneOfSeven`), the code's computation finds it (`ComputedIs`), and the
expiries of successive months are in order: the one of this month, or if it is past
the next one, is the nearest (`MonthlyIsNearest`). A day to which a monthly expiry
is moved is still in its month, so `IsMonthlyExpiry` misses it for its weekday only.
A lot size exists for SENSEX because its first expiry is a Friday four days after
the Monday of the launch, which no closure moves to before it (`LaunchedOn`).
`ContractsAreReal` is about days without an expiry too: its contract is the one the
search finds, and the search falls back on the bare day only when it finds none. The
weekly rules (`NiftyRule`, `SensexRule`) schedule a day within any thirteen, also
across a change of the weekday (`WeeklyComes`), so there is an expiry ahead
(`ExpiryComes`), a first one by well-foundedness (`LeastExists`), and `NearestIsDue`
takes it from there.

**IntradayEngine.** `Worth` is what a trade owes to the capital: what it holds, at
cost, and what it was credited, less what it has won. Every sale keeps it
(`RestSoldIs`, `LevelTakenIs`), so a whole bar does, whatever it reaches
(`AfterBarIs`), and `MoneySane` (the capital is what it was, plus the results recorded,
less the worth of the open trade) is inductive. `OnCourse` adds where stop, lots and
levels taken stand to each other.

`FillsPossible` compares one judgement of a bar with a walk of any length. The walk
has closed forms: downwards nothing happens until the stop is reached, which sells
the rest there (`WayDown`); upwards the targets are taken in turn, which by each
tick has given what a bar from the open to that tick gives (`WayUp`, on `TickSeen`);
a closed trade stays as it is (`ClosedStays`). `TickInduction` is the induction over
the ticks of a walk, with a set in the place of the predicate. `BarIsWalked` puts
the two ways together: what the code does with a bar is the path by its low first,
except where it takes the final target before a stop trailed above the entry, which
is the path by its high first.

**Only model-checked**, by the runs named in section 4: liveness (the two properties of
`entry_liveness`, `FilledExitCloses`, `SessionEnds`, `SessionHeals`). The prover
has no rule for fairness and ENABLED here.

## 6. Not modelled

Output and I/O only: market data download beyond its merge, reports, charts,
logging, the sending and wording of notifications. The entry point
(`run_live.py`): argument parsing and a lock file, whose unlink after the unlock
lets a third process in beside a second. The research scripts, the strangle and
futures studies and the optimizer: sequential, nothing of theirs reaches the
trader.

Within the modelled parts:

* the RSI itself and the strategy's filters on prices: pure arithmetic over
  floats, abstracted to the bar's kind; the SL price (`_calculate_effective_sl`);
* the paper-trading branches, and the derivative caches of the backtest;
* corrupted state files: the trader says so, keeps a copy and starts with empty
  books (`execution/trade_tracker.py` 58-75);
* a process that runs over midnight and the daily reset: the trader is started
  each day, `SignalScan` and `TradeBook` restart it;
* code without a caller (`reconcile_with_positions`, `trading_day_checker`,
  `retry_decorator`), and the trader's own limiter (`core/rate_limiter.py`), which
  only spaces its calls further apart than the client's does.
