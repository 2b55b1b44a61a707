---------------------------- MODULE CandleFeed ----------------------------
(***************************************************************************)
(* From prices to the bar the strategy is asked about: the spot candles    *)
(* that DataManager keeps in a CSV file and refreshes from the broker, the *)
(* CandleBuilder that makes the bars of an option from polled prices, its  *)
(* warm-up from the cached and downloaded bars, the data-gap breaker, and  *)
(* the gates of the scan.  One underlying and one option symbol.           *)
(*                                                                         *)
(* The clock counts polls, Polls of them to a 15-minute bar.  A pass of    *)
(* the main loop polls the spot candle, scans if a bar closed, and polls   *)
(* the prices.  Prices are abstracted to how much of its interval a candle *)
(* has seen.                                                               *)
(***************************************************************************)
EXTENDS Naturals, Sequences, SequencesExt, FiniteSetsExt

CONSTANTS
    Polls,        \* price polls in the interval of one bar
    LastBar,      \* bound: bars of the session are 0..LastBar
    MaxBars,      \* max_bars of the builder: length of its history
    MaxRestarts   \* bound: restarts of the process

MinTicks == 3     \* a bar of fewer ticks is thin
Bars == 0..LastBar
None == LastBar + 1
EndOfDay == (LastBar + 1) * Polls - 1

ASSUME CandleFeedAssumption ==
    /\ Polls \in Nat \ {0} /\ LastBar \in Nat /\ MaxBars \in Nat \ {0}
    /\ MaxRestarts \in Nat

VARIABLES
    now,        \* polls since the first bar opened
    phase,      \* where the pass of the main loop has got to
    spotFile,   \* how much of each spot candle the CSV file has seen; 0: absent
    optFile,    \* the same for the CSV file of the option
    lastCandle, \* last_candle_time: the confirmed spot candle last seen
    tracked,    \* the option is in tracked_options
    bars,       \* CandleBuilder.bars of the option
    forming,    \* CandleBuilder.active_candles: bar and ticks, or NoCandle
    cache,      \* the candle state file of the option
    broken,     \* the option is in circuit_breaker_active_symbols
    closedBar,  \* _pending_closed_bars is not empty
    scanned,    \* last_processed_candle_time of the option
    scan,       \* history: the bar check_signal was asked about in this pass, and when
    held,       \* history: a pass was cut short since the prices were last polled
    restarts

feedVars == <<tracked, bars, forming, cache, broken>>
scanVars == <<scanned, scan>>
vars == <<now, phase, spotFile, optFile, lastCandle, feedVars, closedBar,
          scanVars, held, restarts>>

Bar(n) == n \div Polls
Current == Bar(now)
Final == Polls + 1
\* How much of bar b can be seen at poll n.
Seen(b, n) == IF n < b * Polls THEN 0 ELSE Min({Final, n - b * Polls + 1})

FeedBar(b, k) == [dt |-> b, ticks |-> k, src |-> "feed", healthy |-> k >= MinTicks]
FileBar(b, k) == [dt |-> b, ticks |-> k, src |-> "file"]
NoCandle == [dt |-> None, ticks |-> 0]
NoScan == [dt |-> None, ticks |-> 0, src |-> "none", at |-> 0, due |-> FALSE]
NoFile == [b \in Bars |-> 0]

Init ==
    /\ now = 0
    /\ phase = "start"
    /\ spotFile = NoFile
    /\ optFile = NoFile
    /\ lastCandle = None
    /\ tracked = FALSE
    /\ bars = <<>>
    /\ forming = NoCandle
    /\ cache = <<>>
    /\ broken = FALSE
    /\ closedBar = FALSE
    /\ scanned = None
    /\ scan = NoScan
    /\ held = FALSE
    /\ restarts = 0

-----------------------------------------------------------------------------
(* The candle files.  A download answers up to the forming candle, or      *)
(* fails.  _save_dataframe merges by date and keeps the row that is        *)
(* already in the file.                                                    *)

Merge(file) == [b \in Bars |-> IF file[b] = 0 THEN Seen(b, now) ELSE file[b]]

\* _download_chunked: the retries end with the candles, or with nothing.
Download(file) == {file, Merge(file)}

\* get_spot_candles(refresh=True) always downloads; get_derivative_candles
\* does when the file does not reach the end of the session.
Refreshed(file) == Download(file)
Fetched(file) == Download(file)

Rows(file) == {b \in Bars : file[b] # 0}

\* _get_confirmed_candle: the row before the latest one.
Confirmed(file) ==
    IF Cardinality(Rows(file)) < 2 THEN None
    ELSE Max(Rows(file) \ {Max(Rows(file))})

-----------------------------------------------------------------------------
(* The builder.                                                            *)

LastOf(s) == s[Len(s)]
Dates(s) == {s[i].dt : i \in DOMAIN s}
Keep(s) == IF Len(s) > MaxBars THEN SubSeq(s, Len(s) - MaxBars + 1, Len(s)) ELSE s

\* The i-th member of a set of numbers, in rising order.
Nth(S, i) == CHOOSE x \in S : Cardinality({y \in S : y < x}) = i - 1

\* restore_state: the bars of the cache file, the first of each date, marked
\* as restored.
FirstOfDate == {i \in DOMAIN cache : \A j \in 1..(i - 1) : cache[j].dt # cache[i].dt}
Restored ==
    [k \in 1..Cardinality(FirstOfDate) |->
        [cache[Nth(FirstOfDate, k)] EXCEPT !.src = "cache"]]

\* warm_up_from_df: of the latest MaxBars rows of the download those whose
\* date is not there yet, in date order.
Latest(file) ==
    {b \in Rows(file) : Cardinality({x \in Rows(file) : x > b}) < MaxBars}
Missing(file, s) == {b \in Latest(file) : b \notin Dates(s)}
NewRows(file, s) ==
    [i \in 1..Cardinality(Missing(file, s)) |->
        FileBar(Nth(Missing(file, s), i), file[Nth(Missing(file, s), i)])]

AppendedBefore(s, new) == Keep(new \o s) \* variant: the downloaded rows go first
WarmedUp(s, new) == Keep(s \o new)

\* The option enters tracked_options: its cached bars are restored, and the
\* download is put behind them.  It always starts at warmup_start, a week back:
\* restore_state has made the date of the last cached bar an object, for which
\* fromisoformat raises into a bare except.  A row that the cache lacks thus
\* goes behind every restored bar, however old it is.
Track ==
    /\ tracked' = TRUE
    /\ optFile' \in Fetched(optFile)
    /\ bars' = WarmedUp(Restored, NewRows(optFile', Restored))
    /\ UNCHANGED <<forming, cache, broken>>

\* _update_option_universe: the spot decides whether the strike is in range.
UpdateUniverse ==
    /\ spotFile' \in Refreshed(spotFile)
    /\ \/ ~tracked /\ Rows(spotFile') # {} /\ Track
       \/ UNCHANGED <<optFile, feedVars>>

\* missed_candles after the bars s.
Missed(s) ==
    IF s = <<>> \/ Current < LastOf(s).dt + 1 THEN 0 ELSE Current - LastOf(s).dt - 1

LooseHalt(m) == m >= 3 \* variant: one more missed candle is let through
Halts(m) == m >= 2

\* The breaker after m missed candles were counted at the close of a bar.
Gate(m) == m # 0 /\ (broken \/ Halts(m))

\* _check_and_restore_continuity, after every price.
Restores == broken' = (broken /\ Missed(bars) # 0)

\* feed: a price in the interval of the forming candle.
Extend ==
    /\ forming # NoCandle /\ Current <= forming.dt
    /\ forming' = [forming EXCEPT !.ticks = Min({@ + 1, Polls})]
    /\ Restores
    /\ UNCHANGED <<bars, cache, closedBar>>

OpensFirst ==
    /\ forming = NoCandle
    /\ forming' = [dt |-> Current, ticks |-> 1]
    /\ Restores
    /\ UNCHANGED <<bars, cache, closedBar>>

\* save_candle_state: a failed write is logged and leaves the older history.
SaveHistory == cache' \in {cache, bars'}

\* feed: a price of a later interval closes the candle.  The answer of
\* _check_continuity is ignored; the trader then counts the missed candles,
\* and saves the history.
Closes ==
    /\ forming # NoCandle /\ Current > forming.dt
    /\ bars' = Keep(Append(bars, FeedBar(forming.dt, forming.ticks)))
    /\ forming' = [dt |-> Current, ticks |-> 1]
    /\ broken' = Gate(Missed(bars'))
    /\ SaveHistory
    /\ closedBar' = TRUE

Feed == (Extend \/ OpensFirst \/ Closes) /\ UNCHANGED tracked

-----------------------------------------------------------------------------
(* A pass of the main loop.                                                *)

Start ==
    /\ phase = "start"
    /\ UpdateUniverse
    /\ phase' = "spot"
    /\ UNCHANGED <<now, lastCandle, closedBar, scanVars, held, restarts>>

\* _poll_candle_close.  The scan runs when the confirmed spot candle moved on
\* or a bar of the option closed.
PollSpot ==
    /\ phase = "spot"
    /\ spotFile' \in Refreshed(spotFile)
    /\ LET c == Confirmed(spotFile')
           moved == c # None /\ lastCandle # None /\ c > lastCandle
       IN  /\ lastCandle' = IF c = None \/ (lastCandle # None /\ ~moved)
                            THEN lastCandle ELSE c
           /\ phase' = IF moved \/ closedBar THEN "scan" ELSE "ltp"
    /\ UNCHANGED <<now, optFile, feedVars, closedBar, scanVars, held, restarts>>

\* The row of get_closed_df: is_healthy is not one of its columns.
Row(b) == [dt |-> b.dt]
Starved(row) == "healthy" \in DOMAIN row /\ ~row.healthy

Scannable(s) ==
    /\ s # <<>> /\ ~broken
    /\ ~Starved(Row(LastOf(s)))
    /\ scanned = None \/ LastOf(s).dt > scanned

Asks(s) ==
    /\ scanned' = LastOf(s).dt
    /\ scan' = [dt |-> LastOf(s).dt, ticks |-> LastOf(s).ticks,
                src |-> LastOf(s).src, at |-> now, due |-> closedBar /\ ~held]

\* _process_strategy_logic: a risk gate, the trading window or the width of
\* the bar may also stop it.  An exception, which the main loop catches, leaves
\* the closed bars pending.
Scan ==
    /\ phase = "scan"
    /\ UpdateUniverse
    /\ \/ tracked' /\ Scannable(bars') /\ Asks(bars')
       \/ UNCHANGED scanVars
    /\ \/ closedBar' = FALSE /\ phase' = "ltp"
       \/ closedBar' = closedBar /\ phase' = "raised"
    /\ UNCHANGED <<now, lastCandle, held, restarts>>

\* A pass without scan and poll: the market seems halted, or something raised.
\* Time goes by, and a bar that was closed before waits.
Held ==
    /\ phase \in {"spot", "raised"} /\ now < EndOfDay
    /\ now' = now + 1
    /\ phase' = "spot"
    /\ held' = TRUE
    /\ scan' = NoScan
    /\ UNCHANGED <<spotFile, optFile, lastCandle, feedVars, closedBar, scanned, restarts>>

\* _poll_option_ltps, when the prices could be had, and the sleep.
PollPrices ==
    /\ phase = "ltp" /\ now < EndOfDay
    /\ \/ tracked /\ Feed
       \/ UNCHANGED <<feedVars, closedBar>>
    /\ now' = now + 1
    /\ phase' = "spot"
    /\ scan' = NoScan
    /\ held' = FALSE
    /\ UNCHANGED <<spotFile, optFile, lastCandle, scanned, restarts>>

\* The process dies and comes back: the files are what is left.
Restart ==
    /\ phase \in {"spot", "ltp", "raised"} /\ restarts < MaxRestarts
    /\ now' \in now..EndOfDay
    /\ phase' = "start"
    /\ lastCandle' = None
    /\ tracked' = FALSE
    /\ bars' = <<>>
    /\ forming' = NoCandle
    /\ broken' = FALSE
    /\ closedBar' = FALSE
    /\ scanned' = None
    /\ scan' = NoScan
    /\ held' = FALSE
    /\ restarts' = restarts + 1
    /\ UNCHANGED <<spotFile, optFile, cache>>

Next == Start \/ PollSpot \/ Scan \/ Held \/ PollPrices \/ Restart

Spec == Init /\ [][Next]_vars

-----------------------------------------------------------------------------
(* Properties.                                                             *)

BarRecs ==
    {[FileBar(b, k) EXCEPT !.src = s] :
        b \in Bars, k \in 1..Final, s \in {"file", "cache"}}
    \cup {[FeedBar(b, k) EXCEPT !.src = s] :
        b \in Bars, k \in 1..Polls, s \in {"feed", "cache"}}

\* Type invariant.
TypeOK ==
    /\ now \in 0..EndOfDay
    /\ phase \in {"start", "spot", "scan", "raised", "ltp"}
    /\ spotFile \in [Bars -> 0..Final] /\ optFile \in [Bars -> 0..Final]
    /\ lastCandle \in Bars \cup {None}
    /\ tracked \in BOOLEAN /\ broken \in BOOLEAN /\ closedBar \in BOOLEAN
    /\ bars \in Seq(BarRecs) /\ Len(bars) <= MaxBars
    /\ cache \in Seq(BarRecs) /\ Len(cache) <= MaxBars
    /\ forming.dt \in Bars \cup {None} /\ forming.ticks \in 0..Polls
    /\ scanned \in Bars \cup {None} /\ held \in BOOLEAN
    /\ restarts \in 0..MaxRestarts

\* Bar x may come before bar y in a history: the two are of the same interval
\* only when x was downloaded while y was forming, and a bar built from prices
\* is behind older bars and a downloaded one before later bars.
MayPrecede(x, y) ==
    /\ x.dt = y.dt => x.src = "file" /\ y.src = "feed"
    /\ x.src = "file" \/ y.src = "feed" => x.dt <= y.dt

\* The history that the RSI is computed on counts no interval twice but the
\* one in which the option entered the universe, and no bar that was built from
\* prices is ever before an older one, whatever mix of restored, downloaded and
\* own bars there was before the crash (types included).
OwnBarsInOrder ==
    /\ TypeOK
    /\ \A i, j \in DOMAIN bars : i < j => MayPrecede(bars[i], bars[j])

\* "SIGNAL HALTED: >=30m data gap": the scan that the close of a bar causes
\* acts on it in one of the two intervals after it, never after an outage that
\* swallowed two more bars.  Not covered, because the code has no gate there:
\* a bar restored at a restart, a bar whose scan was stopped and that the
\* spot close brings up again during an outage, and a bar whose scan had to
\* wait for the end of a market halt or for a pass that does not raise.
GapHalts ==
    scan.src = "feed" /\ scan.due => scan.dt < Bar(scan.at) /\ Bar(scan.at - 1) <= scan.dt + 2

\* The data-gap breaker is never left on by mistake: while it holds, the
\* latest closed bar and the candle now forming are still the two sides of a
\* gap of at least one missing bar.
BreakerMeansGap == broken => forming.dt > LastOf(bars).dt + 1

\* Both ways: a gap stops the scan, and nothing else stops it for good.
BreakerTracksGaps == GapHalts /\ BreakerMeansGap

-----------------------------------------------------------------------------
(* Said of the program and not upheld by it.  No run checks these (README). *)

\* "Always fetch the gap from last known bar to NOW": the history is in time
\* order.  The gap is fetched from warmup_start, and a row that is older than
\* a restored bar goes behind it.
HistoryInTimeOrder == \A i, j \in DOMAIN bars : i < j => bars[i].dt <= bars[j].dt

\* "SIGNAL HALTED: >=30m data gap", of every scan: a bar that waited while the
\* market was halted is scanned before a price can show the gap behind it.
NoScanBehindGap ==
    scan.src = "feed" => scan.dt < Bar(scan.at) /\ Bar(scan.at - 1) <= scan.dt + 2

\* _get_confirmed_candle returns "the most recent fully closed candle", which
\* "ensures signal logic and direction filters do not use noise from forming
\* bars": the candle it hands to the scan holds the whole of its interval.
ConfirmedIsFinal ==
    phase = "scan" /\ Confirmed(spotFile) # None =>
        spotFile[Confirmed(spotFile)] = Final

\* "Skipping signal scan: candle is STARVED (insufficient ticks)": no bar of
\* fewer than MinTicks prices is put to the strategy.
StarvedNotScanned == scan.src = "feed" => scan.ticks >= MinTicks

=============================================================================
