----------------------------- MODULE SignalScan -----------------------------
(***************************************************************************)
(* The alerts of the RSI strategy, one state per option symbol of an       *)
(* index, as the scans of the closed bars move them: raised, aged,         *)
(* negated, expired, consumed; the entry order placed for an alert; and    *)
(* what of both survives a crash through the files strategy_state.json and *)
(* pending_entries.json.                                                   *)
(*                                                                         *)
(* A price bar is abstracted to what the strategy would make of it: "thin" *)
(* (the scan skips it), an RSI "cross" that passes every filter of a new   *)
(* alert, a close "below" the low of the alert.  An ENTRY answer is left   *)
(* out, as the live trader ignores it.                                     *)
(***************************************************************************)
EXTENDS Naturals, FiniteSets

CONSTANTS
    Symbols,     \* option symbols tracked for the index
    Validity,    \* alert_validity_candles
    LastBar,     \* bound: closed bars of the session are 0..LastBar
    MaxRestarts  \* bound: restarts of the process

ASSUME SignalScanAssumption ==
    Validity \in Nat /\ LastBar \in Nat /\ MaxRestarts \in Nat

Bars == 0..LastBar
None == LastBar + 1
Kinds == {{"thin"}} \cup SUBSET {"cross", "below"}

VARIABLES
    bar,       \* the latest closed bar
    kind,      \* what that bar is for each symbol
    strat,     \* strategy.state
    seen,      \* last_processed_candle_time
    todo,      \* symbols collected by the scan and not asked yet
    scanning,  \* a scan is under way
    raised,    \* alert_candidates
    pending,   \* pending_entries: the bar of the alert it was placed for
    trade,     \* the index has an active trade
    unsaved,   \* files the running handler has still to write
    pfile,     \* pending_entries.json
    sfile,     \* strategy_state.json
    lived,     \* history: bars an alert has survived in this run of the process
    placed,    \* history: symbol, bar and run of every entry order
    astray,    \* history: entries tracked without the alert they were placed for
    starting,  \* the process is coming back from a crash
    unread,    \* saved entries that the startup has still to look at
    torn,      \* history: entries on file that the crash may have parted from their alert
    restarts

scanVars == <<todo, scanning, raised>>
fileVars == <<unsaved, pfile, sfile>>
startVars == <<starting, unread, torn>>
vars == <<bar, kind, strat, seen, scanVars, pending, trade, fileVars, lived,
          placed, astray, startVars, restarts>>

Fresh == [alert |-> None, age |-> 0, proc |-> None]
States == [alert : Bars \cup {None}, age : 0..Validity, proc : Bars \cup {None}]
NoEntries == [s \in Symbols |-> None]
NoStates == [s \in Symbols |-> Fresh] \* also: no strategy_state.json

Init ==
    /\ bar = 0
    /\ kind \in [Symbols -> Kinds]
    /\ strat = NoStates
    /\ seen = NoEntries
    /\ todo = {} /\ scanning = FALSE /\ raised = {}
    /\ pending = NoEntries
    /\ trade = FALSE
    /\ unsaved = {} /\ pfile = NoEntries /\ sfile = NoStates
    /\ lived = [s \in Symbols |-> 0]
    /\ placed = {}
    /\ astray = {}
    /\ starting = FALSE /\ unread = {} /\ torn = {}
    /\ restarts = 0

-----------------------------------------------------------------------------
(* The files.  A handler writes the entries, then the strategy state.      *)

SavesBoth == unsaved' = {"pending", "strategy"} /\ UNCHANGED <<pfile, sfile>>

WritePending ==
    /\ "pending" \in unsaved
    /\ pfile' = pending
    /\ unsaved' = unsaved \ {"pending"}
    /\ UNCHANGED <<bar, kind, strat, seen, scanVars, pending, trade, sfile, lived,
                   placed, astray, startVars, restarts>>

\* export_state, written by _save_strategy_state.
WriteStrategy ==
    /\ unsaved = {"strategy"}
    /\ sfile' = strat
    /\ unsaved' = {}
    /\ UNCHANGED <<bar, kind, strat, seen, scanVars, pending, trade, pfile, lived,
                   placed, astray, startVars, restarts>>

\* The heartbeat finds the market halted: strategy state first.
Checkpoint ==
    /\ ~starting /\ ~scanning /\ unsaved = {}
    /\ sfile' = strat /\ pfile' = pending
    /\ UNCHANGED <<bar, kind, strat, seen, scanVars, pending, trade, unsaved, lived,
                   placed, astray, startVars, restarts>>

-----------------------------------------------------------------------------
(* The scan.                                                               *)

NewBar ==
    /\ ~starting /\ ~scanning /\ unsaved = {} /\ bar < LastBar
    /\ bar' = bar + 1
    /\ kind' \in [Symbols -> Kinds]
    /\ UNCHANGED <<strat, seen, scanVars, pending, trade, fileVars, lived, placed,
                   astray, startVars, restarts>>

Unguarded(s) == "thin" \notin kind[s] \* variant: bars already processed too
Scannable(s) == "thin" \notin kind[s] /\ (seen[s] = None \/ bar > seen[s])

\* Neither the breaker, the daily loss limit nor the trading window stops it.
StartScan ==
    /\ ~starting /\ ~scanning /\ unsaved = {}
    /\ todo' = {s \in Symbols : Scannable(s)}
    /\ scanning' = TRUE
    /\ UNCHANGED <<bar, kind, strat, seen, raised, pending, trade, fileVars, lived,
                   placed, astray, startVars, restarts>>

Cleared(st) == [st EXCEPT !.alert = None, !.age = 0]

FrozenAge(st) == st.age \* variant: age gated on something that is off
AgeAt(st) ==
    IF st.proc # None /\ bar > st.proc /\ bar > st.alert THEN st.age + 1 ELSE st.age
Expires(st) == st.alert # None /\ AgeAt(st) > Validity
Negates(s) ==
    /\ strat[s].alert # None /\ ~Expires(strat[s])
    /\ bar > strat[s].alert /\ "below" \in kind[s]
Keeps(s) == strat[s].alert # None /\ ~Expires(strat[s]) /\ ~Negates(s)
Raises(s) == strat[s].alert = None /\ "cross" \in kind[s]

\* check_signal.  An expiring alert returns before the bar is noted.
Checked(s) ==
    LET st == strat[s]
    IN  CASE Expires(st) -> Cleared(st)
          [] Negates(s) -> [Cleared(st) EXCEPT !.proc = bar]
          [] Keeps(s) -> [st EXCEPT !.age = AgeAt(st), !.proc = bar]
          [] Raises(s) -> [alert |-> bar, age |-> 0, proc |-> bar]
          [] OTHER -> [st EXCEPT !.proc = bar]

\* The next symbol of the scan gets its answer.
Ask(s) ==
    /\ s \in todo /\ unsaved = {}
    /\ strat' = [strat EXCEPT ![s] = Checked(s)]
    /\ seen' = [seen EXCEPT ![s] = bar]
    /\ todo' = todo \ {s}
    /\ lived' = [lived EXCEPT ![s] =
                    IF ~Keeps(s) THEN 0
                    ELSE IF bar > strat[s].alert /\ seen[s] # bar THEN @ + 1 ELSE @]
    /\ UNCHANGED <<bar, kind, scanning, placed, startVars, restarts>>

\* A new alert is a candidate, unless the direction filter ignores it: it
\* then stays an alert without an entry.
AskOnly(s) ==
    /\ Ask(s)
    /\ ~(Expires(strat[s]) \/ Negates(s)) \/ pending[s] = None
    /\ raised' \in IF Raises(s) THEN {raised, raised \cup {s}} ELSE {raised}
    /\ UNCHANGED <<pending, trade, fileVars, astray>>

Untracked(s) ==
    /\ pending' = [pending EXCEPT ![s] = None]
    /\ astray' = astray \ {s}

\* _cancel_pending_entry on NEGATED or EXPIRED: found filled, cancelled, or
\* the cancel failed and the entry stays.
AskAndCancel(s) ==
    /\ Ask(s) /\ (Expires(strat[s]) \/ Negates(s)) /\ pending[s] # None
    /\ \/ Untracked(s) /\ trade' \in {trade, TRUE} /\ SavesBoth
       \/ /\ astray' = astray \cup {s}
          /\ UNCHANGED <<pending, trade, fileVars>>
    /\ UNCHANGED raised

Busy == trade \/ \E s \in Symbols : pending[s] # None

\* The candidates have had their turn.  The processed bars are saved into
\* metadata that _save_data replaces: nothing of them reaches the file.
EndsScan ==
    /\ scanning /\ todo = {} /\ unsaved = {}
    /\ scanning' = FALSE /\ raised' = {}
    /\ UNCHANGED <<bar, kind, seen, todo, trade, lived, startVars, restarts>>

\* No candidate, the index is busy, or _place_pending_entry declines for the
\* daily loss limit, the balance or the size, and leaves the alert.
NothingPlaced ==
    /\ EndsScan
    /\ UNCHANGED <<strat, pending, fileVars, placed, astray>>

\* No trading symbol, the exposure cap, the order failed: consume_alert.
AlertConsumed(s) ==
    /\ EndsScan /\ s \in raised /\ ~Busy
    /\ strat' = [strat EXCEPT ![s] = Cleared(@)]
    /\ UNCHANGED <<pending, fileVars, placed, astray>>

SavesEntryOnly == unsaved' = {"pending"} /\ UNCHANGED <<pfile, sfile>> \* variant
SavesEntry == SavesBoth

EntryPlaced(s) ==
    /\ EndsScan /\ s \in raised /\ ~Busy
    /\ pending' = [pending EXCEPT ![s] = strat[s].alert]
    /\ placed' = placed \cup {<<s, strat[s].alert, restarts>>}
    /\ SavesEntry
    /\ UNCHANGED <<strat, astray>>

-----------------------------------------------------------------------------
(* Outside the scan.                                                       *)

\* _monitor_pending_entries ends an entry: a trade, or none.  The alert is
\* consumed, but not when the SL of the fill could not be placed.
Resolve(s) ==
    /\ ~starting /\ ~scanning /\ unsaved = {} /\ pending[s] # None
    /\ Untracked(s)
    /\ trade' \in {trade, TRUE}
    /\ \/ strat' = [strat EXCEPT ![s] = Cleared(@)]
       \/ trade' = trade /\ UNCHANGED strat
    /\ SavesBoth
    /\ UNCHANGED <<bar, kind, seen, scanVars, lived, placed, startVars, restarts>>

TradeCloses ==
    /\ ~starting /\ ~scanning /\ unsaved = {} /\ trade
    /\ trade' = FALSE
    /\ UNCHANGED <<bar, kind, strat, seen, scanVars, pending, fileVars, lived, placed,
                   astray, startVars, restarts>>

-----------------------------------------------------------------------------
(* The process dies at any point, also while it starts, and comes back.    *)

Imported == sfile

\* get_last_processed_bars, of metadata that was never kept.
ProcessedBars == NoEntries

\* The crash, and the start of _reconcile_positions: the strategy state is
\* restored and its file removed; the saved entries are read.
Restart ==
    /\ restarts < MaxRestarts
    /\ torn' = IF starting \/ unsaved # {} THEN Symbols ELSE astray
    /\ starting' = TRUE
    /\ strat' = Imported
    /\ sfile' = NoStates
    /\ unread' = {s \in Symbols : pfile[s] # None}
    /\ pending' = NoEntries
    /\ astray' = {}
    /\ unsaved' = {}
    /\ seen' = ProcessedBars
    /\ todo' = {} /\ scanning' = FALSE /\ raised' = {}
    /\ trade' = FALSE
    /\ lived' = [s \in Symbols |-> 0]
    /\ restarts' = restarts + 1
    /\ UNCHANGED <<bar, kind, placed, pfile>>

\* The entry is live at the broker, and is tracked again.
Resumed(s) ==
    /\ pending' = [pending EXCEPT ![s] = pfile[s]]
    /\ astray' = IF pfile[s] # strat[s].alert THEN astray \cup {s} ELSE astray
    /\ UNCHANGED <<strat, sfile>>

\* It was filled while the process was away: a trade, its alert consumed; the
\* alerts are saved only on the paths that sell it at once.
Filled(s) ==
    /\ strat' = [strat EXCEPT ![s] = Cleared(@)]
    /\ sfile' \in {sfile, strat'}
    /\ UNCHANGED <<pending, astray>>

\* _reconcile_positions asks the broker about a saved entry.  One that has
\* ended, whose status call fails, or whose SL cannot be placed is dropped.
Reconcile(s) ==
    /\ starting /\ s \in unread
    /\ unread' = unread \ {s}
    /\ Resumed(s) \/ Filled(s) \/ UNCHANGED <<pending, astray, strat, sfile>>
    /\ UNCHANGED <<bar, kind, seen, scanVars, trade, unsaved, pfile, lived, placed,
                   starting, torn, restarts>>

\* The file of entries is emptied; clear_day_data then expires the trades.
StartupDone ==
    /\ starting /\ unread = {}
    /\ pfile' = NoEntries
    /\ starting' = FALSE /\ torn' = {}
    /\ UNCHANGED <<bar, kind, strat, seen, scanVars, pending, trade, unsaved, sfile,
                   lived, placed, astray, unread, restarts>>

-----------------------------------------------------------------------------
Next ==
    \/ WritePending \/ WriteStrategy \/ Checkpoint
    \/ NewBar \/ StartScan \/ NothingPlaced
    \/ \E s \in Symbols :
         \/ AskOnly(s) \/ AskAndCancel(s) \/ AlertConsumed(s) \/ EntryPlaced(s) \/ Resolve(s)
         \/ Reconcile(s)
    \/ TradeCloses \/ Restart \/ StartupDone

Spec == Init /\ [][Next]_vars

-----------------------------------------------------------------------------
(* Properties.                                                             *)

\* Type invariant.
TypeOK ==
    /\ bar \in Bars /\ kind \in [Symbols -> Kinds]
    /\ strat \in [Symbols -> States]
    /\ seen \in [Symbols -> Bars \cup {None}]
    /\ todo \subseteq Symbols /\ raised \subseteq Symbols /\ scanning \in BOOLEAN
    /\ pending \in [Symbols -> Bars \cup {None}] /\ trade \in BOOLEAN
    /\ unsaved \subseteq {"pending", "strategy"}
    /\ pfile \in [Symbols -> Bars \cup {None}]
    /\ sfile \in [Symbols -> States]
    /\ lived \in [Symbols -> Nat]
    /\ placed \subseteq Symbols \X Bars \X (0..MaxRestarts)
    /\ astray \subseteq Symbols
    /\ starting \in BOOLEAN /\ unread \subseteq Symbols /\ torn \subseteq Symbols
    /\ restarts \in 0..MaxRestarts

\* An alert outlives at most alert_validity_candles scanned bars in one run of
\* the process, also one that was restored with an age, or re-read the bar it
\* had aged on before the crash (types included).
AlertLives ==
    /\ TypeOK
    /\ \A s \in Symbols : strat[s].alert # None => lived[s] <= Validity

\* A new order; an entry that a startup resumes is none.
NewEntry(s) == ~starting /\ pending[s] = None /\ pending'[s] # None

\* A breakout bar is traded once in one run of the process: when its entry has
\* lapsed or its trade has closed, no later scan of the same interval places a
\* second order for it.
BarUsedOnce ==
    [][\A s \in Symbols : NewEntry(s) =>
           <<s, pending'[s], restarts>> \notin placed]_vars

\* An entry that a startup resumes comes back with the very alert it was placed
\* for, so that NEGATED and EXPIRED still reach it.  The exceptions: the crash
\* fell between the two writes of a handler; it fell within a startup, which
\* removes the alerts before it has asked about the entries and emptied their
\* file; or the entry had lost its alert before, to one of these or to a cancel
\* that failed.
RestoredTogether ==
    [][\A s \in Symbols : starting /\ pending[s] = None /\ pending'[s] # None =>
           pending'[s] = strat'[s].alert \/ s \in torn]_vars

-----------------------------------------------------------------------------
(* Said of the program and not upheld by it.  No run checks these (README). *)

\* save_processed_bar: "Persist a processed bar timestamp to prevent
\* re-processing on crash": no bar is traded twice, whatever restarts.
BarUsedOnceEver ==
    [][\A s \in Symbols : NewEntry(s) =>
           \A r \in 0..MaxRestarts : <<s, pending'[s], r>> \notin placed]_vars

=============================================================================
