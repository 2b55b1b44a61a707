----------------------------- MODULE Portfolio -----------------------------
(***************************************************************************)
(* Which alerts become entry orders.  The strategy scan of the main loop   *)
(* (_process_strategy_logic, after a 15-minute bar closed) raises alerts   *)
(* on option symbols and offers the best candidate of each index, in the   *)
(* order NIFTY, SENSEX, BANKNIFTY, to _place_pending_entry, behind the     *)
(* gates: one position or pending entry per index, the direction           *)
(* correlation limit, the exposure cap, the circuit breaker.  The fate of  *)
(* an entry order once placed is one step here; PendingEntry has its       *)
(* steps.                                                                  *)
(*                                                                         *)
(* Handlers do not interleave (one thread): while a scan is under way      *)
(* nothing else touches the trader's state.                                *)
(***************************************************************************)
EXTENDS Naturals, FiniteSets

CONSTANTS
    Indices,       \* the underlyings traded today
    OptTypes,      \* allowed_opt_types
    Strikes,       \* strikes tracked on each index
    MaxCorrelated, \* max_correlated_positions
    MaxPremium,    \* max_total_premium_deployed, in entries of equal cost
    MaxLosses      \* max_consecutive_losses

Priority == [NIFTY |-> 0, SENSEX |-> 1, BANKNIFTY |-> 2]

ASSUME PortfolioAssumption ==
    /\ Indices \subseteq DOMAIN Priority
    /\ OptTypes \subseteq {"CE", "PE"}
    /\ IsFiniteSet(Strikes)
    /\ MaxCorrelated \in Nat \ {0}
    /\ MaxPremium \in Nat
    /\ MaxLosses \in Nat \ {0}

Symbols == [underlying : Indices, opt_type : OptTypes, strike : Strikes]

VARIABLES
    alerts,     \* strategy: symbols with an alert that is not consumed
    pending,    \* keys of pending_entries
    active,     \* symbols of the active trades in the tracker
    scanning,   \* a scan is under way
    candidates, \* its new alerts that are still to be considered
    placed,     \* symbols the scan has placed an entry for
    correlated, \* symbols the scan has refused for the correlation limit
    losses,     \* consecutive_losses
    breaker,    \* circuit_breaker_active
    warned,     \* pending entries the owner was told could not be cancelled
    saveFailed  \* the one failure to write the trade file has happened

scanVars == <<scanning, candidates, placed, correlated>>
riskVars == <<losses, breaker>>
vars == <<alerts, pending, active, scanVars, riskVars, warned, saveFailed>>

Init ==
    /\ alerts = {} /\ pending = {} /\ active = {}
    /\ scanning = FALSE /\ candidates = {} /\ placed = {} /\ correlated = {}
    /\ losses = 0 /\ breaker = FALSE
    /\ warned = {} /\ saveFailed = FALSE

-----------------------------------------------------------------------------
(* _process_strategy_logic.                                                *)

\* check_signal answers ALERT for symbols that have none, if the breaker is
\* off; those the direction filter lets through are candidates.
Scan ==
    /\ ~scanning /\ ~breaker
    /\ scanning' = TRUE
    /\ \E raised \in SUBSET (Symbols \ alerts) :
         /\ alerts' = alerts \cup raised
         /\ candidates' \in SUBSET raised
    /\ UNCHANGED <<pending, active, placed, correlated, riskVars, warned, saveFailed>>

\* The scan ends (save_processed_bars_batch); what it did is forgotten.
EndScan ==
    /\ scanning /\ candidates = {}
    /\ scanning' = FALSE /\ placed' = {} /\ correlated' = {}
    /\ UNCHANGED <<alerts, pending, active, candidates, riskVars, warned, saveFailed>>

On(i, S) == {s \in S : s.underlying = i}

ReversedTurn(i) == \* variant: indices sorted the wrong way round
    /\ On(i, candidates) # {}
    /\ \A c \in candidates : Priority[c.underlying] <= Priority[i]
Turn(i) ==
    /\ On(i, candidates) # {}
    /\ \A c \in candidates : Priority[i] <= Priority[c.underlying]

Considered(i) == candidates' = candidates \ On(i, candidates) /\ UNCHANGED scanning

ActiveOnly(i) == On(i, active) # {} \* variant: pending entries do not block
Busy(i) == On(i, active) # {} \/ On(i, pending) # {}

SkipBusy(i) ==
    /\ Turn(i) /\ Busy(i)
    /\ Considered(i)
    /\ UNCHANGED <<alerts, pending, active, placed, correlated, riskVars, warned, saveFailed>>

\* trade_record has no opt_type: no active trade ever matches a direction.
TradeOptType(s) == "missing"

AllowsOneMore(s) == \* variant: total > max_same_dir
    Cardinality({p \in pending : /\ p.opt_type = s.opt_type
                                 /\ p.underlying # s.underlying}) > MaxCorrelated

\* _check_correlation_limit answers False.
AtCorrelationLimit(s) ==
    LET Elsewhere(S) == {p \in S : p.underlying # s.underlying}
        SameActive == {t \in Elsewhere(active) : TradeOptType(t) = s.opt_type}
        SamePending == {p \in Elsewhere(pending) : p.opt_type = s.opt_type}
    IN  Cardinality(SameActive) + Cardinality(SamePending) >= MaxCorrelated

\* The candidate nearest to the spot price: any of the index's candidates.
Best(i, s) == Turn(i) /\ ~Busy(i) /\ s \in On(i, candidates)

SkipCorrelated(i) ==
    \E s \in Symbols :
        /\ Best(i, s) /\ AtCorrelationLimit(s)
        /\ correlated' = correlated \cup {s}
        /\ Considered(i)
        /\ UNCHANGED <<alerts, pending, active, placed, riskVars, warned, saveFailed>>

-----------------------------------------------------------------------------
(* _place_pending_entry for the best candidate.                            *)

Offered(i, s) == Best(i, s) /\ ~AtCorrelationLimit(s) /\ Considered(i)

ExposureCapHit == Cardinality(active) + 1 > MaxPremium

\* Daily loss limit, balance, position size: nothing is placed and the alert
\* is not consumed.
Declined(i) ==
    \E s \in Symbols :
        /\ Offered(i, s)
        /\ UNCHANGED <<alerts, pending, active, placed, correlated, riskVars, warned,
                       saveFailed>>

\* No trading symbol, the exposure cap, or the broker refused the order.
Failed(i) ==
    \E s \in Symbols :
        /\ Offered(i, s)
        /\ alerts' = alerts \ {s}
        /\ UNCHANGED <<pending, active, placed, correlated, riskVars, warned, saveFailed>>

ConsumesAlert(s) == pending' = pending \cup {s} /\ alerts' = alerts \ {s} \* variant
Tracked(s) == pending' = pending \cup {s} /\ UNCHANGED alerts

Place(i) ==
    \E s \in Symbols :
        /\ Offered(i, s) /\ ~ExposureCapHit
        /\ Tracked(s)
        /\ placed' = placed \cup {s}
        /\ UNCHANGED <<active, correlated, riskVars, warned, saveFailed>>

-----------------------------------------------------------------------------
(* The fate of a pending entry (PendingEntry).                             *)

Opened(s) == active' = active \cup {s} /\ pending' = pending \ {s}
Forgotten(s) == warned' = warned \ {s}

\* Filled, also when found filled on NEGATED: a trade.
Activate(s) ==
    /\ ~scanning /\ s \in pending
    /\ Opened(s) /\ Forgotten(s)
    /\ alerts' = alerts \ {s}
    /\ UNCHANGED <<scanVars, riskVars, saveFailed>>

\* The trade file is not written: add_active_trade raises after the cache
\* has the trade.  A whole fill leaves pending_entries, a partial one stays.
ActivateNotSaved(s) ==
    /\ ~scanning /\ s \in pending /\ ~saveFailed
    /\ saveFailed' = TRUE
    /\ active' = active \cup {s}
    /\ \/ UNCHANGED <<pending, warned>>
       \/ pending' = pending \ {s} /\ Forgotten(s)
    /\ UNCHANGED <<alerts, scanVars, riskVars>>

\* Never filled, or sold at once: no trade.  When the SL could not be placed
\* the alert is not consumed.
Lapse(s) ==
    /\ ~scanning /\ s \in pending
    /\ pending' = pending \ {s} /\ Forgotten(s)
    /\ alerts' \in {alerts, alerts \ {s}}
    /\ UNCHANGED <<active, scanVars, riskVars, saveFailed>>

\* check_signal answers NEGATED or EXPIRED: the alert is gone, and the entry
\* with it if the broker accepts the cancel.
Drop(s) ==
    /\ ~scanning /\ ~breaker /\ s \in alerts
    /\ alerts' = alerts \ {s}
    /\ \/ pending' = pending \ {s} /\ Forgotten(s)
       \/ s \in pending /\ warned' = warned \cup {s} /\ UNCHANGED pending
    /\ UNCHANGED <<active, scanVars, riskVars, saveFailed>>

-----------------------------------------------------------------------------
(* A trade closes: _update_circuit_breaker.  The count of losses is capped *)
(* at MaxLosses, beyond which only its being that large is used.           *)

Lost == IF losses < MaxLosses THEN losses + 1 ELSE losses

CloseLosing(s) ==
    /\ ~scanning /\ s \in active
    /\ active' = active \ {s}
    /\ losses' = Lost
    /\ breaker' = (breaker \/ Lost = MaxLosses)
    /\ UNCHANGED <<alerts, pending, scanVars, warned, saveFailed>>

OneWinOneLoss == losses' = losses - 1 /\ breaker' = FALSE \* variant: a win undoes one loss
ForgetsBreaker == losses' = losses /\ breaker' = FALSE \* variant: count not reset
Reset == losses' = 0 /\ breaker' = FALSE

CloseWinning(s) ==
    /\ ~scanning /\ s \in active
    /\ active' = active \ {s}
    /\ Reset
    /\ UNCHANGED <<alerts, pending, scanVars, warned, saveFailed>>

-----------------------------------------------------------------------------
Consider(i) ==
    SkipBusy(i) \/ SkipCorrelated(i) \/ Declined(i) \/ Failed(i) \/ Place(i)

Outcome(s) ==
    \/ Activate(s) \/ ActivateNotSaved(s) \/ Lapse(s) \/ Drop(s)
    \/ CloseLosing(s) \/ CloseWinning(s)

Next ==
    \/ Scan \/ EndScan
    \/ \E i \in Indices : Consider(i)
    \/ \E s \in Symbols : Outcome(s)

Spec == Init /\ [][Next]_vars

-----------------------------------------------------------------------------
(* Properties.                                                             *)

\* Type invariant.
TypeOK ==
    /\ alerts \subseteq Symbols /\ pending \subseteq Symbols /\ active \subseteq Symbols
    /\ candidates \subseteq alerts
    /\ placed \subseteq Symbols /\ correlated \subseteq Symbols
    /\ scanning \in BOOLEAN
    /\ losses \in 0..MaxLosses /\ breaker \in BOOLEAN
    /\ warned \subseteq Symbols /\ saveFailed \in BOOLEAN

\* An index never has two of: a pending entry, an active trade; through any
\* sequence of scans, late fills, failed cancels and closes.  Only a trade
\* that could not be saved may leave its entry behind.
OnePerIndex ==
    ~saveFailed =>
        /\ pending \cap active = {}
        /\ \A s, t \in pending \cup active : s.underlying = t.underlying => s = t

\* The correlation limit over the entry orders outstanding: no direction has
\* more of them than max_correlated_positions.
PendingWithinLimit ==
    \A d \in OptTypes :
        Cardinality({s \in pending : s.opt_type = d}) <= MaxCorrelated

\* A slot under the correlation limit goes by priority: within a scan no index
\* is given a direction that an index of higher priority was refused.
SlotsByPriority ==
    \A r \in correlated, p \in placed :
        p.opt_type = r.opt_type => Priority[p.underlying] < Priority[r.underlying]

\* Every tracked entry has its alert, so that NEGATED or EXPIRED will cancel
\* it, unless the owner was told that the cancel failed.
BackedOrWarned == \A s \in pending : s \in alerts \/ s \in warned

\* The breaker is on exactly while the last max_consecutive_losses closed
\* trades all lost: no entry order is placed then.
BreakerStops == [][losses = MaxLosses => pending' \subseteq pending]_vars

-----------------------------------------------------------------------------
(* Said of the program and not upheld by it.  No run checks these (README). *)

\* max_correlated_positions as config.yaml has it: "Max positions allowed
\* across different indices", pending or active, in one direction.
DirectionLimit ==
    \A d \in OptTypes :
        Cardinality({s \in pending \cup active : s.opt_type = d}) <= MaxCorrelated

\* "No new trades for rest of session" once the breaker is active: it stays
\* active (leaving aside trades that could not be saved).
BreakerHolds == [][breaker /\ ~saveFailed => breaker']_vars

=============================================================================
