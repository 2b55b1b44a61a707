--------------------------- MODULE PendingEntry ---------------------------
(***************************************************************************)
(* The life of an entry order in live mode: from the SL-M BUY placed by    *)
(* _place_pending_entry, through the order monitor, the 30 s timeout, the  *)
(* cancellation on NEGATED/EXPIRED and the square-off, to the trade that   *)
(* _activate_trade_from_pending creates.  One underlying index is          *)
(* modelled: at most one entry is tracked at a time (module Portfolio).    *)
(*                                                                         *)
(* The trader is one thread, but each call to the broker is a step of its  *)
(* own: between two calls the exchange may fill, reject or cancel the      *)
(* order, so every decision is taken on a status that may be stale.        *)
(*                                                                         *)
(* What the broker may do is a set of fault kinds, chosen initially:       *)
(*   partial  the order fills in pieces                                    *)
(*   race     an accepted cancel takes effect later                        *)
(*   status   get_order_status answers {"status": "ERROR"}                 *)
(*   cancel   a cancel request fails on a live order                       *)
(*   reject   the exchange rejects the order                               *)
(*   fail     the broker reports the order FAILED                          *)
(*   sl       all three SL placements fail                                 *)
(*   exit     a market exit order is refused                               *)
(*   price    a partial fill is reported with price 0                      *)
(*   disk     the trade file cannot be written (once)                      *)
(***************************************************************************)
EXTENDS Naturals

CONSTANTS
    Qty,           \* units of an entry order: lot_size * lots_per_trade
    MaxEntries,    \* bound: entry orders placed in the session
    CancelRetries, \* max_retries of _cancel_with_retry
    FaultModels    \* sets of fault kinds the broker may exhibit

FaultKinds == {"partial", "race", "status", "cancel", "reject", "fail", "sl",
               "exit", "price", "disk"}

ASSUME PendingEntryAssumption ==
    /\ Qty \in Nat \ {0}
    /\ MaxEntries \in Nat \ {0}
    /\ CancelRetries \in Nat \ {0}
    /\ FaultModels \subseteq SUBSET FaultKinds

Orders == 1..MaxEntries
NoOrder == 0

VARIABLES
    st,         \* broker: status of each entry order
    filled,     \* broker: units it has filled
    cxl,        \* broker: a cancel was accepted for it
    faults,     \* broker: the fault kinds of this session
    pending,    \* trader: the order in pending_entries, or NoOrder
    aged,       \* trader: placed_at is more than 30 s ago
    alert,      \* strategy: the alert behind the pending entry is not consumed
    pc,         \* trader: where the handler in progress has got to
    seen,       \* trader: the order status last returned to the handler
    tries,      \* trader: attempts of _cancel_with_retry so far
    trades,     \* trader: trade records created from each entry order
    managed,    \* trader: units in those trades, each covered by an SL order
    sold,       \* trader: units of accepted market exit orders
    how,        \* trader: why the entry left pending_entries
    warned,     \* entry orders the operator was told to look at
    saveFailed, \* the one failure to write the trade file has happened
    done        \* the square-off has run: the session's entries are over

orderVars == <<st, filled, cxl>>
bookVars == <<trades, managed, sold, how, saveFailed>>
traderVars == <<pending, aged, alert, pc, seen, tries, bookVars, warned, done>>
vars == <<orderVars, faults, traderVars>>
brokerVars == <<orderVars, faults>>

LiveStatus == {"open", "partial"}
DeadStatus == {"cancelled", "rejected", "failed"}
Terminal == DeadStatus \cup {"complete"}
\* What the timeout test and _cancel_with_retry take for final: not FAILED.
Confirmed == Terminal \ {"failed"}

Status == [st : LiveStatus \cup Terminal \cup {"ERROR"}, filled : 0..Qty]
Reasons == {"none", "trade", "lapsed", "negated", "sqoff"}
Handler == {"idle", "polled", "recheck", "decide", "trim", "trimCheck",
            "negating", "sqoff"}

NoStatus == [st |-> "ERROR", filled |-> 0]

Init ==
    /\ st = [o \in Orders |-> "none"]
    /\ filled = [o \in Orders |-> 0]
    /\ cxl = [o \in Orders |-> FALSE]
    /\ faults \in FaultModels
    /\ pending = NoOrder
    /\ aged = FALSE
    /\ alert = FALSE
    /\ pc = "idle"
    /\ seen = NoStatus
    /\ tries = 0
    /\ trades = [o \in Orders |-> 0]
    /\ managed = [o \in Orders |-> 0]
    /\ sold = [o \in Orders |-> 0]
    /\ how = [o \in Orders |-> "none"]
    /\ warned = {}
    /\ saveFailed = FALSE
    /\ done = FALSE

-----------------------------------------------------------------------------
(* The exchange.                                                           *)

Live(o) == st[o] \in LiveStatus

Fill(o) ==
    /\ Live(o)
    /\ \E n \in (filled[o] + 1)..Qty :
         /\ n < Qty => "partial" \in faults
         /\ filled' = [filled EXCEPT ![o] = n]
         /\ st' = [st EXCEPT ![o] = IF n = Qty THEN "complete" ELSE "partial"]
    /\ UNCHANGED <<cxl, faults, traderVars>>

Reject(o) ==
    /\ st[o] = "open"
    /\ \/ "reject" \in faults /\ st' = [st EXCEPT ![o] = "rejected"]
       \/ "fail" \in faults /\ st' = [st EXCEPT ![o] = "failed"]
    /\ UNCHANGED <<filled, cxl, faults, traderVars>>

\* A cancel accepted earlier takes effect.
CancelSettles(o) ==
    /\ Live(o) /\ cxl[o]
    /\ st' = [st EXCEPT ![o] = "cancelled"]
    /\ UNCHANGED <<filled, cxl, faults, traderVars>>

-----------------------------------------------------------------------------
(* Broker calls of the trader: their effect and the answers they may give. *)

Actual(o) == [st |-> st[o], filled |-> filled[o]]

OnlyFilled(r) == r.st = "filled" \* variant: the spelling COMPLETE is not known
IsOrderFilled(r) == r.st = "complete"

Reads(o) == {Actual(o)} \cup (IF "status" \in faults THEN {NoStatus} ELSE {})

CancelAccepted(o) ==
    /\ Live(o)
    /\ cxl' = [cxl EXCEPT ![o] = TRUE]
    /\ st' = IF "race" \in faults THEN st ELSE [st EXCEPT ![o] = "cancelled"]
    /\ UNCHANGED <<filled, faults>>

CancelRefused(o) ==
    /\ Live(o) => "cancel" \in faults
    /\ UNCHANGED brokerVars

\* Units a market exit order for q units disposes of: its result is ignored.
ExitUnits(q) == {q} \cup (IF "exit" \in faults THEN {0} ELSE {})

-----------------------------------------------------------------------------
(* _activate_trade_from_pending(pending, fill_price, q): the record of     *)
(* what a call that gets q units does.  raised: the save in                *)
(* add_active_trade raised after the cache was updated and the SL and      *)
(* target orders were placed.  A failed SL placement returns without       *)
(* consuming the alert.                                                    *)

Activation(t, m, s, c, x) ==
    [trades |-> t, managed |-> m, sold |-> s, consumed |-> c, raised |-> x]

TradeCreated(q) == Activation(1, q, 0, TRUE, FALSE)
TradeNotSaved(q) == Activation(1, q, 0, FALSE, TRUE)
GapAbort(s) == Activation(0, 0, s, TRUE, FALSE)
SlFailed(s) == Activation(0, 0, s, FALSE, FALSE)

Activations(q) ==
    {TradeCreated(q)}
    \cup {GapAbort(s) : s \in ExitUnits(q)}
    \cup (IF "sl" \in faults THEN {SlFailed(s) : s \in ExitUnits(q)} ELSE {})
    \cup (IF "disk" \in faults /\ ~saveFailed THEN {TradeNotSaved(q)} ELSE {})

\* Activation a of the pending order, which leaves it tracked ("none") or
\* takes it out of pending_entries for reason h.
Booked(a, h) ==
    /\ trades' = [trades EXCEPT ![pending] = @ + a.trades]
    /\ managed' = [managed EXCEPT ![pending] = @ + a.managed]
    /\ sold' = [sold EXCEPT ![pending] = @ + a.sold]
    /\ how' = [how EXCEPT ![pending] = h]
    /\ saveFailed' = (saveFailed \/ a.raised)

Consumed(a) == alert' = (alert /\ ~a.consumed)

StaysTracked(h) == \* variant: the entry is not deleted from pending_entries
    /\ pending' = pending
    /\ how' = [how EXCEPT ![pending] = h]
    /\ UNCHANGED <<trades, managed, sold, saveFailed>>
Untrack(h) ==
    /\ pending' = NoOrder
    /\ how' = [how EXCEPT ![pending] = h]
    /\ UNCHANGED <<trades, managed, sold, saveFailed>>

-----------------------------------------------------------------------------
(* _place_pending_entry: the SL-M BUY is accepted and tracked.  The paths  *)
(* that place nothing are in module Portfolio.  An index with an active    *)
(* trade places no entry.                                                  *)

NextOrder(o) == st[o] = "none" /\ \A p \in 1..(o - 1) : st[p] # "none"

PlaceEntry ==
    /\ pc = "idle" /\ ~done /\ pending = NoOrder
    /\ \A o \in Orders : managed[o] = 0
    /\ \E o \in Orders :
         /\ NextOrder(o)
         /\ st' = [st EXCEPT ![o] = "open"]
         /\ pending' = o
    /\ aged' = FALSE
    /\ alert' = TRUE
    /\ UNCHANGED <<filled, cxl, faults, pc, seen, tries, bookVars, warned, done>>

\* 30 s have passed since placed_at.
Age ==
    /\ pending # NoOrder /\ ~aged
    /\ aged' = TRUE
    /\ UNCHANGED <<brokerVars, pending, alert, pc, seen, tries, bookVars, warned, done>>

-----------------------------------------------------------------------------
(* _monitor_pending_entries, live branch.                                  *)

\* om.check_order_fill for the pending order.
PollWith(r) ==
    /\ pc = "idle" /\ ~done /\ pending # NoOrder
    /\ seen' = r
    /\ pc' = "polled"
    /\ UNCHANGED <<brokerVars, pending, aged, alert, tries, bookVars, warned, done>>

PollSees == pending # NoOrder /\ PollWith(Actual(pending))
PollError == "status" \in faults /\ PollWith(NoStatus)

TimesOutPartialOnly == aged /\ seen.st = "partial" \* variant: unfilled orders never time out
TimedOut == aged /\ seen.st \notin Confirmed

\* The timeout cancels; if the cancel fails the entry stays tracked.
TimeoutCancelOk ==
    /\ pc = "polled" /\ TimedOut
    /\ CancelAccepted(pending)
    /\ pc' = "recheck"
    /\ UNCHANGED <<pending, aged, alert, seen, tries, bookVars, warned, done>>

TimeoutCancelFails ==
    /\ pc = "polled" /\ TimedOut
    /\ CancelRefused(pending)
    /\ pc' = "idle"
    /\ warned' = warned \cup {pending}
    /\ UNCHANGED <<pending, aged, alert, seen, tries, bookVars, done>>

\* The re-read after the cancel: an order that is still not terminal is kept
\* and its timer restarts.
RecheckWith(r) ==
    /\ pc = "recheck"
    /\ seen' = r
    /\ IF r.st \in Terminal
       THEN pc' = "decide" /\ UNCHANGED aged
       ELSE pc' = "idle" /\ aged' = FALSE
    /\ UNCHANGED <<brokerVars, pending, alert, tries, bookVars, warned, done>>

RecheckSees == pc = "recheck" /\ RecheckWith(Actual(pending))
RecheckError == "status" \in faults /\ RecheckWith(NoStatus)

Deciding == pc = "decide" \/ (pc = "polled" /\ ~TimedOut)

\* TRIGGER_PENDING, OPEN, ERROR match no branch: wait for the next poll.
KeepWaiting ==
    /\ Deciding /\ ~IsOrderFilled(seen) /\ seen.st \notin DeadStatus \cup {"partial"}
    /\ pc' = "idle"
    /\ UNCHANGED <<brokerVars, pending, aged, alert, seen, tries, bookVars, warned, done>>

\* COMPLETE: activate with the broker's quantity; the entry is removed even
\* when the activation raises.
FilledActivate ==
    /\ Deciding /\ IsOrderFilled(seen)
    /\ \E a \in Activations(seen.filled) :
         /\ Consumed(a)
         /\ Booked(a, "trade")
         /\ warned' = IF a.raised THEN warned \cup {pending} ELSE warned
    /\ pending' = NoOrder
    /\ pc' = "idle"
    /\ UNCHANGED <<brokerVars, aged, seen, tries, done>>

OrderedUnits(r) == Qty \* variant: sized by the order, not by the fill
FilledUnits(r) == r.filled

\* PARTIALLY_FILLED: activate the filled part, then cancel the remainder; an
\* activation that raises leaves the entry in pending_entries.
PartialActivate ==
    /\ Deciding /\ seen.st = "partial"
    /\ \E a \in Activations(FilledUnits(seen)) :
         /\ Consumed(a)
         /\ Booked(a, "none")
         /\ warned' = IF a.raised THEN warned \cup {pending} ELSE warned
         /\ pc' = IF a.raised THEN "idle" ELSE "trim"
         /\ tries' = IF a.raised THEN tries ELSE 1
    /\ UNCHANGED <<brokerVars, pending, aged, seen, done>>

\* A partial fill at price 0 is refused by the activation, with an alert to
\* the owner, and handled as an activation otherwise.
PartialBadPrice ==
    /\ Deciding /\ seen.st = "partial" /\ "price" \in faults
    /\ warned' = warned \cup {pending}
    /\ alert' = FALSE
    /\ pc' = "trim"
    /\ tries' = 1
    /\ UNCHANGED <<brokerVars, pending, aged, seen, bookVars, done>>

\* _cancel_with_retry on the remainder: the result of the cancel is ignored,
\* the status read after it decides.
TrimCancel ==
    /\ pc = "trim"
    /\ CancelAccepted(pending) \/ CancelRefused(pending)
    /\ pc' = "trimCheck"
    /\ UNCHANGED <<pending, aged, alert, seen, tries, bookVars, warned, done>>

RetriesAgain == tries <= CancelRetries \* variant: one attempt too many
RetriesLeft == tries < CancelRetries

TrimCheck ==
    /\ pc = "trimCheck"
    /\ \E r \in Reads(pending) :
         /\ seen' = r
         /\ \/ /\ r.st \in Confirmed
               /\ Untrack("trade")
               /\ pc' = "idle"
               /\ UNCHANGED <<tries, warned>>
            \/ /\ r.st \notin Confirmed /\ RetriesLeft
               /\ tries' = tries + 1
               /\ pc' = "trim"
               /\ UNCHANGED <<pending, bookVars, warned>>
            \/ /\ r.st \notin Confirmed /\ ~RetriesLeft
               /\ warned' = warned \cup {pending}
               /\ Untrack("trade")
               /\ pc' = "idle"
               /\ UNCHANGED tries
    /\ UNCHANGED <<brokerVars, aged, alert, done>>

\* CANCELLED, REJECTED, FAILED: a part filled before the order died becomes a stub
\* trade.  An activation that raises is only logged: the entry stays.
DeadActivate ==
    /\ Deciding /\ seen.st \in DeadStatus /\ seen.filled > 0
    /\ \E a \in Activations(seen.filled) :
         /\ alert' = (a.raised /\ alert)
         /\ Booked(a, IF a.raised THEN "none" ELSE "lapsed")
         /\ pending' = IF a.raised THEN pending ELSE NoOrder
    /\ pc' = "idle"
    /\ UNCHANGED <<brokerVars, aged, seen, tries, warned, done>>

DropsPartialFill == \* variant: no stub trade for a partial fill
    /\ Deciding /\ seen.st \in DeadStatus
    /\ Untrack("lapsed")
    /\ alert' = FALSE
    /\ pc' = "idle"
    /\ UNCHANGED <<brokerVars, aged, seen, tries, warned, done>>

DeadDrop ==
    /\ Deciding /\ seen.st \in DeadStatus /\ seen.filled = 0
    /\ Untrack("lapsed")
    /\ alert' = FALSE
    /\ pc' = "idle"
    /\ UNCHANGED <<brokerVars, aged, seen, tries, warned, done>>

-----------------------------------------------------------------------------
(* _cancel_pending_entry: the strategy answered NEGATED or EXPIRED (it has *)
(* dropped its alert) and the status is read before the cancel.            *)

NegateBegin ==
    /\ pc = "idle" /\ ~done /\ pending # NoOrder /\ alert
    /\ alert' = FALSE
    /\ seen' \in Reads(pending)
    /\ pc' = "negating"
    /\ UNCHANGED <<brokerVars, pending, aged, tries, bookVars, warned, done>>

\* Filled meanwhile: activate the ordered quantity.  An activation that
\* raises falls through to the cancel.
NegateFilled ==
    /\ pc = "negating" /\ IsOrderFilled(seen)
    /\ \E a \in Activations(Qty) :
         /\ Consumed(a)
         /\ Booked(a, IF a.raised THEN "none" ELSE "trade")
         /\ pending' = IF a.raised THEN pending ELSE NoOrder
         /\ pc' = IF a.raised THEN "negating" ELSE "idle"
         /\ seen' = IF a.raised THEN NoStatus ELSE seen
    /\ UNCHANGED <<brokerVars, aged, tries, warned, done>>

NegateCancelOk ==
    /\ pc = "negating" /\ ~IsOrderFilled(seen)
    /\ CancelAccepted(pending)
    /\ Untrack("negated")
    /\ pc' = "idle"
    /\ UNCHANGED <<aged, alert, seen, tries, warned, done>>

\* The cancel failed: the entry stays monitored.
NegateForgets == pending' = NoOrder /\ UNCHANGED bookVars \* variant: dropped anyway
NegateKeeps == UNCHANGED <<pending, bookVars>>

NegateCancelFails ==
    /\ pc = "negating" /\ ~IsOrderFilled(seen)
    /\ CancelRefused(pending)
    /\ NegateKeeps
    /\ warned' = warned \cup {pending}
    /\ pc' = "idle"
    /\ UNCHANGED <<aged, alert, seen, tries, done>>

-----------------------------------------------------------------------------
(* _cancel_all_pending_entries_at_sqoff, from the square-off and the kill  *)
(* switch: pending_entries is cleared whatever the calls answered.         *)

SqOffBegin ==
    /\ pc = "idle" /\ ~done
    /\ \/ /\ pending = NoOrder
          /\ done' = TRUE
          /\ UNCHANGED <<seen, pc>>
       \/ /\ pending # NoOrder
          /\ seen' \in Reads(pending)
          /\ pc' = "sqoff"
          /\ UNCHANGED done
    /\ UNCHANGED <<brokerVars, pending, aged, alert, tries, bookVars, warned>>

SqOffFilled ==
    /\ pc = "sqoff" /\ IsOrderFilled(seen)
    /\ \E a \in Activations(Qty) :
         /\ Consumed(a)
         /\ Booked(a, IF a.raised THEN "none" ELSE "trade")
         /\ pending' = IF a.raised THEN pending ELSE NoOrder
         /\ pc' = IF a.raised THEN "sqoff" ELSE "idle"
         /\ seen' = IF a.raised THEN NoStatus ELSE seen
         /\ done' = ~a.raised
    /\ UNCHANGED <<brokerVars, aged, tries, warned>>

SqOffCancel ==
    /\ pc = "sqoff" /\ ~IsOrderFilled(seen)
    /\ CancelAccepted(pending) \/ CancelRefused(pending)
    /\ Untrack("sqoff")
    /\ done' = TRUE
    /\ pc' = "idle"
    /\ UNCHANGED <<aged, alert, seen, tries, warned>>

-----------------------------------------------------------------------------
Broker == \E o \in Orders : Fill(o) \/ Reject(o) \/ CancelSettles(o)

\* Steps of a handler that has begun.
Handling ==
    \/ TimeoutCancelOk \/ TimeoutCancelFails
    \/ RecheckSees \/ RecheckError
    \/ KeepWaiting \/ FilledActivate \/ PartialActivate \/ PartialBadPrice
    \/ TrimCancel \/ TrimCheck \/ DeadActivate \/ DeadDrop
    \/ NegateFilled \/ NegateCancelOk \/ NegateCancelFails
    \/ SqOffFilled \/ SqOffCancel

Next ==
    \/ Broker
    \/ PlaceEntry \/ Age
    \/ PollSees \/ PollError
    \/ Handling
    \/ NegateBegin \/ SqOffBegin

Spec == Init /\ [][Next]_vars

(***************************************************************************)
(* The main loop polls every order_poll_interval_seconds and a handler     *)
(* runs to its end; the clock advances; an accepted cancel takes effect.   *)
(* A status lookup or a cancel repeated forever succeeds at some point.    *)
(***************************************************************************)
Fairness ==
    /\ WF_vars(Age)
    /\ WF_vars(Handling)
    /\ SF_vars(PollSees)
    /\ SF_vars(RecheckSees)
    /\ SF_vars(TimeoutCancelOk)
    /\ \A o \in Orders : WF_vars(CancelSettles(o))

FairSpec == Spec /\ Fairness

-----------------------------------------------------------------------------
(* Properties.                                                             *)

\* Type invariant.
TypeOK ==
    /\ st \in [Orders -> LiveStatus \cup Terminal \cup {"none"}]
    /\ filled \in [Orders -> 0..Qty]
    /\ cxl \in [Orders -> BOOLEAN]
    /\ faults \in FaultModels
    /\ pending \in Orders \cup {NoOrder}
    /\ aged \in BOOLEAN /\ alert \in BOOLEAN
    /\ pc \in Handler
    /\ seen \in Status
    /\ tries \in 0..CancelRetries
    /\ trades \in [Orders -> Nat] /\ managed \in [Orders -> Nat]
    /\ sold \in [Orders -> Nat] /\ how \in [Orders -> Reasons]
    /\ warned \in SUBSET Orders
    /\ saveFailed \in BOOLEAN /\ done \in BOOLEAN

\* Every unit that a trade record or a market exit disposes of was bought:
\* whatever the broker does between two calls, and however stale the status
\* acted on, the trader never sells more than it holds.  A failed save of the
\* trade file is the exception: the entry may then be activated again.
NeverOversold ==
    \A o \in Orders : saveFailed \/ managed[o] + sold[o] <= filled[o]

\* One entry order is activated at most once: the monitor, the negation path
\* and the square-off never each make a trade of the same fill.
OneTradePerEntry ==
    \A o \in Orders : trades[o] <= 1 \/ saveFailed

\* An entry dropped because its order was seen dead is settled: the order can
\* no longer fill, and whatever it had filled is in a stub trade or was sold.
\* The cancel racing a fill is the hazard ([BUG-TIMEOUT-CANCEL-RACE-01]).
LapsedIsSettled ==
    \A o \in Orders :
        how[o] = "lapsed" =>
            /\ ~Live(o)
            /\ "exit" \notin faults =>
                  filled[o] <= managed[o] + sold[o]

\* "Never hold an unprotected position": between handlers, until the
\* square-off, every unit bought is covered by an SL order, was sold at
\* market, or belongs to the entry still monitored, provided that orders fill
\* whole, cancels are final and market exits are accepted.
Wholesome == faults \cap {"partial", "race", "exit", "disk"} = {}
NoUnprotectedUnits ==
    Wholesome /\ pc = "idle" /\ ~done =>
        \A o \in Orders :
            \/ o = pending
            \/ ~Live(o) /\ filled[o] = managed[o] + sold[o]

\* The handlers, the broker's answers and their races together implement the
\* entry slot: whatever is interleaved, an order takes the slot of an index
\* without a trade, what it bought is taken over once and never more than it
\* bought, it leaves the slot once, and one that lapsed buys nothing more.
Slot == INSTANCE EntrySlot WITH
    slot <- pending,
    used <- {o \in Orders : st[o] # "none"},
    outcome <- how,
    bought <- filled,
    kept <- managed,
    dumped <- sold,
    refuses <- "exit" \in faults,
    unsaved <- saveFailed
ImplementsSlot == Slot!Spec

\* A filled entry does not stay in the monitor: it becomes a trade, is sold,
\* or the session is squared off.
FilledGetsManaged ==
    \A o \in Orders :
        (pending = o /\ st[o] = "complete") ~> (pending # o \/ done)

\* The 30 s timeout resolves every entry: an unfilled order does not hold the
\* index until the square-off, unless the broker reports it FAILED.
EntryResolves ==
    \A o \in Orders :
        (pending = o /\ "fail" \notin faults) ~> (pending # o \/ done)

-----------------------------------------------------------------------------
(* Said of the program and not upheld by it.  No run checks these (README). *)

\* The docstring of _cancel_pending_entry: it guards against "silently
\* orphaning a live position".  An entry it dropped has nothing bought that no
\* trade manages.
NegationLeavesNoPosition ==
    \A o \in Orders :
        how[o] = "negated" =>
            filled[o] = managed[o] + sold[o]

=============================================================================
