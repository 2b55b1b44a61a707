----------------------------- MODULE ExitOrders -----------------------------
(***************************************************************************)
(* The exit of one live trade, from the moment it is activated: its stop   *)
(* (SL-M) and target (LIMIT) orders at the exchange, the trade monitor     *)
(* that polls them, the trailing of the stop, its re-placement, and the    *)
(* ways a trade is closed at market.  There is no OCO: the exchange knows  *)
(* nothing of the other orders when it fills one.                          *)
(*                                                                         *)
(* A step is a poll of one order with what the monitor does about it, or   *)
(* one _cancel_with_retry; between two steps the exchange moves.  Status   *)
(* and action are one step where the status acted on is final, for then    *)
(* nothing the exchange does in between makes a difference.                *)
(*                                                                         *)
(* The prices that matter are the first stop, the cost and TP1, in this    *)
(* order: a fill above TP1, a gap of at most gap_recalc_pct over an alert  *)
(* range smaller still, is left out.                                       *)
(*                                                                         *)
(* What may go wrong is a set of fault kinds, chosen initially:            *)
(*   status   get_order_status returns None                                *)
(*   cancel   cancel requests fail on a live order                         *)
(*   modify   the modification of the stop fails                           *)
(*   exit     a market exit order is refused                               *)
(*   partial  orders fill in pieces                                        *)
(*   dead     the exchange cancels the stop                                *)
(*   replace  a stop cannot be placed again                                *)
(*   target   a target order could not be placed at activation, or the     *)
(*            exchange cancels it                                          *)
(***************************************************************************)
EXTENDS Integers, Sequences

CONSTANTS
    Qty,          \* units bought
    LotSize,
    Modes,        \* exit modes: subset of {"multi_lot", "single_lot"}
    SingleTarget, \* single_lot_exit_target
    MaxStops,     \* bound: stop orders placed for the trade
    MaxBooked,    \* bound: the units booked are counted up to it
    FaultModels   \* sets of fault kinds

FaultKinds == {"status", "cancel", "modify", "exit", "partial", "dead",
               "replace", "target"}

ASSUME ExitOrdersAssumption ==
    /\ Qty \in Nat \ {0} /\ LotSize \in Nat \ {0}
    /\ Modes \subseteq {"multi_lot", "single_lot"}
    /\ SingleTarget \in 1..3
    /\ MaxStops \in Nat \ {0}
    /\ MaxBooked \in Nat /\ MaxBooked > Qty
    /\ FaultModels \subseteq SUBSET FaultKinds

\* Orders are numbered: the targets by their level, then the stops.
Targets == 1..3
Stops == 4..(3 + MaxStops)
Orders == Targets \cup Stops
LastStop == 3 + MaxStops

VARIABLES
    mode,      \* exit_orders.mode
    faults,    \* the fault kinds of this session
    st,        \* exchange: status of each order
    qty,       \* exchange: its quantity
    filled,    \* exchange: units it has sold
    level,     \* exchange: trigger of each stop: 0 initial, 1 cost, 2 TP1
    sold,      \* units sold by the trade's orders and market exits
    active,    \* the trade is active in the tracker
    how,       \* how it was closed
    slId,      \* sl_order_id of the trade
    targetIds, \* target_order_ids that are not None
    trail,     \* exit_orders.trail_state
    currentSl, \* exit_orders.current_sl, as a level
    remaining, \* remaining_qty
    booked,    \* units whose profit or loss is in daily_pnl
    pc,        \* where the handler in progress has got to
    sl,        \* its local copy of sl_order_id
    next,      \* the target it polls next
    queue,     \* orders it has still to cancel
    warned     \* orders the owner was told may still be live

exchangeVars == <<st, qty, filled, level>>
recordVars == <<active, how, slId, targetIds, trail, currentSl, remaining>>
handlerVars == <<pc, sl, next, queue>>
vars == <<mode, faults, exchangeVars, sold, recordVars, booked, handlerVars, warned>>

LiveStatus == {"open", "partial"}
Live(o) == st[o] \in LiveStatus

-----------------------------------------------------------------------------
(* place_partial_exits: the quantity of each target order; 0 places none.  *)

LotsPerTp == (Qty \div LotSize) \div 3
TargetQty(m, l) ==
    IF m = "single_lot" THEN IF l = SingleTarget THEN Qty ELSE 0
    ELSE IF l = 3 THEN Qty - 2 * LotsPerTp * LotSize ELSE LotsPerTp * LotSize

Planned(m) == {l \in Targets : TargetQty(m, l) > 0}

\* The trade as _activate_trade_from_pending leaves it.
Init ==
    /\ mode \in Modes /\ faults \in FaultModels
    /\ targetIds \in {T \in SUBSET Planned(mode) :
                        "target" \in faults \/ T = Planned(mode)}
    /\ slId = 4 /\ sl = 4
    /\ st = [o \in Orders |-> IF o \in targetIds \cup {slId} THEN "open" ELSE "none"]
    /\ qty = [o \in Orders |-> IF o \in targetIds THEN TargetQty(mode, o)
                               ELSE IF o = slId THEN Qty ELSE 0]
    /\ filled = [o \in Orders |-> 0]
    /\ level = [o \in Stops |-> 0]
    /\ active = TRUE /\ how = "none"
    /\ trail = 0 /\ currentSl = 0
    /\ remaining = Qty /\ booked = 0 /\ sold = 0
    /\ pc = "idle" /\ next = 1 /\ queue = <<>>
    /\ warned = {}

-----------------------------------------------------------------------------
(* The exchange.  The price reaches a target after the targets below it.   *)

Fill(o) ==
    /\ Live(o)
    /\ o \in Targets => \A l \in 1..(o - 1) : ~Live(l)
    /\ \E n \in (filled[o] + 1)..qty[o] :
         /\ n < qty[o] => "partial" \in faults
         /\ filled' = [filled EXCEPT ![o] = n]
         /\ st' = [st EXCEPT ![o] = IF n = qty[o] THEN "complete" ELSE "partial"]
         /\ sold' = sold + n - filled[o]
    /\ UNCHANGED <<mode, faults, qty, level, recordVars, booked, handlerVars, warned>>

Kill(o) ==
    /\ (IF o \in Targets THEN "target" ELSE "dead") \in faults
    /\ active /\ Live(o) /\ o < LastStop
    /\ st' = [st EXCEPT ![o] = "cancelled"]
    /\ UNCHANGED <<mode, faults, qty, filled, level, sold, recordVars, booked,
                   handlerVars, warned>>

-----------------------------------------------------------------------------
(* Broker calls.                                                           *)

Unreadable == "status" \in faults

\* om.cancel_order: a failure is only logged.
CancelOnce(o) ==
    \/ Live(o) /\ st' = [st EXCEPT ![o] = "cancelled"]
    \/ (Live(o) => "cancel" \in faults) /\ UNCHANGED st

\* Variant: the owner is not told.
CancelQuietly(o) == CancelOnce(o) /\ UNCHANGED warned

\* _cancel_with_retry: ends with the order known to be final, or tells the
\* owner that it may still be live; its answer is ignored by the callers.
CancelWithRetry(o) ==
    \/ /\ st' = IF Live(o) THEN [st EXCEPT ![o] = "cancelled"] ELSE st
       /\ \/ UNCHANGED warned
          \/ Unreadable /\ warned' = warned \cup {o}
    \/ /\ "cancel" \in faults /\ Live(o)
       /\ UNCHANGED st /\ warned' = warned \cup {o}

\* Variant: the quantity that was sold, not the one that is left.
ModifyToSold(o, l, q) ==
    /\ level' = [level EXCEPT ![o] = l]
    /\ qty' = [qty EXCEPT ![o] = IF Live(o) THEN Qty - q ELSE @]

\* om.modify_sl_order; its answer is ignored.
ModifyStop(o, l, q) ==
    \/ /\ Live(o) /\ q > filled[o]
       /\ level' = [level EXCEPT ![o] = l]
       /\ qty' = [qty EXCEPT ![o] = q]
    \/ /\ (Live(o) /\ q > filled[o]) => "modify" \in faults
       /\ UNCHANGED <<level, qty>>

\* place_exit_order for what the record says is left.
SellRemaining ==
    \/ sold' = sold + remaining
    \/ "exit" \in faults /\ UNCHANGED sold

Close(h) == active' = FALSE /\ how' = h
KeepRecord == UNCHANGED <<active, how, slId, targetIds>>
Book(n) == booked' = IF booked + n > MaxBooked THEN MaxBooked ELSE booked + n

\* The handler is done with the trade.
EndPass == pc' = "idle" /\ next' = 1 /\ sl' = slId /\ queue' = <<>>

-----------------------------------------------------------------------------
(* _monitor_active_trades for this trade, live.                            *)

\* Variant: a trade with nothing left is passed over.
InPassHolding == active /\ pc \in {"idle", "sl"} /\ remaining > 0
InPass == active /\ pc \in {"idle", "sl"}

\* Single lot: the price has crossed the next target below the exit target.
TrailSingle ==
    /\ InPass /\ mode = "single_lot"
    /\ trail < SingleTarget - 1 /\ trail + 1 > currentSl
    /\ ModifyStop(slId, trail + 1, remaining)
    /\ trail' = trail + 1 /\ currentSl' = trail + 1
    /\ pc' = "sl"
    /\ KeepRecord
    /\ UNCHANGED <<mode, faults, st, filled, sold, remaining, booked, sl, next,
                   queue, warned>>

\* The targets that are not None, in the order the code visits them.
OnlyIn(S, l) == IF l \in S THEN <<l>> ELSE <<>>
Ascending(S) == OnlyIn(S, 1) \o OnlyIn(S, 2) \o OnlyIn(S, 3)

StopFilled ==
    /\ InPass /\ st[slId] = "complete"
    /\ pc' = "slHit" /\ queue' = Ascending(targetIds)
    /\ UNCHANGED <<mode, faults, exchangeVars, sold, recordVars, booked, sl, next, warned>>

\* Only reported; the targets are not looked at either.
StopPartial ==
    /\ InPass /\ st[slId] = "partial"
    /\ EndPass
    /\ UNCHANGED <<mode, faults, exchangeVars, sold, recordVars, booked, warned>>

\* Open, or no status: on to the targets.
StopOpen ==
    /\ InPass
    /\ st[slId] = "open" \/ Unreadable
    /\ pc' = "targets" /\ next' = 1 /\ sl' = slId
    /\ UNCHANGED <<mode, faults, exchangeVars, sold, recordVars, booked, queue, warned>>

ReplaceAtSl == 0 \* variant: the stop of the entry
ReplaceAt == currentSl

\* Cancelled by the exchange: placed again for what is left, at the trailed
\* price.  The pass goes on to the targets with the old id in sl_order_id.
StopReplaced ==
    /\ InPass /\ st[slId] = "cancelled" /\ slId < LastStop
    /\ slId' = slId + 1 /\ sl' = slId
    /\ st' = [st EXCEPT ![slId'] = "open"]
    /\ qty' = [qty EXCEPT ![slId'] = remaining]
    /\ level' = [level EXCEPT ![slId'] = ReplaceAt]
    /\ pc' = "targets" /\ next' = 1
    /\ UNCHANGED <<mode, faults, filled, sold, active, how, targetIds, trail, currentSl,
                   remaining, booked, queue, warned>>

\* It cannot be placed: sold at market, the targets stay where they are.
StopLost ==
    /\ InPass /\ st[slId] = "cancelled" /\ "replace" \in faults
    /\ SellRemaining
    /\ Close("lost")
    /\ EndPass
    /\ UNCHANGED <<mode, faults, exchangeVars, slId, targetIds, trail, currentSl,
                   remaining, booked, warned>>

\* The stop is filled: the targets are cancelled, then the trade is closed
\* with the broker's quantity.
CancelTargets ==
    /\ pc = "slHit" /\ queue # <<>>
    /\ CancelWithRetry(Head(queue))
    /\ queue' = Tail(queue)
    /\ UNCHANGED <<mode, faults, qty, filled, level, sold, recordVars, booked, pc,
                   sl, next>>

CloseStopped ==
    /\ pc = "slHit" /\ queue = <<>>
    /\ Book(filled[slId])
    /\ Close("stop")
    /\ EndPass
    /\ UNCHANGED <<mode, faults, exchangeVars, sold, slId, targetIds, trail, currentSl,
                   remaining, warned>>

-----------------------------------------------------------------------------
(* The targets, one after the other.                                       *)

Polled(l) == pc = "targets" /\ next = l /\ l \in targetIds
             /\ (mode = "multi_lot" => l > trail)

Left(n) == IF remaining > n THEN remaining - n ELSE 0

NextTarget ==
    IF next < 3 THEN next' = next + 1 /\ UNCHANGED <<pc, sl, queue>> ELSE EndPass

TargetSkipped ==
    /\ pc = "targets"
    /\ \A l \in Targets : Polled(l) => st[l] \in {"open", "cancelled"} \/ Unreadable
    /\ NextTarget
    /\ UNCHANGED <<mode, faults, exchangeVars, sold, recordVars, booked, warned>>

\* Partly filled: the quantity filled so far is taken off and booked.
TargetPartial(l) ==
    /\ Polled(l) /\ st[l] = "partial"
    /\ remaining' = Left(filled[l])
    /\ Book(filled[l])
    /\ NextTarget
    /\ KeepRecord
    /\ UNCHANGED <<mode, faults, exchangeVars, sold, trail, currentSl, warned>>

ForgetsTrail(l) == UNCHANGED trail \* variant: the level is not marked as done
Trailed(l) == trail' = l

FinalFromSecond(l) == mode = "single_lot" \/ l >= 2 \* variant
Final(l) == mode = "single_lot" \/ l = 3

\* _handle_tp_hit: TP1 moves the stop to cost, TP2 to TP1.
TargetHit(l) ==
    /\ Polled(l) /\ st[l] = "complete" /\ ~Final(l)
    /\ remaining' = Left(filled[l])
    /\ Book(filled[l])
    /\ Trailed(l)
    /\ ModifyStop(slId, l, remaining')
    /\ currentSl' = l
    /\ NextTarget
    /\ KeepRecord
    /\ UNCHANGED <<mode, faults, st, filled, sold, warned>>

\* The final target: one cancel of the stop, whose failure is not reported.
TargetFinal(l) ==
    /\ Polled(l) /\ st[l] = "complete" /\ Final(l)
    /\ CancelOnce(sl)
    /\ Book(remaining)
    /\ Close("target")
    /\ EndPass
    /\ UNCHANGED <<mode, faults, qty, filled, level, sold, slId, targetIds, trail,
                   currentSl, remaining, warned>>

-----------------------------------------------------------------------------
(* Closing at market: the square-off, the daily loss shutdown and          *)
(* _close_entire_position cancel every order, then sell what is left.      *)

OnlyStop == <<slId>> \* variant: the targets are forgotten
AllOrders == <<slId>> \o Ascending(targetIds)

BeginClose ==
    /\ active /\ pc = "idle"
    /\ pc' = "closing" /\ queue' = AllOrders
    /\ UNCHANGED <<mode, faults, exchangeVars, sold, recordVars, booked, sl, next, warned>>

CancelForClose ==
    /\ pc = "closing" /\ queue # <<>>
    /\ CancelWithRetry(Head(queue))
    /\ queue' = Tail(queue)
    /\ UNCHANGED <<mode, faults, qty, filled, level, sold, recordVars, booked, pc,
                   sl, next>>

SellAndClose ==
    /\ pc = "closing" /\ queue = <<>>
    /\ SellRemaining
    /\ Book(remaining)
    /\ Close("market")
    /\ EndPass
    /\ UNCHANGED <<mode, faults, exchangeVars, slId, targetIds, trail, currentSl,
                   remaining, warned>>

\* _emergency_flatten looks for order ids in exit_orders, which holds none,
\* and sells with a place_order that lacks the trading symbol, which answers
\* None without asking the broker.  The trade is closed all the same.
EmergencyFlatten ==
    /\ active /\ pc = "idle" /\ remaining > 0
    /\ Close("flattened")
    /\ UNCHANGED <<mode, faults, exchangeVars, sold, slId, targetIds, trail, currentSl,
                   remaining, booked, handlerVars, warned>>

\* The kill switch sells and stops; the record and the orders stay.
KillSwitch ==
    /\ active /\ pc = "idle"
    /\ IF remaining > 0 THEN SellRemaining ELSE UNCHANGED sold
    /\ pc' = "killed"
    /\ UNCHANGED <<mode, faults, exchangeVars, recordVars, booked, sl, next, queue, warned>>

-----------------------------------------------------------------------------
Exchange == \E o \in Orders : Fill(o) \/ Kill(o)

Monitor ==
    \/ StopFilled \/ StopPartial \/ StopOpen \/ StopReplaced \/ StopLost
    \/ CancelTargets \/ CloseStopped
    \/ TargetSkipped
    \/ \E l \in Targets : TargetPartial(l) \/ TargetHit(l) \/ TargetFinal(l)

Closing == CancelForClose \/ SellAndClose

Next ==
    \/ Exchange
    \/ TrailSingle \/ Monitor
    \/ BeginClose \/ Closing \/ EmergencyFlatten \/ KillSwitch

Spec == Init /\ [][Next]_vars

\* The trade monitor runs every order_poll_interval_seconds and a handler runs
\* to its end; a status lookup repeated forever succeeds at some point.
FairSpec ==
    /\ Spec
    /\ WF_vars(Monitor) /\ WF_vars(Closing)
    /\ SF_vars(StopFilled)
    /\ \A l \in Targets : SF_vars(TargetHit(l) \/ TargetFinal(l))

-----------------------------------------------------------------------------
(* Properties.                                                             *)

Reasons == {"none", "stop", "target", "market", "lost", "flattened"}

\* Type invariant.
TypeOK ==
    /\ mode \in Modes /\ faults \in FaultModels
    /\ st \in [Orders -> LiveStatus \cup {"none", "complete", "cancelled"}]
    /\ qty \in [Orders -> 0..Qty] /\ filled \in [Orders -> 0..Qty]
    /\ \A o \in Orders : filled[o] <= qty[o]
    /\ level \in [Stops -> 0..2]
    /\ sold \in Nat /\ booked \in 0..MaxBooked
    /\ active \in BOOLEAN /\ how \in Reasons /\ (active <=> how = "none")
    /\ slId \in Stops /\ sl \in Stops
    /\ targetIds \subseteq Targets
    /\ trail \in 0..2 /\ currentSl \in 0..2 /\ remaining \in 0..Qty
    /\ pc \in {"idle", "sl", "slHit", "targets", "closing", "killed"}
    /\ next \in Targets
    /\ queue \in Seq(Orders)
    /\ warned \subseteq Orders

Held == Qty - sold

\* While the trade is active its stop, if it is live, covers every unit still
\* held, through any order in which target fills are seen, failed
\* modifications and re-placements, as long as orders fill whole.
RemainderCovered ==
    /\ TypeOK
    /\ "partial" \notin faults /\ active /\ Live(slId) => qty[slId] >= Held

\* A trade that is closed has no units left without a trade, as long as
\* market exits are accepted, targets are placed and kept and fills are whole.
\* The emergency flatten is apart (FlattenSells).
ClosedSoldAll ==
    how \notin {"none", "flattened"} /\ faults \cap {"partial", "target", "exit"} = {}
        => Held <= 0

\* No unit is booked that was not sold: daily_pnl, the input of the loss
\* limit, counts each fill once.
BookedWasSold ==
    faults \cap {"partial", "target", "exit"} = {} => booked <= sold

\* Closed by its stop or at market, a trade leaves no order that may still
\* fill unless the owner was told of it ("Real Money Safety").
ClosedOrWarned ==
    how \in {"stop", "market"} => \A o \in Orders : Live(o) => o \in warned

\* The trigger of the trade's stop never goes down, through trailing and
\* re-placement.
StopOnlyRises == [][level'[slId'] >= level[slId]]_vars

Over == ~active \/ pc = "killed"

\* A filled stop ends the trade, and so does a filled last target: neither is
\* missed because of other orders or of statuses that cannot be had.
FilledExitCloses ==
    /\ st[slId] = "complete" ~> Over
    /\ (st[3] = "complete" /\ mode = "multi_lot" /\ "partial" \notin faults) ~> Over

-----------------------------------------------------------------------------
(* Said of the program and not upheld by it.  No run checks these (README). *)

\* "Closes all active positions via MARKET orders if bot is blind for too
\* long": what the emergency flatten has closed is sold, when the broker
\* accepts orders.
FlattenSells == how = "flattened" /\ faults = {} => Held <= 0

\* "Update remaining_qty by ACTUALLY filled amount", and the units reported as
\* "still live": between two passes, remaining_qty is no less than what is still
\* held.  Each poll of a partly filled target takes the cumulative filled
\* quantity off again.
RemainingIsUnsold == active /\ pc = "idle" => remaining >= Held

=============================================================================
