----------------------------- MODULE EntrySlot -----------------------------
(***************************************************************************)
(* What the entry handling promises for one index, without brokers, polls, *)
(* cancels or retries.  The index has one slot.  An entry order takes the  *)
(* slot, buys, has what it bought taken over (by a trade, or by a market   *)
(* exit), and leaves the slot once and for all, with an outcome.           *)
(* Module PendingEntry is shown to implement it.                           *)
(***************************************************************************)
EXTENDS Naturals

CONSTANTS
    Orders,   \* the entry orders of a session
    NoOrder,  \* the slot is free: no member of Orders
    Qty       \* units an entry order may buy

VARIABLES
    slot,     \* the entry the index waits for
    used,     \* the orders that have had the slot
    outcome,  \* why an order left the slot, or "none"
    bought,   \* units an order has bought
    kept,     \* units of it in a trade
    dumped,   \* units of it sold at market
    refuses,  \* the broker may refuse market exits
    unsaved   \* the trade file could not be written: nothing is promised

vars == <<slot, used, outcome, bought, kept, dumped, refuses, unsaved>>

Outcomes == {"trade", "lapsed", "negated", "sqoff"}

Init ==
    /\ slot = NoOrder
    /\ used = {}
    /\ outcome = [o \in Orders |-> "none"]
    /\ bought = [o \in Orders |-> 0]
    /\ kept = [o \in Orders |-> 0]
    /\ dumped = [o \in Orders |-> 0]
    /\ refuses \in BOOLEAN
    /\ unsaved = FALSE

\* A new entry takes the free slot of an index without a trade.
Enter(o) ==
    /\ slot = NoOrder /\ o \notin used
    /\ \A p \in Orders : kept[p] = 0
    /\ slot' = o
    /\ used' = used \cup {o}
    /\ UNCHANGED <<outcome, bought, kept, dumped, refuses, unsaved>>

\* An order buys: also after it left the slot, but never once it has lapsed.
Buy(o) ==
    /\ o \in used /\ outcome[o] # "lapsed"
    /\ \E n \in (bought[o] + 1)..Qty : bought' = [bought EXCEPT ![o] = n]
    /\ UNCHANGED <<slot, used, outcome, kept, dumped, refuses, unsaved>>

\* k units of the order in the slot go into its trade and d are sold.
TakeOver(k, d) ==
    /\ kept' = [kept EXCEPT ![slot] = @ + k]
    /\ dumped' = [dumped EXCEPT ![slot] = @ + d]
    /\ kept'[slot] + dumped'[slot] <= bought[slot]
    /\ k > 0 => kept[slot] = 0

\* The order leaves the slot; one that lapsed had all it bought taken over.
Leave(r) ==
    /\ slot' = NoOrder
    /\ outcome' = [outcome EXCEPT ![slot] = r]
    /\ r = "lapsed" /\ ~refuses => kept'[slot] + dumped'[slot] = bought[slot]

Stay == UNCHANGED <<slot, outcome>>

Handle ==
    /\ slot # NoOrder
    /\ \E k, d \in 0..Qty : TakeOver(k, d)
    /\ Stay \/ \E r \in Outcomes : Leave(r)
    /\ UNCHANGED <<used, bought, refuses, unsaved>>

\* Once the trade file could not be written nothing is promised.
Broken == unsaved'

Next == Broken \/ Handle \/ \E o \in Orders : Enter(o) \/ Buy(o)

Spec == Init /\ [][Next]_vars

=============================================================================
