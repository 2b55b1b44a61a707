------------------------ MODULE PendingEntryProofs ------------------------
(***************************************************************************)
(* Proofs about the life of an entry order, for every quantity, number of  *)
(* entries, retry count and set of fault models.                           *)
(*                                                                         *)
(* The inductive invariant says that a handler works on the tracked entry, *)
(* which was not activated before, and that a terminal status it has read  *)
(* is still the actual one: a live status may be stale, a terminal one     *)
(* cannot be.                                                              *)
(***************************************************************************)
EXTENDS PendingEntry, TLAPS

\* An order's status and quantity agree, and nothing was done for an order
\* that was not placed.
OrdersSane ==
    \A o \in Orders :
        /\ st[o] = "complete" => filled[o] = Qty
        /\ st[o] = "none" => /\ filled[o] = 0
                             /\ trades[o] = 0 /\ managed[o] = 0 /\ sold[o] = 0
                             /\ how[o] = "none"

\* A handler in progress works on the tracked entry, which was placed.
HandlerTracks ==
    /\ pc # "idle" => pending \in Orders
    /\ pending \in Orders => st[pending] # "none" /\ how[pending] = "none"

\* What a handler that may still activate has read is at most what was
\* bought, and a terminal status is final.
SeenIsSound ==
    pc \in {"polled", "decide", "negating", "sqoff"} =>
        /\ seen.filled <= filled[pending]
        /\ seen.st \in Terminal => seen.st = st[pending] /\ seen.filled = filled[pending]

\* The tracked entry has not been activated, unless its remainder is being
\* cancelled or a save failed.
NotYetActivated ==
    pending \in Orders /\ pc \notin {"trim", "trimCheck"} /\ ~saveFailed =>
        trades[pending] = 0 /\ managed[pending] = 0 /\ sold[pending] = 0

IInv ==
    /\ TypeOK /\ OrdersSane /\ HandlerTracks /\ SeenIsSound /\ NotYetActivated
    /\ NeverOversold /\ OneTradePerEntry /\ LapsedIsSettled

LEMMA NoneIsNotAnOrder == NoOrder \notin Orders  BY DEF NoOrder, Orders

USE PendingEntryAssumption, NoneIsNotAnOrder DEF LiveStatus, DeadStatus, Terminal,
    Confirmed, Status, Handler, Reasons, NoStatus, Live, Actual

-----------------------------------------------------------------------------
LEMMA InitIInv == ASSUME Init PROVE IInv
<1>1. TypeOK
  <2>1. st \in [Orders -> LiveStatus \cup Terminal \cup {"none"}] /\ filled \in [Orders -> 0..Qty]
    BY DEF Init
  <2>2. seen \in Status /\ tries \in 0..CancelRetries  BY DEF Init
  <2> QED  BY <2>1, <2>2 DEF Init, TypeOK
<1>2. OrdersSane /\ HandlerTracks /\ SeenIsSound /\ NotYetActivated
  BY DEF Init, OrdersSane, HandlerTracks, SeenIsSound, NotYetActivated
<1>3. NeverOversold /\ OneTradePerEntry /\ LapsedIsSettled
  BY DEF Init, NeverOversold, OneTradePerEntry, LapsedIsSettled
<1> QED  BY <1>1, <1>2, <1>3 DEF IInv

(* The exchange.                                                           *)

LEMMA FillIInv == ASSUME IInv, NEW o \in Orders, Fill(o) PROVE IInv'
<1> USE DEF traderVars, bookVars
<1>1. TypeOK /\ NeverOversold  BY DEF IInv
<1>2. PICK n \in (filled[o] + 1)..Qty :
        /\ filled' = [filled EXCEPT ![o] = n]
        /\ st' = [st EXCEPT ![o] = IF n = Qty THEN "complete" ELSE "partial"]
        /\ UNCHANGED <<cxl, faults, traderVars>>
  BY DEF Fill
<1>3. filled[o] \in 0..Qty /\ n \in 0..Qty  BY <1>1 DEF TypeOK
<1>4. TypeOK'
  <2>1. filled' \in [Orders -> 0..Qty]  BY <1>1, <1>2, <1>3 DEF TypeOK
  <2>2. st' \in [Orders -> LiveStatus \cup Terminal \cup {"none"}]
    BY <1>1, <1>2 DEF TypeOK
  <2> QED  BY <1>1, <1>2, <2>1, <2>2 DEF TypeOK
<1> USE <1>2, <1>3 DEF IInv, TypeOK, Fill
<1>5. OrdersSane'  BY DEF OrdersSane
<1>6. HandlerTracks'  BY DEF HandlerTracks
<1>7. SeenIsSound'  BY DEF SeenIsSound, HandlerTracks
<1>8. NotYetActivated'  BY DEF NotYetActivated
<1>9. NeverOversold'
  <2> SUFFICES ASSUME NEW p \in Orders, ~saveFailed
               PROVE  managed[p] + sold[p] <= filled'[p]
    BY DEF NeverOversold
  <2>1. managed[p] \in Nat /\ sold[p] \in Nat /\ filled[p] \in Nat  OBVIOUS
  <2>2. managed[p] + sold[p] <= filled[p]  BY DEF NeverOversold
  <2>3. filled'[p] = IF p = o THEN n ELSE filled[p]  OBVIOUS
  <2>4. n \in Nat /\ filled[o] <= n  OBVIOUS
  <2> HIDE <1>2 DEF IInv, TypeOK, Fill
  <2> QED  BY <2>1, <2>2, <2>3, <2>4
<1>10. OneTradePerEntry'  BY DEF OneTradePerEntry
<1>11. LapsedIsSettled'  BY DEF LapsedIsSettled
<1> QED  BY <1>4, <1>5, <1>6, <1>7, <1>8, <1>9, <1>10, <1>11

\* An order that dies keeps what it had filled.
LEMMA DeathIInv ==
    ASSUME IInv, NEW o \in Orders, Live(o), NEW s \in DeadStatus,
           st' = [st EXCEPT ![o] = s],
           UNCHANGED <<filled, cxl, faults, traderVars>>
    PROVE  IInv'
<1> USE DEF IInv, TypeOK, traderVars, bookVars
<1>1. TypeOK'
  <2>1. st' \in [Orders -> LiveStatus \cup Terminal \cup {"none"}]  OBVIOUS
  <2> QED  BY <2>1
<1>2. OrdersSane'  BY DEF OrdersSane
<1>3. HandlerTracks'  BY DEF HandlerTracks
<1>4. SeenIsSound'  BY DEF SeenIsSound, HandlerTracks
<1>5. NotYetActivated'  BY DEF NotYetActivated
<1>6. NeverOversold' /\ OneTradePerEntry'  BY DEF NeverOversold, OneTradePerEntry
<1>7. LapsedIsSettled'  BY DEF LapsedIsSettled
<1> QED  BY <1>1, <1>2, <1>3, <1>4, <1>5, <1>6, <1>7

LEMMA BrokerIInv == ASSUME IInv, Broker PROVE IInv'
<1> SUFFICES ASSUME NEW o \in Orders, Fill(o) \/ Reject(o) \/ CancelSettles(o)
             PROVE  IInv'
  BY DEF Broker
<1>1. CASE Fill(o)  BY <1>1, FillIInv
<1>2. CASE Reject(o)  BY <1>2, DeathIInv DEF Reject
<1>3. CASE CancelSettles(o)  BY <1>3, DeathIInv DEF CancelSettles
<1> QED  BY <1>1, <1>2, <1>3

-----------------------------------------------------------------------------
(* Three kinds of steps of the trader.                                     *)

\* The variables of a handler in progress are of their types.
HandlerTypes ==
    /\ aged \in BOOLEAN /\ alert \in BOOLEAN /\ done \in BOOLEAN
    /\ pc \in Handler /\ seen \in Status /\ tries \in 0..CancelRetries
    /\ warned \in SUBSET Orders

\* The trader's call leaves the orders alone, or it cancels the tracked one.
CancelsAtMost ==
    /\ UNCHANGED <<filled, faults>>
    /\ cxl' \in [Orders -> BOOLEAN]
    /\ \/ st' = st
       \/ pending \in Orders /\ Live(pending) /\ st' = [st EXCEPT ![pending] = "cancelled"]

LEMMA CancelAnswers ==
    ASSUME TypeOK, pending \in Orders, CancelAccepted(pending) \/ CancelRefused(pending)
    PROVE  CancelsAtMost
BY DEF TypeOK, CancelAccepted, CancelRefused, CancelsAtMost, brokerVars, orderVars

\* A step that keeps the entry tracked and does nothing about its units.
LEMMA QuietStep ==
    ASSUME IInv, CancelsAtMost, UNCHANGED <<pending, bookVars>>,
           HandlerTypes', SeenIsSound', pc' # "idle" => pending \in Orders,
           pc \in {"trim", "trimCheck"} => pc' \in {"trim", "trimCheck"}
    PROVE  IInv'
<1> USE DEF IInv, CancelsAtMost, bookVars
<1>1. TypeOK'  BY DEF TypeOK, HandlerTypes
<1>2. OrdersSane'  BY DEF OrdersSane, TypeOK
<1>3. HandlerTracks'  BY DEF HandlerTracks, TypeOK
<1>4. NotYetActivated'  BY DEF NotYetActivated
<1>5. NeverOversold' /\ OneTradePerEntry'  BY DEF NeverOversold, OneTradePerEntry
<1>6. LapsedIsSettled'  BY DEF LapsedIsSettled, TypeOK
<1> QED  BY <1>1, <1>2, <1>3, <1>4, <1>5, <1>6

\* A step that stops tracking the entry: as lapsed only if its order is dead
\* with nothing filled.
LEMMA UntrackStep ==
    ASSUME IInv, CancelsAtMost, pending \in Orders, NEW h \in Reasons, Untrack(h),
           h = "lapsed" => ~Live(pending) /\ filled[pending] = 0,
           HandlerTypes', pc' = "idle"
    PROVE  IInv'
<1> USE DEF IInv, CancelsAtMost, Untrack
<1>1. TypeOK'  BY DEF TypeOK, HandlerTypes
<1>2. OrdersSane'  BY DEF OrdersSane, HandlerTracks, TypeOK
<1>3. HandlerTracks' /\ SeenIsSound' /\ NotYetActivated'
  BY DEF HandlerTracks, SeenIsSound, NotYetActivated
<1>4. NeverOversold' /\ OneTradePerEntry'  BY DEF NeverOversold, OneTradePerEntry
<1>5. LapsedIsSettled'
  <2> SUFFICES ASSUME NEW o \in Orders, how'[o] = "lapsed"
               PROVE  /\ st'[o] \notin LiveStatus
                      /\ "exit" \notin faults => filled[o] <= managed[o] + sold[o]
    BY DEF LapsedIsSettled
  <2>1. CASE o = pending
    <3>1. h = "lapsed"  BY <2>1 DEF TypeOK
    <3>2. managed[o] \in Nat /\ sold[o] \in Nat /\ filled[o] = 0
      BY <2>1, <3>1 DEF TypeOK
    <3>3. st'[o] \notin LiveStatus  BY <2>1, <3>1 DEF TypeOK
    <3> HIDE DEF IInv, CancelsAtMost, Untrack
    <3> QED  BY <3>2, <3>3
  <2>2. CASE o # pending  BY <2>2 DEF LapsedIsSettled, TypeOK
  <2> QED  BY <2>1, <2>2
<1> QED  BY <1>1, <1>2, <1>3, <1>4, <1>5

\* An activation of q units disposes of at most q units, in one trade or in
\* one market exit; of exactly q unless market exits may be refused; and it
\* raises only if no save has failed before.
LEMMA ActivationFacts ==
    ASSUME NEW q \in Nat, NEW a \in Activations(q)
    PROVE  /\ a.trades \in {0, 1} /\ a.managed \in Nat /\ a.sold \in Nat
           /\ a.consumed \in BOOLEAN /\ a.raised \in BOOLEAN
           /\ a.managed + a.sold <= q
           /\ "exit" \notin faults => a.managed + a.sold = q
<1> USE DEF Activation, TradeCreated, TradeNotSaved, GapAbort, SlFailed
<1>1. CASE a = TradeCreated(q)  BY <1>1
<1>2. CASE \E s \in ExitUnits(q) : a = GapAbort(s)  BY <1>2 DEF ExitUnits
<1>3. CASE \E s \in ExitUnits(q) : a = SlFailed(s)  BY <1>3 DEF ExitUnits
<1>4. CASE a = TradeNotSaved(q)  BY <1>4
<1> QED  BY <1>1, <1>2, <1>3, <1>4 DEF Activations

\* A step that activates q units of the tracked entry: it goes on tracking
\* the entry only to trim its remainder or because the save raised.
LEMMA ActivationStep ==
    ASSUME IInv, UNCHANGED brokerVars, pending \in Orders,
           pc \notin {"trim", "trimCheck"},
           NEW q \in Nat, q <= filled[pending],
           NEW a \in Activations(q), NEW h \in Reasons, Booked(a, h),
           h = "lapsed" => ~Live(pending) /\ q = filled[pending],
           \/ pending' = NoOrder /\ pc' = "idle"
           \/ /\ pending' = pending /\ h = "none"
              /\ a.raised \/ pc' \in {"trim", "trimCheck"},
           HandlerTypes', SeenIsSound'
    PROVE  IInv'
<1> DEFINE o == pending
<1>1. /\ a.trades \in {0, 1} /\ a.managed \in Nat /\ a.sold \in Nat
      /\ a.raised \in BOOLEAN
      /\ a.managed + a.sold <= q
      /\ "exit" \notin faults => a.managed + a.sold = q
  BY ActivationFacts
<1>2. TypeOK /\ trades[o] \in Nat /\ managed[o] \in Nat /\ sold[o] \in Nat
      /\ saveFailed \in BOOLEAN
  BY DEF IInv, TypeOK
<1>3. /\ trades' = [trades EXCEPT ![o] = trades[o] + a.trades]
      /\ managed' = [managed EXCEPT ![o] = managed[o] + a.managed]
      /\ sold' = [sold EXCEPT ![o] = sold[o] + a.sold]
      /\ how' = [how EXCEPT ![o] = h]
      /\ saveFailed' = (saveFailed \/ a.raised)
      /\ UNCHANGED <<st, filled, cxl, faults>>
  BY <1>2 DEF Booked, TypeOK, brokerVars, orderVars
<1>4. ~saveFailed => trades[o] = 0 /\ managed[o] = 0 /\ sold[o] = 0
  BY DEF IInv, NotYetActivated
<1>5. TypeOK'
  <2>1. trades' \in [Orders -> Nat]
    <3>1. trades[o] + a.trades \in Nat  BY <1>1, <1>2
    <3> QED  BY <1>2, <1>3, <3>1 DEF TypeOK
  <2>2. managed' \in [Orders -> Nat]
    <3>1. managed[o] + a.managed \in Nat  BY <1>1, <1>2
    <3> QED  BY <1>2, <1>3, <3>1 DEF TypeOK
  <2>3. sold' \in [Orders -> Nat]
    <3>1. sold[o] + a.sold \in Nat  BY <1>1, <1>2
    <3> QED  BY <1>2, <1>3, <3>1 DEF TypeOK
  <2>4. how' \in [Orders -> Reasons]  BY <1>2, <1>3 DEF TypeOK
  <2>5. saveFailed' \in BOOLEAN /\ pending' \in Orders \cup {NoOrder}
    BY <1>1, <1>2, <1>3
  <2> QED  BY <1>2, <1>3, <2>1, <2>2, <2>3, <2>4, <2>5 DEF TypeOK, HandlerTypes
<1>6. OrdersSane'  BY <1>2, <1>3 DEF OrdersSane, HandlerTracks, IInv, TypeOK
<1>7. HandlerTracks'  BY <1>2, <1>3 DEF HandlerTracks, IInv, TypeOK
<1>8. NotYetActivated'  BY <1>1, <1>2, <1>3 DEF NotYetActivated
<1>9. NeverOversold'
  <2> SUFFICES ASSUME NEW p \in Orders, ~saveFailed'
               PROVE  managed'[p] + sold'[p] <= filled[p]
    BY <1>3 DEF NeverOversold
  <2>1. CASE p = o
    <3>1. managed'[p] = a.managed /\ sold'[p] = a.sold /\ filled[p] \in Nat
      BY <1>1, <1>2, <1>3, <1>4, <2>1 DEF TypeOK
    <3> QED  BY <1>1, <2>1, <3>1
  <2>2. CASE p # o  BY <1>2, <1>3, <2>2 DEF NeverOversold, IInv, TypeOK
  <2> QED  BY <2>1, <2>2
<1>10. OneTradePerEntry'
  BY <1>1, <1>2, <1>3, <1>4 DEF OneTradePerEntry, IInv, TypeOK
<1>11. LapsedIsSettled'
  <2> SUFFICES ASSUME NEW p \in Orders, how'[p] = "lapsed"
               PROVE  /\ ~Live(p)
                      /\ "exit" \notin faults => filled[p] <= managed'[p] + sold'[p]
    BY <1>3 DEF LapsedIsSettled
  <2>1. CASE p = o
    <3>1. ~Live(p) /\ q = filled[p]  BY <1>2, <1>3, <2>1 DEF TypeOK
    <3>2. managed'[p] = managed[p] + a.managed /\ sold'[p] = sold[p] + a.sold
      BY <1>2, <1>3, <2>1 DEF TypeOK
    <3> QED  BY <1>1, <1>2, <2>1, <3>1, <3>2
  <2>2. CASE p # o  BY <1>2, <1>3, <2>2 DEF LapsedIsSettled, IInv, TypeOK
  <2> QED  BY <2>1, <2>2
<1> QED  BY <1>5, <1>6, <1>7, <1>8, <1>9, <1>10, <1>11 DEF IInv

-----------------------------------------------------------------------------
(* The actions of the trader.                                              *)

LEMMA PlaceEntryIInv == ASSUME IInv, PlaceEntry PROVE IInv'
<1> USE DEF IInv, PlaceEntry, bookVars
<1>1. PICK o \in Orders :
        st[o] = "none" /\ st' = [st EXCEPT ![o] = "open"] /\ pending' = o
  BY DEF NextOrder
<1>2. TypeOK'  BY <1>1 DEF TypeOK
<1>3. OrdersSane'  BY <1>1 DEF OrdersSane, TypeOK
<1>4. HandlerTracks' /\ SeenIsSound' /\ NotYetActivated'
  BY <1>1 DEF HandlerTracks, SeenIsSound, NotYetActivated, OrdersSane, TypeOK
<1>5. NeverOversold' /\ OneTradePerEntry'  BY DEF NeverOversold, OneTradePerEntry
<1>6. LapsedIsSettled'  BY <1>1 DEF LapsedIsSettled, OrdersSane, TypeOK
<1> QED  BY <1>2, <1>3, <1>4, <1>5, <1>6

LEMMA QuietBroker == ASSUME TypeOK, UNCHANGED brokerVars PROVE CancelsAtMost
BY DEF CancelsAtMost, brokerVars, orderVars, TypeOK

LEMMA AgeIInv == ASSUME IInv, Age PROVE IInv'
<1>1. CancelsAtMost  BY QuietBroker DEF IInv, Age
<1>2. HandlerTypes' /\ SeenIsSound'
  BY DEF IInv, TypeOK, Age, HandlerTypes, SeenIsSound, brokerVars, orderVars
<1> QED  BY <1>1, <1>2, QuietStep DEF Age, IInv, HandlerTracks

LEMMA PollIInv == ASSUME IInv, PollSees \/ PollError PROVE IInv'
<1>1. PICK r \in Status : PollWith(r) /\ (r = Actual(pending) \/ r = NoStatus)
      /\ pending \in Orders
  BY DEF PollSees, PollError, PollWith, IInv, TypeOK, OrdersSane, HandlerTracks
<1>2. CancelsAtMost  BY <1>1, QuietBroker DEF IInv, PollWith
<1>3. HandlerTypes'  BY <1>1 DEF IInv, TypeOK, PollWith, HandlerTypes
<1>4. SeenIsSound'
  BY <1>1 DEF PollWith, SeenIsSound, IInv, TypeOK, brokerVars, orderVars
<1> QED  BY <1>1, <1>2, <1>3, <1>4, QuietStep DEF PollWith

LEMMA TimeoutIInv ==
    ASSUME IInv, TimeoutCancelOk \/ TimeoutCancelFails PROVE IInv'
<1> USE DEF TimeoutCancelOk, TimeoutCancelFails
<1>1. pending \in Orders  BY DEF IInv, HandlerTracks
<1>2. CancelsAtMost  BY <1>1, CancelAnswers DEF IInv
<1>3. HandlerTypes' /\ SeenIsSound'
  BY <1>1 DEF IInv, TypeOK, HandlerTypes, SeenIsSound
<1> QED  BY <1>1, <1>2, <1>3, QuietStep

LEMMA RecheckIInv == ASSUME IInv, RecheckSees \/ RecheckError PROVE IInv'
<1>0. pending \in Orders /\ pc = "recheck"
  BY DEF IInv, HandlerTracks, RecheckSees, RecheckError, RecheckWith
<1>1. PICK r \in Status : RecheckWith(r) /\ (r = Actual(pending) \/ r = NoStatus)
  <2>1. Actual(pending) \in Status /\ NoStatus \in Status
    BY <1>0 DEF IInv, TypeOK, HandlerTracks
  <2> QED  BY <2>1 DEF RecheckSees, RecheckError
<1>2. CancelsAtMost  BY <1>1, QuietBroker DEF IInv, RecheckWith
<1>3. HandlerTypes'  BY <1>1 DEF IInv, TypeOK, RecheckWith, HandlerTypes
<1>4. SeenIsSound'
  BY <1>0, <1>1 DEF RecheckWith, SeenIsSound, IInv, TypeOK, brokerVars, orderVars
<1> QED  BY <1>0, <1>1, <1>2, <1>3, <1>4, QuietStep DEF RecheckWith

LEMMA WaitIInv ==
    ASSUME IInv, KeepWaiting \/ PartialBadPrice PROVE IInv'
<1> USE DEF KeepWaiting, PartialBadPrice, Deciding
<1>1. pending \in Orders  BY DEF IInv, HandlerTracks
<1>2. CancelsAtMost  BY QuietBroker DEF IInv
<1>3. SeenIsSound'  BY DEF SeenIsSound
<1>4. HandlerTypes'
  <2>1. warned' = warned \/ warned' = warned \cup {pending}  OBVIOUS
  <2>2. warned' \in SUBSET Orders  BY <1>1, <2>1 DEF IInv, TypeOK
  <2>3. tries' = tries \/ tries' = 1  OBVIOUS
  <2>4. tries \in 0..CancelRetries  BY DEF IInv, TypeOK
  <2>5. tries' \in 0..CancelRetries
    <3> HIDE DEF KeepWaiting, PartialBadPrice
    <3> QED  BY <2>3, <2>4
  <2> QED  BY <2>2, <2>5 DEF IInv, TypeOK, HandlerTypes
<1> QED  BY <1>1, <1>2, <1>3, <1>4, QuietStep

\* The quantity and the status that a deciding handler has read.
LEMMA SeenFacts ==
    ASSUME IInv, pc \in {"polled", "decide", "negating", "sqoff"}
    PROVE  /\ pending \in Orders
           /\ seen.filled \in Nat /\ seen.filled <= filled[pending]
           /\ seen.st = "complete" => seen.filled = Qty /\ filled[pending] = Qty
           /\ seen.st \in DeadStatus =>
                 ~Live(pending) /\ seen.filled = filled[pending]
BY DEF IInv, TypeOK, HandlerTracks, SeenIsSound, OrdersSane

LEMMA FilledActivateIInv == ASSUME IInv, FilledActivate PROVE IInv'
<1> USE DEF FilledActivate, Deciding
<1>1. PICK a \in Activations(seen.filled) :
        /\ Consumed(a) /\ Booked(a, "trade")
        /\ warned' = IF a.raised THEN warned \cup {pending} ELSE warned
  OBVIOUS
<1>2. pending \in Orders /\ seen.filled \in Nat /\ seen.filled <= filled[pending]
  BY SeenFacts
<1>3. HandlerTypes' /\ SeenIsSound'
  BY <1>1, <1>2 DEF IInv, TypeOK, HandlerTypes, SeenIsSound, Consumed
<1> QED  BY <1>1, <1>2, <1>3, ActivationStep

LEMMA PartialActivateIInv == ASSUME IInv, PartialActivate PROVE IInv'
<1> USE DEF PartialActivate, Deciding, FilledUnits
<1>1. PICK a \in Activations(seen.filled) :
        /\ Consumed(a) /\ Booked(a, "none")
        /\ warned' = IF a.raised THEN warned \cup {pending} ELSE warned
        /\ pc' = IF a.raised THEN "idle" ELSE "trim"
        /\ tries' = IF a.raised THEN tries ELSE 1
  OBVIOUS
<1>2. pending \in Orders /\ seen.filled \in Nat /\ seen.filled <= filled[pending]
  BY SeenFacts
<1>3. HandlerTypes' /\ SeenIsSound'
  BY <1>1, <1>2 DEF IInv, TypeOK, HandlerTypes, SeenIsSound, Consumed
<1>4. a.raised \/ pc' \in {"trim", "trimCheck"}  BY <1>1
<1> QED  BY <1>1, <1>2, <1>3, <1>4, ActivationStep

LEMMA DeadActivateIInv == ASSUME IInv, DeadActivate PROVE IInv'
<1> USE DEF DeadActivate, Deciding
<1>1. PICK a \in Activations(seen.filled) :
        /\ alert' = (a.raised /\ alert)
        /\ Booked(a, IF a.raised THEN "none" ELSE "lapsed")
        /\ pending' = IF a.raised THEN pending ELSE NoOrder
  OBVIOUS
<1>2. /\ pending \in Orders /\ seen.filled \in Nat
      /\ ~Live(pending) /\ seen.filled = filled[pending]
  BY SeenFacts
<1>3. a.raised \in BOOLEAN  BY <1>2, ActivationFacts
<1>4. HandlerTypes' /\ SeenIsSound'
  BY <1>1, <1>2, <1>3 DEF IInv, TypeOK, HandlerTypes, SeenIsSound
<1> QED  BY <1>1, <1>2, <1>4, ActivationStep

LEMMA DeadDropIInv == ASSUME IInv, DeadDrop PROVE IInv'
<1> USE DEF DeadDrop, Deciding
<1>1. pending \in Orders /\ ~Live(pending) /\ filled[pending] = 0  BY SeenFacts
<1>2. CancelsAtMost  BY QuietBroker DEF IInv
<1>3. HandlerTypes'  BY DEF IInv, TypeOK, HandlerTypes
<1> QED  BY <1>1, <1>2, <1>3, UntrackStep

LEMMA TrimCancelIInv == ASSUME IInv, TrimCancel PROVE IInv'
<1> USE DEF TrimCancel
<1>1. pending \in Orders  BY DEF IInv, HandlerTracks
<1>2. CancelsAtMost  BY <1>1, CancelAnswers DEF IInv
<1>3. HandlerTypes' /\ SeenIsSound'  BY DEF IInv, TypeOK, HandlerTypes, SeenIsSound
<1> QED  BY <1>1, <1>2, <1>3, QuietStep

LEMMA TrimCheckIInv == ASSUME IInv, TrimCheck PROVE IInv'
<1>1. pending \in Orders /\ pc = "trimCheck"
  BY DEF IInv, HandlerTracks, TrimCheck
<1>2. CancelsAtMost  BY QuietBroker DEF IInv, TrimCheck
<1>3. seen' \in Status
  <2>1. Reads(pending) \subseteq Status
    BY <1>1 DEF Reads, IInv, TypeOK, HandlerTracks
  <2> QED  BY <2>1 DEF TrimCheck
<1>4. CASE Untrack("trade") /\ pc' = "idle"
  <2>1. HandlerTypes'
    BY <1>1, <1>3, <1>4 DEF TrimCheck, IInv, TypeOK, HandlerTypes, RetriesLeft
  <2> QED  BY <1>1, <1>2, <1>4, <2>1, UntrackStep
<1>5. CASE RetriesLeft /\ tries' = tries + 1 /\ pc' = "trim"
           /\ UNCHANGED <<pending, bookVars, warned>>
  <2>1. tries' \in 0..CancelRetries  BY <1>5 DEF RetriesLeft, IInv, TypeOK
  <2>2. HandlerTypes' /\ SeenIsSound'
    BY <1>3, <1>5, <2>1 DEF TrimCheck, IInv, TypeOK, HandlerTypes, SeenIsSound
  <2> QED  BY <1>1, <1>2, <1>5, <2>2, QuietStep
<1> QED  BY <1>4, <1>5 DEF TrimCheck

LEMMA NegateBeginIInv == ASSUME IInv, NegateBegin PROVE IInv'
<1> USE DEF NegateBegin
<1>1. pending \in Orders  BY DEF IInv, TypeOK
<1>2. CancelsAtMost  BY QuietBroker DEF IInv
<1>3. seen' = Actual(pending) \/ seen' = NoStatus  BY DEF Reads
<1>4. seen' \in Status  BY <1>1, <1>3 DEF IInv, TypeOK, HandlerTracks
<1>5. HandlerTypes'  BY <1>4 DEF IInv, TypeOK, HandlerTypes
<1>6. SeenIsSound'
  BY <1>1, <1>3 DEF SeenIsSound, IInv, TypeOK, brokerVars, orderVars
<1> QED  BY <1>1, <1>2, <1>5, <1>6, QuietStep

LEMMA SqOffBeginIInv == ASSUME IInv, SqOffBegin PROVE IInv'
<1> USE DEF SqOffBegin
<1>1. CancelsAtMost  BY QuietBroker DEF IInv
<1>2. CASE pending = NoOrder
  <2>1. HandlerTypes' /\ SeenIsSound'
    BY <1>2 DEF IInv, TypeOK, HandlerTypes, SeenIsSound
  <2> QED  BY <1>1, <1>2, <2>1, QuietStep
<1>3. CASE pending # NoOrder
  <2>1. pending \in Orders  BY <1>3 DEF IInv, TypeOK
  <2>2. seen' = Actual(pending) \/ seen' = NoStatus  BY <1>3 DEF Reads
  <2>3. seen' \in Status  BY <2>1, <2>2 DEF IInv, TypeOK, HandlerTracks
  <2>4. HandlerTypes'  BY <1>3, <2>3 DEF IInv, TypeOK, HandlerTypes
  <2>5. SeenIsSound'
    BY <2>1, <2>2 DEF SeenIsSound, IInv, TypeOK, brokerVars, orderVars
  <2> QED  BY <1>1, <1>3, <2>1, <2>4, <2>5, QuietStep
<1> QED  BY <1>2, <1>3

\* NEGATED and the square-off find the order filled: the ordered quantity is
\* the quantity filled.
LEMMA FilledMeanwhileIInv ==
    ASSUME IInv, NegateFilled \/ SqOffFilled PROVE IInv'
<1> USE DEF NegateFilled, SqOffFilled, IsOrderFilled
<1>1. PICK a \in Activations(Qty) :
        /\ Consumed(a)
        /\ Booked(a, IF a.raised THEN "none" ELSE "trade")
        /\ pending' = IF a.raised THEN pending ELSE NoOrder
        /\ pc' = IF a.raised THEN pc ELSE "idle"
        /\ seen' = IF a.raised THEN NoStatus ELSE seen
        /\ done' = done \/ done' = ~a.raised
  OBVIOUS
<1>2. pending \in Orders /\ Qty \in Nat /\ Qty <= filled[pending]  BY SeenFacts
<1>3. a.raised \in BOOLEAN  BY <1>2, ActivationFacts
<1>4. HandlerTypes'
  <2>1. pc' \in Handler /\ seen' \in Status  BY <1>1, <1>3 DEF IInv, TypeOK
  <2>2. done' = done \/ done' = ~a.raised  BY <1>1
  <2>3. done' \in BOOLEAN  BY <1>3, <2>2, Zenon DEF IInv, TypeOK
  <2>4. alert' \in BOOLEAN /\ UNCHANGED <<aged, tries, warned>>
    BY <1>1 DEF Consumed
  <2> QED  BY <2>1, <2>3, <2>4 DEF IInv, TypeOK, HandlerTypes
<1>5. SeenIsSound'
  BY <1>1, <1>2, <1>3 DEF IInv, TypeOK, SeenIsSound, brokerVars, orderVars
<1>6. ~a.raised => pc' = "idle"  BY <1>1
<1> QED  BY <1>1, <1>2, <1>3, <1>4, <1>5, <1>6, ActivationStep

LEMMA NegateCancelIInv ==
    ASSUME IInv, NegateCancelOk \/ NegateCancelFails PROVE IInv'
<1> USE DEF NegateCancelOk, NegateCancelFails, NegateKeeps
<1>1. pending \in Orders  BY DEF IInv, HandlerTracks
<1>2. CancelsAtMost  BY <1>1, CancelAnswers DEF IInv
<1>3. HandlerTypes'  BY <1>1 DEF IInv, TypeOK, HandlerTypes
<1>4. CASE NegateCancelOk  BY <1>1, <1>2, <1>3, <1>4, UntrackStep
<1>5. CASE NegateCancelFails
  BY <1>1, <1>2, <1>3, <1>5, QuietStep DEF SeenIsSound
<1> QED  BY <1>4, <1>5

LEMMA SqOffCancelIInv == ASSUME IInv, SqOffCancel PROVE IInv'
<1> USE DEF SqOffCancel
<1>1. pending \in Orders  BY DEF IInv, HandlerTracks
<1>2. CancelsAtMost  BY <1>1, CancelAnswers DEF IInv
<1>3. HandlerTypes'  BY <1>1 DEF IInv, TypeOK, HandlerTypes
<1> QED  BY <1>1, <1>2, <1>3, UntrackStep

LEMMA NextIInv == ASSUME IInv, [Next]_vars PROVE IInv'
<1>1. CASE Broker  BY <1>1, BrokerIInv
<1>2. CASE PlaceEntry  BY <1>2, PlaceEntryIInv
<1>3. CASE Age  BY <1>3, AgeIInv
<1>4. CASE PollSees \/ PollError  BY <1>4, PollIInv
<1>5. CASE Handling
  BY <1>5, TimeoutIInv, RecheckIInv, WaitIInv, FilledActivateIInv,
     PartialActivateIInv, TrimCancelIInv, TrimCheckIInv, DeadActivateIInv,
     DeadDropIInv, FilledMeanwhileIInv, NegateCancelIInv, SqOffCancelIInv
     DEF Handling
<1>6. CASE NegateBegin  BY <1>6, NegateBeginIInv
<1>7. CASE SqOffBegin  BY <1>7, SqOffBeginIInv
<1>8. CASE UNCHANGED vars
  BY <1>8 DEF vars, orderVars, traderVars, bookVars, IInv, TypeOK, OrdersSane,
     HandlerTracks, SeenIsSound, NotYetActivated, NeverOversold,
     OneTradePerEntry, LapsedIsSettled
<1> QED  BY <1>1, <1>2, <1>3, <1>4, <1>5, <1>6, <1>7, <1>8 DEF Next

LEMMA Invariance == Spec => []IInv
<1>1. Init => IInv  BY InitIInv
<1>2. IInv /\ [Next]_vars => IInv'  BY NextIInv
<1> QED  BY <1>1, <1>2, PTL DEF Spec

-----------------------------------------------------------------------------
(* The theorems.                                                           *)

\* Every variable of an entry order's life keeps its type.
THEOREM TypeCorrect == Spec => []TypeOK
<1>1. IInv => TypeOK  BY DEF IInv
<1> QED  BY <1>1, Invariance, PTL

\* The trader never sells or manages more units of an entry than the exchange
\* had filled, however stale the status it acted on.
THEOREM NoOverselling == Spec => []NeverOversold
<1>1. IInv => NeverOversold  BY DEF IInv
<1> QED  BY <1>1, Invariance, PTL

\* No two of the monitor, the negation path and the square-off make a trade
\* of one entry order.
THEOREM AtMostOneTrade == Spec => []OneTradePerEntry
<1>1. IInv => OneTradePerEntry  BY DEF IInv
<1> QED  BY <1>1, Invariance, PTL

\* An entry dropped as lapsed can fill no more, and its units are accounted
\* for.
THEOREM LapsedSettled == Spec => []LapsedIsSettled
<1>1. IInv => LapsedIsSettled  BY DEF IInv
<1> QED  BY <1>1, Invariance, PTL

-----------------------------------------------------------------------------
(* The entry handling implements the entry slot (module EntrySlot).        *)

\* What a step is for the slot: one of its actions, or none.
SlotStep == [Slot!Next]_(Slot!vars)

\* Once the trade file could not be written, every step is allowed.
LEMMA BrokenSlot == ASSUME saveFailed' PROVE SlotStep
BY DEF SlotStep, Slot!Next, Slot!Broken

\* A handler's step that does nothing about the units, and the end of an
\* order, are no step of the slot.
LEMMA QuietSlot ==
    ASSUME TypeOK, CancelsAtMost, UNCHANGED <<pending, bookVars>>
    PROVE  SlotStep
<1>1. \A o \in Orders : st'[o] # "none" <=> st[o] # "none"
  BY DEF CancelsAtMost, TypeOK
<1>2. {o \in Orders : st[o] # "none"}' = {o \in Orders : st[o] # "none"}
  BY <1>1
<1>3. UNCHANGED Slot!vars  BY <1>2 DEF CancelsAtMost, bookVars, Slot!vars
<1> QED  BY <1>3 DEF SlotStep

\* An order that left as lapsed is dead: only the others go on buying.
LEMMA BrokerSlot == ASSUME IInv, Broker PROVE SlotStep
<1> SUFFICES ASSUME NEW o \in Orders, Fill(o) \/ Reject(o) \/ CancelSettles(o)
             PROVE  SlotStep
  BY DEF Broker
<1>1. UNCHANGED <<pending, managed, sold, how, saveFailed, faults>>
  BY DEF Fill, Reject, CancelSettles, traderVars, bookVars
<1>2. \A p \in Orders : st'[p] # "none" <=> st[p] # "none"
  BY DEF Fill, Reject, CancelSettles, IInv, TypeOK
<1>3. {p \in Orders : st[p] # "none"}' = {p \in Orders : st[p] # "none"}
  BY <1>2
<1>4. CASE Fill(o)
  <2>1. \E n \in (filled[o] + 1)..Qty : filled' = [filled EXCEPT ![o] = n]
    BY <1>4 DEF Fill
  <2>2. o \in {p \in Orders : st[p] # "none"} /\ how[o] # "lapsed"
    BY <1>4 DEF Fill, IInv, LapsedIsSettled
  <2>3. Slot!Buy(o)  BY <1>1, <1>3, <2>1, <2>2 DEF Slot!Buy
  <2> QED  BY <2>3 DEF SlotStep, Slot!Next
<1>5. CASE Reject(o) \/ CancelSettles(o)
  <2>1. filled' = filled  BY <1>5 DEF Reject, CancelSettles
  <2>2. UNCHANGED Slot!vars  BY <1>1, <1>3, <2>1 DEF Slot!vars
  <2> QED  BY <2>2 DEF SlotStep
<1> QED  BY <1>4, <1>5

LEMMA PlaceEntrySlot == ASSUME IInv, PlaceEntry PROVE SlotStep
<1>1. PICK o \in Orders :
        st[o] = "none" /\ st' = [st EXCEPT ![o] = "open"] /\ pending' = o
  BY DEF PlaceEntry, NextOrder
<1>2. {p \in Orders : st[p] # "none"}' = {p \in Orders : st[p] # "none"} \cup {o}
  <2>1. \A p \in Orders : st'[p] # "none" <=> st[p] # "none" \/ p = o
    BY <1>1 DEF IInv, TypeOK
  <2> QED  BY <2>1
<1>3. Slot!Enter(o)  BY <1>1, <1>2 DEF PlaceEntry, bookVars, Slot!Enter
<1> QED  BY <1>3 DEF SlotStep, Slot!Next

\* An entry that leaves without an activation.
LEMMA UntrackSlot ==
    ASSUME IInv, CancelsAtMost, pending \in Orders, NEW h \in Slot!Outcomes,
           Untrack(h), h = "lapsed" => filled[pending] = 0
    PROVE  SlotStep
<1>1. CASE saveFailed  BY <1>1, BrokenSlot DEF Untrack
<1>2. CASE ~saveFailed
  <2>1. {o \in Orders : st[o] # "none"}' = {o \in Orders : st[o] # "none"}
    <3>1. \A o \in Orders : st'[o] # "none" <=> st[o] # "none"
      BY DEF CancelsAtMost, IInv, TypeOK
    <3> QED  BY <3>1
  <2>2. /\ managed[pending] \in Nat /\ sold[pending] \in Nat /\ filled[pending] \in Nat
        /\ managed[pending] + sold[pending] <= filled[pending]
    BY <1>2 DEF IInv, TypeOK, NeverOversold
  <2>3. /\ managed' = [managed EXCEPT ![pending] = managed[pending] + 0]
        /\ sold' = [sold EXCEPT ![pending] = sold[pending] + 0]
    BY <2>2 DEF Untrack, IInv, TypeOK
  <2>4. Slot!TakeOver(0, 0)
    <3>1. managed'[pending] + sold'[pending] <= filled[pending]
      BY <2>2 DEF Untrack
    <3>2. 0 > 0 => managed[pending] = 0  OBVIOUS
    <3> QED  BY <2>3, <3>1, <3>2, Zenon DEF Slot!TakeOver
  <2>5. Slot!Leave(h)
    BY <2>2 DEF Slot!Leave, Untrack
  <2>6. Slot!Handle
    <3>1. 0 \in 0..Qty  OBVIOUS
    <3> QED  BY <2>1, <2>4, <2>5, <3>1 DEF Slot!Handle, CancelsAtMost, Untrack
  <2> QED  BY <2>6 DEF SlotStep, Slot!Next
<1> QED  BY <1>1, <1>2

\* An activation: its units are taken over from the order in the slot, once.
LEMMA ActivationSlot ==
    ASSUME IInv, UNCHANGED brokerVars, pending \in Orders,
           pc \notin {"trim", "trimCheck"},
           NEW q \in Nat, q <= filled[pending],
           NEW a \in Activations(q), NEW h, Booked(a, h),
           h = "lapsed" => q = filled[pending],
           \/ pending' = NoOrder /\ h \in Slot!Outcomes
           \/ pending' = pending /\ h = "none"
    PROVE  SlotStep
<1>1. /\ a.managed \in Nat /\ a.sold \in Nat /\ a.raised \in BOOLEAN
      /\ a.managed + a.sold <= q
      /\ "exit" \notin faults => a.managed + a.sold = q
  BY ActivationFacts
<1>2. /\ managed' = [managed EXCEPT ![pending] = managed[pending] + a.managed]
      /\ sold' = [sold EXCEPT ![pending] = sold[pending] + a.sold]
      /\ how' = [how EXCEPT ![pending] = h]
      /\ saveFailed' = (saveFailed \/ a.raised)
      /\ UNCHANGED <<st, filled, cxl, faults>>
  BY DEF Booked, brokerVars, orderVars
<1>3. CASE saveFailed'  BY <1>3, BrokenSlot
<1>4. CASE ~saveFailed'
  <2>1. ~saveFailed /\ ~a.raised  BY <1>2, <1>4
  <2>2. managed[pending] = 0 /\ sold[pending] = 0  BY <2>1 DEF IInv, NotYetActivated
  <2>3. /\ managed'[pending] = a.managed /\ sold'[pending] = a.sold
        /\ filled[pending] \in 0..Qty
    BY <1>1, <1>2, <2>2 DEF IInv, TypeOK
  <2>4. a.managed \in 0..Qty /\ a.sold \in 0..Qty  BY <1>1, <2>3
  <2>5. Slot!TakeOver(a.managed, a.sold)
    BY <1>1, <1>2, <2>2, <2>3 DEF Slot!TakeOver
  <2>6. Slot!Stay \/ \E r \in Slot!Outcomes : Slot!Leave(r)
    <3>1. CASE pending' = NoOrder /\ h \in Slot!Outcomes
      <4>1. Slot!Leave(h)
        BY <1>1, <1>2, <2>3, <3>1 DEF Slot!Leave
      <4> QED  BY <3>1, <4>1
    <3>2. CASE pending' = pending /\ h = "none"
      <4>1. how[pending] = "none"  BY DEF IInv, HandlerTracks
      <4>2. how' = how  BY <1>2, <3>2, <4>1 DEF IInv, TypeOK
      <4> QED  BY <3>2, <4>2 DEF Slot!Stay
    <3> QED  BY <3>1, <3>2
  <2>7. Slot!Handle
    <3>1. \E k, d \in 0..Qty : Slot!TakeOver(k, d)  BY <2>4, <2>5
    <3>2. UNCHANGED <<{o \in Orders : st[o] # "none"}, filled, "exit" \in faults,
                      saveFailed>>
      BY <1>2, <1>4, <2>1, Zenon DEF IInv, TypeOK
    <3> QED  BY <2>6, <3>1, <3>2, NoneIsNotAnOrder DEF Slot!Handle
  <2> QED  BY <2>7 DEF SlotStep, Slot!Next
<1> QED  BY <1>3, <1>4

LEMMA ActivatingSlot ==
    ASSUME IInv, FilledActivate \/ PartialActivate \/ DeadActivate PROVE SlotStep
<1>1. /\ pending \in Orders /\ pc \notin {"trim", "trimCheck"}
      /\ seen.filled \in Nat /\ seen.filled <= filled[pending]
      /\ seen.st \in DeadStatus => seen.filled = filled[pending]
  BY SeenFacts DEF FilledActivate, PartialActivate, DeadActivate, Deciding
<1>2. CASE FilledActivate
  <2>1. PICK a \in Activations(seen.filled) : Booked(a, "trade")
    BY <1>2 DEF FilledActivate
  <2> QED  BY <1>1, <1>2, <2>1, ActivationSlot DEF FilledActivate, Slot!Outcomes
<1>3. CASE PartialActivate
  <2>1. PICK a \in Activations(seen.filled) : Booked(a, "none")
    BY <1>3 DEF PartialActivate, FilledUnits
  <2> QED  BY <1>1, <1>3, <2>1, ActivationSlot DEF PartialActivate
<1>4. CASE DeadActivate
  <2>1. PICK a \in Activations(seen.filled) :
          /\ Booked(a, IF a.raised THEN "none" ELSE "lapsed")
          /\ pending' = IF a.raised THEN pending ELSE NoOrder
    BY <1>4 DEF DeadActivate
  <2>2. CASE a.raised
    BY <1>1, <1>4, <2>1, <2>2, ActivationSlot DEF DeadActivate
  <2>3. CASE ~a.raised
    BY <1>1, <1>4, <2>1, <2>3, ActivationSlot DEF DeadActivate, Slot!Outcomes
  <2> QED  BY <2>2, <2>3
<1> QED  BY <1>2, <1>3, <1>4

LEMMA FilledMeanwhileSlot ==
    ASSUME IInv, NegateFilled \/ SqOffFilled PROVE SlotStep
<1>1. PICK a \in Activations(Qty) :
        /\ Booked(a, IF a.raised THEN "none" ELSE "trade")
        /\ pending' = IF a.raised THEN pending ELSE NoOrder
  BY DEF NegateFilled, SqOffFilled
<1>2. pc \notin {"trim", "trimCheck"} /\ UNCHANGED brokerVars
  BY DEF NegateFilled, SqOffFilled
<1>3. pending \in Orders /\ Qty \in Nat /\ Qty <= filled[pending]
  BY SeenFacts DEF NegateFilled, SqOffFilled, IsOrderFilled
<1>4. CASE a.raised  BY <1>1, <1>2, <1>3, <1>4, ActivationSlot
<1>5. CASE ~a.raised
  BY <1>1, <1>2, <1>3, <1>5, ActivationSlot DEF Slot!Outcomes
<1> QED  BY <1>4, <1>5

LEMMA UntrackingSlot ==
    ASSUME IInv, DeadDrop \/ NegateCancelOk \/ SqOffCancel PROVE SlotStep
<1>1. pending \in Orders
  BY DEF IInv, HandlerTracks, DeadDrop, Deciding, NegateCancelOk, SqOffCancel
<1>2. CASE DeadDrop
  <2>1. filled[pending] = 0  BY <1>2, SeenFacts DEF DeadDrop, Deciding
  <2>2. CancelsAtMost  BY <1>2, QuietBroker DEF IInv, DeadDrop
  <2> QED  BY <1>1, <1>2, <2>1, <2>2, UntrackSlot DEF DeadDrop, Slot!Outcomes
<1>3. CASE NegateCancelOk
  <2>1. CancelsAtMost  BY <1>1, <1>3, CancelAnswers DEF IInv, NegateCancelOk
  <2> QED  BY <1>1, <1>3, <2>1, UntrackSlot DEF NegateCancelOk, Slot!Outcomes
<1>4. CASE SqOffCancel
  <2>1. CancelsAtMost  BY <1>1, <1>4, CancelAnswers DEF IInv, SqOffCancel
  <2> QED  BY <1>1, <1>4, <2>1, UntrackSlot DEF SqOffCancel, Slot!Outcomes
<1> QED  BY <1>2, <1>3, <1>4

LEMMA TrimCheckSlot == ASSUME IInv, TrimCheck PROVE SlotStep
<1>1. pending \in Orders  BY DEF IInv, HandlerTracks, TrimCheck
<1>2. CancelsAtMost  BY QuietBroker DEF IInv, TrimCheck
<1>3. CASE Untrack("trade")  BY <1>1, <1>2, <1>3, UntrackSlot DEF Slot!Outcomes
<1>4. CASE UNCHANGED <<pending, bookVars>>  BY <1>2, <1>4, QuietSlot DEF IInv
<1> QED  BY <1>3, <1>4 DEF TrimCheck

\* The handlers' steps that leave the units alone.
LEMMA WaitingSlot ==
    ASSUME IInv,
           \/ Age \/ PollSees \/ PollError \/ TimeoutCancelOk \/ TimeoutCancelFails
           \/ RecheckSees \/ RecheckError \/ KeepWaiting \/ PartialBadPrice
           \/ TrimCancel \/ NegateBegin \/ NegateCancelFails \/ SqOffBegin
    PROVE  SlotStep
<1>1. UNCHANGED <<pending, bookVars>>
  BY DEF Age, PollSees, PollError, PollWith, TimeoutCancelOk, TimeoutCancelFails,
     RecheckSees, RecheckError, RecheckWith, KeepWaiting, PartialBadPrice,
     TrimCancel, NegateBegin, NegateCancelFails, NegateKeeps, SqOffBegin
<1>2. CancelsAtMost
  <2>1. CASE UNCHANGED brokerVars  BY <2>1, QuietBroker DEF IInv
  <2>2. CASE TimeoutCancelOk \/ TimeoutCancelFails \/ TrimCancel \/ NegateCancelFails
    <3>1. pending \in Orders
      BY <2>2 DEF TimeoutCancelOk, TimeoutCancelFails, TrimCancel,
         NegateCancelFails, IInv, HandlerTracks
    <3>2. CancelAccepted(pending) \/ CancelRefused(pending)
      BY <2>2 DEF TimeoutCancelOk, TimeoutCancelFails, TrimCancel, NegateCancelFails
    <3> QED  BY <3>1, <3>2, CancelAnswers DEF IInv
  <2> QED
    BY <2>1, <2>2 DEF Age, PollSees, PollError, PollWith, RecheckSees,
       RecheckError, RecheckWith, KeepWaiting, PartialBadPrice, NegateBegin,
       SqOffBegin
<1> QED  BY <1>1, <1>2, QuietSlot DEF IInv

LEMMA NextSlot == ASSUME IInv, [Next]_vars PROVE SlotStep
<1>1. CASE Broker  BY <1>1, BrokerSlot
<1>2. CASE PlaceEntry  BY <1>2, PlaceEntrySlot
<1>3. CASE Age \/ PollSees \/ PollError \/ NegateBegin \/ SqOffBegin
  BY <1>3, WaitingSlot
<1>4. CASE Handling
  BY <1>4, WaitingSlot, ActivatingSlot, FilledMeanwhileSlot, UntrackingSlot,
     TrimCheckSlot DEF Handling
<1>5. CASE UNCHANGED vars
  <2>1. CancelsAtMost  BY <1>5, QuietBroker DEF IInv, vars, brokerVars
  <2> QED  BY <1>5, <2>1, QuietSlot DEF IInv, vars, traderVars
<1> QED  BY <1>1, <1>2, <1>3, <1>4, <1>5 DEF Next

LEMMA InitSlot == ASSUME Init PROVE Slot!Init
<1>1. {o \in Orders : st[o] # "none"} = {}  BY DEF Init
<1> QED  BY <1>1 DEF Init, Slot!Init

\* The handlers, with every interleaving of the broker, implement the entry
\* slot: each of their steps is one of its steps or none.
THEOREM Implements == Spec => ImplementsSlot
<1>1. Init => Slot!Init  BY InitSlot
<1>2. IInv /\ [Next]_vars => [Slot!Next]_(Slot!vars)  BY NextSlot DEF SlotStep
<1> QED  BY <1>1, <1>2, Invariance, PTL DEF Spec, ImplementsSlot, Slot!Spec

-----------------------------------------------------------------------------
(* Orders that fill whole, cancels that are final, market exits and saves  *)
(* that succeed: no position is left unprotected.                          *)

\* An order has bought everything or nothing, so that no remainder is ever
\* cancelled, and what the trader does not track is dead and disposed of.
WholeInv ==
    Wholesome =>
        /\ ~saveFailed
        /\ pc \notin {"trim", "trimCheck"} /\ seen.st # "partial"
        /\ \A o \in Orders : st[o] # "partial" /\ (filled[o] = 0 \/ st[o] = "complete")
        /\ ~done => \A o \in Orders \ {pending} :
                       ~Live(o) /\ filled[o] = managed[o] + sold[o]

LEMMA WholesomeFacts ==
    ASSUME Wholesome
    PROVE  /\ "partial" \notin faults /\ "race" \notin faults
           /\ "exit" \notin faults /\ "disk" \notin faults
BY DEF Wholesome

LEMMA InitWhole == ASSUME Init PROVE WholeInv
<1>1. \A o \in Orders : filled[o] = managed[o] + sold[o]  BY DEF Init
<1> QED  BY <1>1 DEF Init, WholeInv

LEMMA BrokerWhole == ASSUME IInv, WholeInv, Broker PROVE WholeInv'
<1> SUFFICES ASSUME Wholesome, NEW o \in Orders,
                    Fill(o) \/ Reject(o) \/ CancelSettles(o)
             PROVE  WholeInv'
  BY DEF Broker, WholeInv, Wholesome, Fill, Reject, CancelSettles
<1>1. /\ ~saveFailed /\ pc \notin {"trim", "trimCheck"} /\ seen.st # "partial"
      /\ \A p \in Orders : st[p] # "partial" /\ (filled[p] = 0 \/ st[p] = "complete")
      /\ ~done => \A p \in Orders \ {pending} :
                     ~Live(p) /\ filled[p] = managed[p] + sold[p]
  BY DEF WholeInv
<1>2. UNCHANGED <<saveFailed, pc, seen, done, pending, managed, sold>>
  BY DEF Fill, Reject, CancelSettles, traderVars, bookVars
<1>3. Live(o)  BY DEF Fill, Reject, CancelSettles
<1>4. /\ \A p \in Orders \ {o} : st'[p] = st[p] /\ filled'[p] = filled[p]
      /\ st'[o] # "partial" /\ (filled'[o] = 0 \/ st'[o] = "complete")
  <2>1. CASE Fill(o)
    <3>1. PICK n \in (filled[o] + 1)..Qty :
            /\ n < Qty => "partial" \in faults
            /\ filled' = [filled EXCEPT ![o] = n]
            /\ st' = [st EXCEPT ![o] = IF n = Qty THEN "complete" ELSE "partial"]
      BY <2>1 DEF Fill
    <3>2. filled[o] \in Nat  BY DEF IInv, TypeOK
    <3>3. n = Qty  BY <3>1, <3>2, WholesomeFacts
    <3> QED  BY <3>1, <3>3 DEF IInv, TypeOK
  <2>2. CASE Reject(o) \/ CancelSettles(o)
    BY <1>1, <1>3, <2>2 DEF Reject, CancelSettles, IInv, TypeOK
  <2> QED  BY <2>1, <2>2
<1>5. ~done => o = pending  BY <1>1, <1>3
<1> QED  BY <1>1, <1>2, <1>4, <1>5, Zenon DEF WholeInv

\* A step that keeps the entry tracked and does nothing about its units.
LEMMA QuietWhole ==
    ASSUME IInv, WholeInv, CancelsAtMost, UNCHANGED <<pending, bookVars>>,
           done => done', pc' \notin {"trim", "trimCheck"},
           seen' = seen \/ seen' = NoStatus \/ (pending \in Orders /\ seen' = Actual(pending))
    PROVE  WholeInv'
<1> SUFFICES ASSUME Wholesome PROVE WholeInv'
  BY DEF WholeInv, Wholesome, CancelsAtMost
<1>1. /\ ~saveFailed /\ seen.st # "partial"
      /\ \A o \in Orders : st[o] # "partial" /\ (filled[o] = 0 \/ st[o] = "complete")
      /\ ~done => \A o \in Orders \ {pending} :
                     ~Live(o) /\ filled[o] = managed[o] + sold[o]
  BY DEF WholeInv
<1>2. UNCHANGED <<saveFailed, pending, filled, managed, sold>>
  BY DEF CancelsAtMost, bookVars
<1>3. seen'.st # "partial"  BY <1>1
<1>4. \A o \in Orders : /\ st'[o] # "partial" /\ (filled[o] = 0 \/ st'[o] = "complete")
                        /\ o # pending => st'[o] = st[o]
  BY <1>1 DEF CancelsAtMost, IInv, TypeOK
<1> QED  BY <1>1, <1>2, <1>3, <1>4, Zenon DEF WholeInv

\* A step that ends the tracking: what the entry bought was disposed of, or
\* the session's entries are over.
LEMMA UntrackWhole ==
    ASSUME IInv, WholeInv, CancelsAtMost, pending \in Orders, pending' = NoOrder,
           Wholesome => ~saveFailed',
           \A o \in Orders \ {pending} : managed'[o] = managed[o] /\ sold'[o] = sold[o],
           done => done', pc' \notin {"trim", "trimCheck"}, seen' = seen,
           Wholesome /\ ~done' =>
               /\ st'[pending] \notin LiveStatus
               /\ filled[pending] = managed'[pending] + sold'[pending]
    PROVE  WholeInv'
<1> SUFFICES ASSUME Wholesome PROVE WholeInv'
  BY DEF WholeInv, Wholesome, CancelsAtMost
<1>1. /\ seen.st # "partial"
      /\ \A o \in Orders : st[o] # "partial" /\ (filled[o] = 0 \/ st[o] = "complete")
      /\ ~done => \A o \in Orders \ {pending} :
                     ~Live(o) /\ filled[o] = managed[o] + sold[o]
  BY DEF WholeInv
<1>2. filled' = filled  BY DEF CancelsAtMost
<1>3. \A o \in Orders : /\ st'[o] # "partial" /\ (filled[o] = 0 \/ st'[o] = "complete")
                        /\ o # pending => st'[o] = st[o]
  BY <1>1 DEF CancelsAtMost, IInv, TypeOK
<1>4. ~done' => \A o \in Orders \ {pending'} :
                   st'[o] \notin LiveStatus /\ filled[o] = managed'[o] + sold'[o]
  BY <1>1, <1>3, Zenon
<1> QED  BY <1>1, <1>2, <1>3, <1>4, Zenon DEF WholeInv

\* What an activation disposes of is what the order had filled.
LEMMA ActivationWhole ==
    ASSUME IInv, WholeInv, UNCHANGED brokerVars, pending \in Orders,
           pc \notin {"trim", "trimCheck"}, ~Live(pending),
           NEW a \in Activations(filled[pending]), NEW h, Booked(a, h),
           ~a.raised => pending' = NoOrder /\ seen' = seen /\ (done => done'),
           pc' \notin {"trim", "trimCheck"}
    PROVE  WholeInv'
<1>1. CancelsAtMost  BY QuietBroker DEF IInv
<1>2. filled[pending] \in Nat /\ managed[pending] \in Nat /\ sold[pending] \in Nat
  BY DEF IInv, TypeOK
<1>3. /\ a.managed \in Nat /\ a.sold \in Nat
      /\ "exit" \notin faults => a.managed + a.sold = filled[pending]
  BY <1>2, ActivationFacts
<1>4. Wholesome => ~a.raised /\ ~saveFailed
  BY WholesomeFacts
  DEF Activations, Activation, TradeCreated, GapAbort, SlFailed, WholeInv
<1>5. SUFFICES ASSUME Wholesome PROVE WholeInv'
  BY DEF WholeInv, Wholesome, brokerVars
<1>6. managed[pending] = 0 /\ sold[pending] = 0
  BY <1>4, <1>5 DEF IInv, NotYetActivated
<1>7. managed'[pending] = a.managed /\ sold'[pending] = a.sold
  BY <1>2, <1>3, <1>6 DEF Booked, IInv, TypeOK
<1>8. \A o \in Orders \ {pending} : managed'[o] = managed[o] /\ sold'[o] = sold[o]
  BY DEF Booked, IInv, TypeOK
<1>9. ~saveFailed' /\ st' = st
  BY <1>4, <1>5 DEF Booked, brokerVars, orderVars
<1>10. filled[pending] = managed'[pending] + sold'[pending]
  BY <1>3, <1>5, <1>7, WholesomeFacts
<1> QED  BY <1>1, <1>4, <1>5, <1>8, <1>9, <1>10, UntrackWhole

LEMMA PlaceEntryWhole == ASSUME IInv, WholeInv, PlaceEntry PROVE WholeInv'
<1>1. SUFFICES ASSUME Wholesome PROVE WholeInv'
  BY DEF WholeInv, Wholesome, PlaceEntry
<1>2. PICK o \in Orders :
        st[o] = "none" /\ st' = [st EXCEPT ![o] = "open"] /\ pending' = o
  BY DEF PlaceEntry, NextOrder
<1>3. pending = NoOrder /\ ~done
      /\ UNCHANGED <<saveFailed, pc, seen, filled, managed, sold, done>>
  BY DEF PlaceEntry, bookVars
<1>4. \A p \in Orders : st'[p] = IF p = o THEN "open" ELSE st[p]
  BY <1>2 DEF IInv, TypeOK
<1>5. filled[o] = 0  BY <1>2 DEF IInv, OrdersSane
<1>6. /\ ~saveFailed /\ pc \notin {"trim", "trimCheck"} /\ seen.st # "partial"
      /\ \A p \in Orders : st[p] # "partial" /\ (filled[p] = 0 \/ st[p] = "complete")
      /\ \A p \in Orders : st[p] \notin LiveStatus /\ filled[p] = managed[p] + sold[p]
  BY <1>1, <1>3 DEF WholeInv
<1>7. \A p \in Orders : st'[p] # "partial" /\ (filled[p] = 0 \/ st'[p] = "complete")
  BY <1>4, <1>5, <1>6
<1>8. \A p \in Orders \ {o} : st'[p] \notin LiveStatus /\ filled[p] = managed[p] + sold[p]
  BY <1>4, <1>6, Zenon
<1> QED  BY <1>2, <1>3, <1>6, <1>7, <1>8, Zenon DEF WholeInv

LEMMA WaitingWhole ==
    ASSUME IInv, WholeInv,
           \/ Age \/ PollSees \/ PollError \/ TimeoutCancelOk \/ TimeoutCancelFails
           \/ RecheckSees \/ RecheckError \/ KeepWaiting
           \/ NegateBegin \/ NegateCancelFails \/ SqOffBegin
    PROVE  WholeInv'
<1>0. CASE ~Wholesome
  BY <1>0 DEF WholeInv, Wholesome, Age, PollSees, PollError, PollWith,
     TimeoutCancelOk, TimeoutCancelFails, CancelAccepted, CancelRefused, RecheckSees,
     RecheckError, RecheckWith, KeepWaiting, NegateBegin, NegateCancelFails,
     SqOffBegin, brokerVars
<1>1. UNCHANGED <<pending, bookVars>>
  BY DEF Age, PollSees, PollError, PollWith, TimeoutCancelOk, TimeoutCancelFails,
     RecheckSees, RecheckError, RecheckWith, KeepWaiting, NegateBegin,
     NegateCancelFails, NegateKeeps, SqOffBegin
<1>2. CancelsAtMost
  <2>1. CASE UNCHANGED brokerVars  BY <2>1, QuietBroker DEF IInv
  <2>2. CASE TimeoutCancelOk \/ TimeoutCancelFails \/ NegateCancelFails
    <3>1. pending \in Orders
      BY <2>2 DEF TimeoutCancelOk, TimeoutCancelFails, NegateCancelFails, IInv,
         HandlerTracks
    <3>2. CancelAccepted(pending) \/ CancelRefused(pending)
      BY <2>2 DEF TimeoutCancelOk, TimeoutCancelFails, NegateCancelFails
    <3> QED  BY <3>1, <3>2, CancelAnswers DEF IInv
  <2> QED
    BY <2>1, <2>2 DEF Age, PollSees, PollError, PollWith, RecheckSees,
       RecheckError, RecheckWith, KeepWaiting, NegateBegin, SqOffBegin
<1>3. done => done'
  BY DEF Age, PollSees, PollError, PollWith, TimeoutCancelOk, TimeoutCancelFails,
     RecheckSees, RecheckError, RecheckWith, KeepWaiting, NegateBegin,
     NegateCancelFails, SqOffBegin
<1>4. CASE Wholesome
  <2>1. pc' \notin {"trim", "trimCheck"}
    BY <1>4 DEF WholeInv, Age, PollSees, PollError, PollWith, TimeoutCancelOk,
       TimeoutCancelFails, RecheckSees, RecheckError, RecheckWith, KeepWaiting,
       NegateBegin, NegateCancelFails, SqOffBegin
  <2>2. seen' = seen \/ seen' = NoStatus \/ (pending \in Orders /\ seen' = Actual(pending))
    <3>1. CASE PollSees \/ PollError \/ NegateBegin
      <4>1. pending \in Orders
        BY <3>1 DEF PollSees, PollError, PollWith, NegateBegin, IInv, TypeOK
      <4> QED
        BY <3>1, <4>1 DEF PollSees, PollError, PollWith, NegateBegin, Reads
    <3>2. CASE RecheckSees \/ RecheckError
      <4>1. pending \in Orders
        BY <3>2 DEF RecheckSees, RecheckError, RecheckWith, IInv, HandlerTracks
      <4> QED  BY <3>2, <4>1 DEF RecheckSees, RecheckError, RecheckWith
    <3>3. CASE SqOffBegin
      BY <3>3 DEF SqOffBegin, Reads, IInv, TypeOK
    <3> QED
      BY <3>1, <3>2, <3>3 DEF Age, TimeoutCancelOk, TimeoutCancelFails,
         KeepWaiting, NegateCancelFails
  <2> QED  BY <1>1, <1>2, <1>3, <2>1, <2>2, QuietWhole
<1> QED  BY <1>0, <1>4

\* No order is seen partly filled: there is no remainder to cancel.
LEMMA PartialWhole ==
    ASSUME WholeInv,
           PartialActivate \/ PartialBadPrice \/ TrimCancel \/ TrimCheck
    PROVE  WholeInv'
<1>1. ~Wholesome
  BY DEF WholeInv, PartialActivate, PartialBadPrice, TrimCancel, TrimCheck, Deciding
<1>2. faults' = faults
  BY DEF PartialActivate, PartialBadPrice, TrimCancel, TrimCheck, brokerVars,
     CancelAccepted, CancelRefused
<1> QED  BY <1>1, <1>2 DEF WholeInv, Wholesome

LEMMA FilledWhole == ASSUME IInv, WholeInv, FilledActivate PROVE WholeInv'
<1>1. /\ pc \in {"polled", "decide"} /\ seen.st = "complete"
      /\ pc' = "idle" /\ seen' = seen /\ done' = done /\ pending' = NoOrder
      /\ UNCHANGED brokerVars
  BY DEF FilledActivate, Deciding, IsOrderFilled
<1>2. /\ pending \in Orders /\ ~Live(pending) /\ seen.filled = filled[pending]
  BY <1>1, SeenFacts DEF IInv, SeenIsSound
<1>3. PICK a \in Activations(filled[pending]) : Booked(a, "trade")
  BY <1>2 DEF FilledActivate
<1> QED  BY <1>1, <1>2, <1>3, ActivationWhole

LEMMA DeadWhole == ASSUME IInv, WholeInv, DeadActivate PROVE WholeInv'
<1>1. /\ pc \in {"polled", "decide"} /\ seen.st \in DeadStatus
      /\ pc' = "idle" /\ seen' = seen /\ done' = done
      /\ UNCHANGED brokerVars
  BY DEF DeadActivate, Deciding
<1>2. /\ pending \in Orders /\ ~Live(pending) /\ seen.filled = filled[pending]
  BY <1>1, SeenFacts
<1>3. PICK a \in Activations(filled[pending]) :
        /\ Booked(a, IF a.raised THEN "none" ELSE "lapsed")
        /\ pending' = IF a.raised THEN pending ELSE NoOrder
  BY <1>2 DEF DeadActivate
<1> QED  BY <1>1, <1>2, <1>3, ActivationWhole

LEMMA FilledMeanwhileWhole ==
    ASSUME IInv, WholeInv, NegateFilled \/ SqOffFilled PROVE WholeInv'
<1>1. /\ pc \in {"negating", "sqoff"} /\ seen.st = "complete"
      /\ pc' \in {"negating", "sqoff", "idle"} /\ UNCHANGED brokerVars
  BY DEF NegateFilled, SqOffFilled, IsOrderFilled
<1>2. /\ pending \in Orders /\ ~Live(pending) /\ Qty = filled[pending]
  BY <1>1, SeenFacts DEF IInv, SeenIsSound
<1>3. PICK a \in Activations(filled[pending]) :
        /\ Booked(a, IF a.raised THEN "none" ELSE "trade")
        /\ pending' = IF a.raised THEN pending ELSE NoOrder
        /\ seen' = IF a.raised THEN NoStatus ELSE seen
        /\ done' = done \/ done' = ~a.raised
  BY <1>2 DEF NegateFilled, SqOffFilled
<1>4. ~a.raised => pending' = NoOrder /\ seen' = seen /\ (done => done')
  BY <1>3
<1>5. pc \notin {"trim", "trimCheck"} /\ pc' \notin {"trim", "trimCheck"}  BY <1>1
<1> QED  BY <1>1, <1>2, <1>3, <1>4, <1>5, ActivationWhole

LEMMA UntrackingWhole ==
    ASSUME IInv, WholeInv, DeadDrop \/ NegateCancelOk \/ SqOffCancel
    PROVE  WholeInv'
<1>1. /\ pending \in Orders /\ pc \in {"polled", "decide", "negating", "sqoff"}
      /\ pending' = NoOrder /\ pc' = "idle" /\ seen' = seen /\ (done => done')
      /\ UNCHANGED <<managed, sold, saveFailed>>
  BY
  DEF IInv, HandlerTracks, DeadDrop, Deciding, NegateCancelOk, SqOffCancel,
      Untrack
<1>2. CancelsAtMost
  <2>1. CASE DeadDrop  BY <2>1, QuietBroker DEF IInv, DeadDrop
  <2>2. CASE NegateCancelOk \/ SqOffCancel
    BY <1>1, <2>2, CancelAnswers DEF IInv, NegateCancelOk, SqOffCancel
  <2> QED  BY <2>1, <2>2
<1>3. CASE ~Wholesome  BY <1>2, <1>3 DEF WholeInv, Wholesome, CancelsAtMost
<1>4. CASE Wholesome
  <2>1. ~saveFailed /\ (filled[pending] = 0 \/ st[pending] = "complete")
    BY <1>1, <1>4 DEF WholeInv
  <2>2. managed[pending] = 0 /\ sold[pending] = 0
    BY <1>1, <2>1 DEF IInv, NotYetActivated
  <2>3. ~done' => st'[pending] \notin LiveStatus /\ filled[pending] = 0
    <3>1. CASE DeadDrop
      BY <1>1, <2>1, <3>1, SeenFacts DEF DeadDrop, Deciding, brokerVars, orderVars
    <3>2. CASE NegateCancelOk
      BY <1>1, <1>4, <2>1, <3>2, WholesomeFacts
      DEF NegateCancelOk, CancelAccepted, IInv, TypeOK
    <3>3. CASE SqOffCancel  BY <3>3 DEF SqOffCancel
    <3> QED  BY <3>1, <3>2, <3>3
  <2> QED  BY <1>1, <1>2, <2>1, <2>2, <2>3, UntrackWhole
<1> QED  BY <1>3, <1>4

LEMMA NextWhole == ASSUME IInv, WholeInv, [Next]_vars PROVE WholeInv'
<1>1. CASE Broker  BY <1>1, BrokerWhole
<1>2. CASE PlaceEntry  BY <1>2, PlaceEntryWhole
<1>3. CASE Age \/ PollSees \/ PollError \/ NegateBegin \/ SqOffBegin
  BY <1>3, WaitingWhole
<1>4. CASE Handling
  BY <1>4, WaitingWhole, PartialWhole, FilledWhole, DeadWhole, FilledMeanwhileWhole,
     UntrackingWhole DEF Handling
<1>5. CASE UNCHANGED vars
  BY <1>5 DEF vars, orderVars, traderVars, bookVars, WholeInv, Wholesome
<1> QED  BY <1>1, <1>2, <1>3, <1>4, <1>5 DEF Next

\* "Never hold an unprotected position", where orders fill whole, cancels are
\* final, and market exits and saves succeed: between handlers every unit
\* bought is in a trade, was sold, or belongs to the entry still tracked.
THEOREM Protected == Spec => []NoUnprotectedUnits
<1>1. Init => WholeInv  BY InitWhole
<1>2. IInv /\ WholeInv /\ [Next]_vars => WholeInv'  BY NextWhole
<1>3. WholeInv => NoUnprotectedUnits  BY DEF WholeInv, NoUnprotectedUnits
<1> QED  BY <1>1, <1>2, <1>3, Invariance, PTL DEF Spec

=============================================================================
