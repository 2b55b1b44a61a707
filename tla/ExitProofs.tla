----------------------------- MODULE ExitProofs -----------------------------
(***************************************************************************)
(* Proofs about the exit of one trade, live and replayed.                  *)
(*                                                                         *)
(* Live (ExitOrders), for every quantity, lot size, exit mode and          *)
(* combination of faults.  What the record believes and what the exchange  *)
(* did are tied together by sums over the orders: the record has taken off *)
(* no more than what targets up to the trail level have sold, and the      *)
(* exchange has sold at least what its orders filled.                      *)
(*                                                                         *)
(* Replayed (IntradayEngine), for every alert, position size, stop, exit   *)
(* mode and set of prices.  What a trade owes to the capital (Worth) stays *)
(* the same through all that a bar does to it; and the walk of the price   *)
(* along a bar has closed forms, which are what the replay computes.       *)
(***************************************************************************)
EXTENDS ExitOrders, IntradayEngine, FiniteSetTheorems, SequenceTheorems, TLAPS

-----------------------------------------------------------------------------
(* The live exit.                                                          *)

Whole == "partial" \notin faults
AllPlaced == faults \cap {"partial", "target", "exit"} = {}

TargetSum == filled[1] + filled[2] + filled[3]

\* What the targets up to the trail level have sold.
TakenUpTo(l) == (IF l >= 1 THEN filled[1] ELSE 0) + (IF l >= 2 THEN filled[2] ELSE 0)
Taken == TakenUpTo(trail)

\* Orders not placed yet are blank, replaced stops are final, and without
\* partial fills an order is complete with its whole quantity.
OrdersSane ==
    /\ \A o \in Stops : o > slId => st[o] = "none" /\ filled[o] = 0
    /\ \A o \in Stops : o < slId => ~Live(o)
    /\ \A l \in Targets : l \notin targetIds => st[l] = "none"
    /\ \A l \in targetIds : 
            qty[l] = TargetQty(mode, l) /\ TargetQty(mode, l) > 0 /\ st[l] # "none"
    /\ \A l \in Targets : qty[l] <= TargetQty(mode, l)
    /\ \A o \in Orders : st[o] = "complete" => filled[o] = qty[o]
    /\ Whole => \A o \in Orders : st[o] # "partial"
    /\ Whole => \A o \in Orders : st[o] # "complete" => filled[o] = 0

\* The price reaches a target after those below it.
TargetsInOrder ==
    \A l \in Targets, k \in Targets :
        k < l /\ st[l] = "complete" => ~Live(k)

\* A handler under way has an active trade, and what it acts on stays so.
HandlerSane ==
    /\ pc \in {"sl", "slHit", "targets", "closing", "killed"} => active
    /\ pc = "slHit" => st[slId] = "complete"
    /\ pc \in {"slHit", "closing"} =>
         \A o \in Orders : Live(o) =>
             o \in warned \/ \E i \in 1..Len(queue) : queue[i] = o
    /\ "target" \notin faults =>
         /\ targetIds = Planned(mode)
         /\ active /\ pc \in {"idle", "sl", "targets"} =>
              \A l \in targetIds : st[l] # "cancelled"

\* The stop has not been raised beyond what the record says.
TrailSane ==
    /\ level[slId] <= currentSl /\ currentSl <= trail
    /\ mode = "single_lot" => trail < SingleTarget

\* The sums.
UnitsSold ==
    /\ sold >= TargetSum + filled[slId]
    /\ Whole =>
         /\ qty[slId] >= remaining
         /\ remaining + Taken >= Qty
         /\ mode = "single_lot" => remaining = Qty
UnitsBooked ==
    AllPlaced =>
        /\ booked <= sold
        /\ active => booked <= Taken /\ booked + remaining <= Qty

Inv ==
    /\ TypeOK
    /\ OrdersSane /\ TargetsInOrder /\ HandlerSane /\ TrailSane
    /\ UnitsSold /\ UnitsBooked
    /\ ClosedSoldAll /\ ClosedOrWarned

USE ExitOrdersAssumption

-----------------------------------------------------------------------------
(* Lemmas about the operators.                                             *)

\* Three times a third of the lots is no more than the quantity.
LEMMA ThirdsFit ==
    /\ LotsPerTp * LotSize \in Nat
    /\ 3 * (LotsPerTp * LotSize) <= Qty
<1> DEFINE lots == Qty \div LotSize
<1>1. lots \in Nat /\ lots * LotSize <= Qty  OBVIOUS
<1>2. LotsPerTp \in Nat /\ 3 * LotsPerTp <= lots  BY <1>1 DEF LotsPerTp
<1> HIDE DEF lots
<1>3. (3 * LotsPerTp) * LotSize <= lots * LotSize  BY <1>1, <1>2
<1>4. (3 * LotsPerTp) * LotSize = 3 * (LotsPerTp * LotSize)  BY <1>2
<1>5. LotsPerTp * LotSize \in Nat  BY <1>2
<1> QED  BY <1>1, <1>3, <1>4, <1>5

\* The quantities of the targets make up the position.
LEMMA TargetQtySum ==
    ASSUME NEW m \in {"multi_lot", "single_lot"}
    PROVE  /\ \A l \in Targets : TargetQty(m, l) \in 0..Qty
           /\ TargetQty(m, 1) + TargetQty(m, 2) + TargetQty(m, 3) = Qty
<1> DEFINE third == LotsPerTp * LotSize
<1>1. third \in Nat /\ 3 * third <= Qty  BY ThirdsFit
<1>2. 2 * LotsPerTp * LotSize = 2 * third  BY DEF LotsPerTp
<1>3. \A l \in Targets :
        TargetQty(m, l) = IF m = "single_lot" THEN (IF l = SingleTarget THEN Qty ELSE 0)
                          ELSE IF l = 3 THEN Qty - 2 * third ELSE third
  BY <1>2 DEF TargetQty
<1> HIDE DEF third
<1> QED  BY <1>1, <1>3 DEF Targets

\* A sequence is in the concatenation, after those before it.
LEMMA OnlyInProperties ==
    ASSUME NEW S, NEW l
    PROVE  /\ OnlyIn(S, l) \in Seq(S) /\ Len(OnlyIn(S, l)) \in Nat
           /\ l \in S => 1 \in 1..Len(OnlyIn(S, l)) /\ OnlyIn(S, l)[1] = l
BY DEF OnlyIn

LEMMA ConcatKeeps ==
    ASSUME NEW S, NEW a \in Seq(S), NEW b \in Seq(S), NEW x,
           \/ \E i \in 1..Len(a) : a[i] = x
           \/ \E i \in 1..Len(b) : b[i] = x
    PROVE  a \o b \in Seq(S) /\ \E i \in 1..Len(a \o b) : (a \o b)[i] = x
<1> DEFINE ab == a \o b
<1>1. /\ ab \in Seq(S) /\ Len(ab) = Len(a) + Len(b)
      /\ \A i \in 1..(Len(a) + Len(b)) :
            ab[i] = IF i <= Len(a) THEN a[i] ELSE b[i - Len(a)]
  BY ConcatProperties
<1>2. Len(a) \in Nat /\ Len(b) \in Nat  BY LenProperties
<1> HIDE DEF ab
<1>3. CASE \E i \in 1..Len(a) : a[i] = x  BY <1>1, <1>2, <1>3
<1>4. CASE \E i \in 1..Len(b) : b[i] = x
  <2>1. PICK i \in 1..Len(b) : b[i] = x  BY <1>4
  <2>2. i \in Nat /\ i >= 1 /\ i <= Len(b)  BY <1>2
  <2>3. Len(a) + i \in 1..(Len(a) + Len(b)) /\ ~(Len(a) + i <= Len(a))
        /\ (Len(a) + i) - Len(a) = i
    BY <2>2, <1>2
  <2>4. ab[Len(a) + i] = b[i]  BY <1>1, <2>3
  <2> QED  BY <1>1, <2>1, <2>3, <2>4 DEF ab
<1> QED  BY <1>3, <1>4, <1>1 DEF ab

Occurs(x, s) == \E i \in 1..Len(s) : s[i] = x

LEMMA OccursBehind ==
    ASSUME NEW S, NEW a \in Seq(S), NEW b \in Seq(S), NEW x, Occurs(x, b)
    PROVE  Occurs(x, a \o b)
<1> DEFINE ab == a \o b
<1>1. /\ ab \in Seq(S) /\ Len(ab) = Len(a) + Len(b)
      /\ \A i \in 1..(Len(a) + Len(b)) :
            ab[i] = IF i <= Len(a) THEN a[i] ELSE b[i - Len(a)]
  BY ConcatProperties
<1>2. Len(a) \in Nat /\ Len(b) \in Nat  BY LenProperties
<1> HIDE DEF ab
<1>3. PICK i \in 1..Len(b) : b[i] = x  BY DEF Occurs
<1>4. i \in Nat /\ i >= 1 /\ i <= Len(b)  BY <1>2
<1>5. Len(a) + i \in 1..(Len(a) + Len(b)) /\ ~(Len(a) + i <= Len(a))
      /\ (Len(a) + i) - Len(a) = i
  BY <1>4, <1>2
<1>6. ab[Len(a) + i] = x  BY <1>1, <1>3, <1>5
<1>7. Occurs(x, ab)  BY <1>1, <1>5, <1>6 DEF Occurs
<1> QED  BY <1>7 DEF ab

\* Every target in S is in the sequence, and nothing else.
LEMMA AscendingProperties ==
    ASSUME NEW S, S \subseteq Targets
    PROVE  /\ Ascending(S) \in Seq(S)
           /\ \A l \in S : \E i \in 1..Len(Ascending(S)) : Ascending(S)[i] = l
<1>1. OnlyIn(S, 1) \o OnlyIn(S, 2) \in Seq(S) /\ Ascending(S) \in Seq(S)
  BY OnlyInProperties, ConcatProperties DEF Ascending
<1>2. ASSUME NEW l \in S PROVE \E i \in 1..Len(Ascending(S)) : Ascending(S)[i] = l
  <2>1. \E i \in 1..Len(OnlyIn(S, l)) : OnlyIn(S, l)[i] = l
    BY <1>2, OnlyInProperties
  <2>2. CASE l \in {1, 2}
    <3>1. \E i \in 1..Len(OnlyIn(S, 1) \o OnlyIn(S, 2)) :
              (OnlyIn(S, 1) \o OnlyIn(S, 2))[i] = l
      BY <2>1, <2>2, ConcatKeeps, OnlyInProperties
    <3> QED  BY <3>1, <1>1, ConcatKeeps, OnlyInProperties DEF Ascending
  <2>3. CASE l = 3
    <3>1. \E i \in 1..Len(OnlyIn(S, 3)) : OnlyIn(S, 3)[i] = l  BY <2>1, <2>3
    <3>2. OnlyIn(S, 3) \in Seq(S)  BY OnlyInProperties
    <3> DEFINE a == OnlyIn(S, 1) \o OnlyIn(S, 2)
               b == OnlyIn(S, 3)
    <3>3. a \in Seq(S) /\ b \in Seq(S) /\ Occurs(l, b)
      BY <3>1, <3>2, <1>1 DEF Occurs
    <3>4. Ascending(S) = a \o b  BY DEF Ascending
    <3> HIDE DEF a, b
    <3>5. Occurs(l, a \o b)  BY <3>3, OccursBehind
    <3> QED  BY <3>4, <3>5 DEF Occurs
  <2> QED  BY <1>2, <2>2, <2>3 DEF Targets
<1> QED  BY <1>1, <1>2
-----------------------------------------------------------------------------
(* Types and numbers.                                                      *)

ExchangeTypes ==
    /\ mode \in Modes /\ faults \in FaultModels
    /\ st \in [Orders -> LiveStatus \cup {"none", "complete", "cancelled"}]
    /\ qty \in [Orders -> 0..Qty] /\ filled \in [Orders -> 0..Qty]
    /\ \A o \in Orders : filled[o] <= qty[o]
    /\ level \in [Stops -> 0..2]

RecordTypes ==
    /\ sold \in Nat /\ booked \in 0..MaxBooked
    /\ active \in BOOLEAN /\ how \in Reasons /\ (active <=> how = "none")
    /\ slId \in Stops /\ targetIds \subseteq Targets
    /\ trail \in 0..2 /\ currentSl \in 0..2 /\ remaining \in 0..Qty
    /\ warned \subseteq Orders

HandlerTypes ==
    /\ pc \in {"idle", "sl", "slHit", "targets", "closing", "killed"}
    /\ next \in Targets /\ sl \in Stops /\ queue \in Seq(Orders)

LEMMA TypeParts ==
    /\ TypeOK <=> ExchangeTypes /\ RecordTypes /\ HandlerTypes
    /\ TypeOK' <=> (ExchangeTypes /\ RecordTypes /\ HandlerTypes)'
<1> USE DEF TypeOK, ExchangeTypes, RecordTypes, HandlerTypes
<1>1. TypeOK <=> ExchangeTypes /\ RecordTypes /\ HandlerTypes  OBVIOUS
<1>2. TypeOK' <=> (ExchangeTypes /\ RecordTypes /\ HandlerTypes)'  OBVIOUS
<1> QED  BY <1>1, <1>2

LEMMA OrderIds ==
    /\ 1 \in Orders /\ 2 \in Orders /\ 3 \in Orders
    /\ \A o \in Stops : o \in Orders /\ o \notin Targets /\ o \in Nat
    /\ Targets \subseteq Orders /\ Targets = {1, 2, 3} /\ 4 \in Stops
    /\ Orders = Targets \cup Stops
BY DEF Orders, Targets, Stops

LEMMA Numbers ==
    ASSUME TypeOK
    PROVE  /\ filled[1] \in Nat /\ filled[2] \in Nat /\ filled[3] \in Nat
           /\ filled[slId] \in Nat /\ qty[slId] \in 0..Qty
           /\ filled[slId] <= qty[slId]
           /\ sold \in Nat /\ booked \in Nat /\ remaining \in 0..Qty
           /\ TargetSum \in Nat /\ Taken \in Nat /\ Taken <= TargetSum
           /\ Qty \in Nat
<1>1. /\ filled[1] \in 0..Qty /\ filled[2] \in 0..Qty /\ filled[3] \in 0..Qty
      /\ filled[slId] \in 0..Qty /\ qty[slId] \in 0..Qty
      /\ filled[slId] <= qty[slId]
  BY OrderIds DEF TypeOK
<1>2. sold \in Nat /\ booked \in Nat /\ remaining \in 0..Qty /\ trail \in 0..2
  BY DEF TypeOK
<1>3. TargetSum \in Nat /\ Taken \in Nat /\ Taken <= TargetSum
  BY <1>1, <1>2 DEF TargetSum, Taken, TakenUpTo
<1> QED  BY <1>1, <1>2, <1>3

LEMMA BookBound ==
    ASSUME booked \in 0..MaxBooked, NEW n \in Nat, Book(n)
    PROVE  booked' \in 0..MaxBooked /\ booked' <= booked + n
BY DEF Book

LEMMA EndPassTypes ==
    ASSUME slId \in Stops, EndPass
    PROVE  HandlerTypes' /\ pc' = "idle"
<1>1. <<>> \in Seq(Orders)  BY EmptySeq
<1>2. pc' = "idle" /\ next' \in Targets /\ sl' \in Stops  BY DEF EndPass, Targets
<1>3. queue' \in Seq(Orders)  BY <1>1 DEF EndPass
<1> QED  BY <1>2, <1>3 DEF HandlerTypes

LEMMA NextTargetTypes ==
    ASSUME TypeOK, NextTarget
    PROVE  HandlerTypes' /\ (pc' = "idle" \/ UNCHANGED pc)
<1>1. CASE next < 3  BY <1>1 DEF NextTarget, HandlerTypes, TypeOK, Targets
<1>2. CASE ~(next < 3)
  <2>1. slId \in Stops /\ EndPass  BY <1>2 DEF NextTarget, TypeOK
  <2> QED  BY <2>1, EndPassTypes
<1> QED  BY <1>1, <1>2

\* The next order of the queue is taken off: the others are still in it.
LEMMA QueueTaken ==
    ASSUME queue \in Seq(Orders), queue # <<>>
    PROVE  /\ Head(queue) \in Orders /\ Tail(queue) \in Seq(Orders)
           /\ \A i \in 1..Len(queue) :
                queue[i] = Head(queue)
                \/ \E j \in 1..Len(Tail(queue)) : Tail(queue)[j] = queue[i]
<1>1. /\ Head(queue) \in Orders /\ Tail(queue) \in Seq(Orders)
      /\ Len(Tail(queue)) = Len(queue) - 1 /\ Len(queue) \in Nat
      /\ \A j \in 1..Len(Tail(queue)) : Tail(queue)[j] = queue[j + 1]
      /\ Head(queue) = queue[1]
  BY HeadTailProperties, LenProperties
<1>2. ASSUME NEW i \in 1..Len(queue), i # 1
      PROVE  \E j \in 1..Len(Tail(queue)) : Tail(queue)[j] = queue[i]
  <2>1. i - 1 \in 1..Len(Tail(queue)) /\ (i - 1) + 1 = i  BY <1>1, <1>2
  <2>2. Tail(queue)[i - 1] = queue[i]  BY <1>1, <2>1
  <2> QED  BY <2>1, <2>2
<1> QED  BY <1>1, <1>2

\* A close visits the stop and every target.
LEMMA AllOrdersProperties ==
    ASSUME TypeOK
    PROVE  /\ AllOrders \in Seq(Orders) /\ Ascending(targetIds) \in Seq(Orders)
           /\ \A o \in targetIds \cup {slId} :
                \E i \in 1..Len(AllOrders) : AllOrders[i] = o
<1> DEFINE a == <<slId>>
           b == Ascending(targetIds)
<1>1. slId \in Orders /\ targetIds \subseteq Targets /\ Targets \subseteq Orders
  BY OrderIds DEF TypeOK
<1>2. a \in Seq(Orders) /\ Len(a) = 1 /\ a[1] = slId  BY <1>1
<1>3. /\ b \in Seq(targetIds)
      /\ \A l \in targetIds : \E i \in 1..Len(b) : b[i] = l
  BY <1>1, AscendingProperties
<1>4. b \in Seq(Orders)  BY <1>1, <1>3, SeqMonotonic
<1>5. AllOrders = a \o b  BY DEF AllOrders
<1> HIDE DEF a, b
<1>6. AllOrders \in Seq(Orders)  BY <1>2, <1>4, <1>5, ConcatProperties
<1>7. a \in Seq(Orders) /\ b \in Seq(Orders)  BY <1>2, <1>4
<1>8. \E i \in 1..Len(a \o b) : (a \o b)[i] = slId
  <2>1. \E i \in 1..Len(a) : a[i] = slId  BY <1>2
  <2> QED  BY <2>1, <1>7, ConcatKeeps
<1>9. ASSUME NEW o \in targetIds
      PROVE  \E i \in 1..Len(a \o b) : (a \o b)[i] = o
  <2>1. \E i \in 1..Len(b) : b[i] = o  BY <1>3, <1>9
  <2>2. Occurs(o, b)  BY <2>1 DEF Occurs
  <2>3. Occurs(o, a \o b)  BY <1>7, <2>2, OccursBehind
  <2> QED  BY <2>3 DEF Occurs
<1> QED  BY <1>4, <1>5, <1>6, <1>8, <1>9 DEF b

\* The identifier of the stop is no target's.
LEMMA StopId ==
    ASSUME TypeOK
    PROVE  /\ slId \in Stops /\ slId \in Orders /\ slId \in Nat
           /\ slId # 1 /\ slId # 2 /\ slId # 3
<1>1. slId \in Stops  BY DEF TypeOK
<1> QED  BY <1>1 DEF Orders, Stops

\* A modification keeps the stop's old values or gives it the new ones, and
\* touches no other order and no order that is final.
LEMMA ModifyStopEffect ==
    ASSUME TypeOK, NEW l \in 0..2, NEW q \in 0..Qty, ModifyStop(slId, l, q)
    PROVE  /\ level' \in [Stops -> 0..2] /\ qty' \in [Orders -> 0..Qty]
           /\ \A o \in Orders : filled[o] <= qty'[o]
           /\ \A o \in Orders : o # slId \/ ~Live(o) => qty'[o] = qty[o]
           /\ qty'[slId] = qty[slId] \/ qty'[slId] = q
           /\ level'[slId] = level[slId] \/ level'[slId] = l
<1>1. /\ slId \in Stops /\ slId \in Orders
      /\ level \in [Stops -> 0..2] /\ qty \in [Orders -> 0..Qty]
      /\ filled \in [Orders -> 0..Qty] /\ \A o \in Orders : filled[o] <= qty[o]
  BY StopId DEF TypeOK
<1>2. CASE UNCHANGED <<level, qty>>  BY <1>1, <1>2
<1>3. CASE /\ Live(slId) /\ q > filled[slId]
           /\ level' = [level EXCEPT ![slId] = l]
           /\ qty' = [qty EXCEPT ![slId] = q]
  BY <1>1, <1>3
<1> QED  BY <1>2, <1>3 DEF ModifyStop

\* A cancellation touches its own order, which is final after it or reported.
LEMMA CancelWithRetryEffect ==
    ASSUME TypeOK, NEW o \in Orders, CancelWithRetry(o)
    PROVE  /\ st' \in [Orders -> LiveStatus \cup {"none", "complete", "cancelled"}]
           /\ \A p \in Orders : p # o => st'[p] = st[p]
           /\ st'[o] = st[o] \/ (Live(o) /\ st'[o] = "cancelled")
           /\ warned \subseteq warned' /\ warned' \subseteq Orders
           /\ st'[o] \in LiveStatus => o \in warned'
<1>1. st \in [Orders -> LiveStatus \cup {"none", "complete", "cancelled"}]
      /\ warned \subseteq Orders
  BY DEF TypeOK
<1>2. CASE /\ st' = IF Live(o) THEN [st EXCEPT ![o] = "cancelled"] ELSE st
           /\ warned' = warned \/ warned' = warned \cup {o}
  BY <1>1, <1>2 DEF Live, LiveStatus
<1>3. CASE UNCHANGED st /\ warned' = warned \cup {o}
  BY <1>1, <1>3
<1> QED  BY <1>2, <1>3 DEF CancelWithRetry

\* What is sold at market is what the record says is left.
LEMMA SellRemainingEffect ==
    ASSUME TypeOK, SellRemaining
    PROVE  /\ sold' \in Nat /\ sold' >= sold
           /\ "exit" \notin faults => sold' = sold + remaining
BY Numbers DEF SellRemaining

\* Targets sell no more than the position.
LEMMA TargetsWithinQty ==
    ASSUME TypeOK, OrdersSane
    PROVE  TargetSum <= Qty
<1>1. mode \in {"multi_lot", "single_lot"}  BY DEF TypeOK
<1>2. /\ \A l \in Targets : TargetQty(mode, l) \in 0..Qty
      /\ TargetQty(mode, 1) + TargetQty(mode, 2) + TargetQty(mode, 3) = Qty
  BY <1>1, TargetQtySum
<1>3. \A l \in Targets : /\ filled[l] \in 0..Qty /\ qty[l] \in 0..Qty
                         /\ filled[l] <= qty[l] /\ qty[l] <= TargetQty(mode, l)
  BY OrderIds DEF TypeOK, OrdersSane
<1> HIDE DEF TypeOK, OrdersSane
<1> QED  BY <1>2, <1>3, OrderIds, SMTT(30) DEF TargetSum

\* Arithmetic of a target hit: n units are filled, r and k are left and taken.
LEMMA TakenOff ==
    ASSUME NEW r \in Nat, NEW k \in Nat, NEW n \in Nat, NEW rn \in Nat, NEW kn \in Nat,
           r + k >= Qty, rn + n >= r, kn >= k + n
    PROVE  rn + kn >= Qty
OBVIOUS

LEMMA BookedAndLeft ==
    ASSUME NEW b \in Nat, NEW r \in Nat, NEW n \in Nat, NEW bn \in Nat, NEW rn \in Nat,
           b + r <= Qty, bn <= b + n, bn <= Qty, rn = 0 \/ rn + n = r
    PROVE  bn + rn <= Qty
OBVIOUS

\* The final target is filled after the others: the whole position is sold.
LEMMA FinalTargetSoldAll ==
    ASSUME Inv, NEW l \in Targets, Polled(l), st[l] = "complete", Final(l),
           "target" \notin faults
    PROVE  TargetSum = Qty
<1> USE DEF Inv
<1>1. mode \in {"multi_lot", "single_lot"} /\ pc = "targets" /\ l \in targetIds
  BY DEF TypeOK, Polled
<1>2. /\ \A k \in Targets : TargetQty(mode, k) \in 0..Qty
      /\ TargetQty(mode, 1) + TargetQty(mode, 2) + TargetQty(mode, 3) = Qty
  BY <1>1, TargetQtySum
<1>3. /\ filled[l] = TargetQty(mode, l) /\ TargetQty(mode, l) > 0
      /\ targetIds = Planned(mode) /\ \A k \in targetIds : st[k] # "cancelled"
  BY <1>1, OrderIds DEF OrdersSane, HandlerSane
<1>4. CASE mode = "single_lot"
  <2>1. l = SingleTarget /\ TargetQty(mode, l) = Qty  BY <1>3, <1>4 DEF TargetQty
  <2>2. TargetSum >= Qty /\ TargetSum <= Qty
    BY <1>3, <2>1, Numbers, OrderIds, TargetsWithinQty DEF TargetSum
  <2> QED  BY <2>2, Numbers
<1>5. CASE mode = "multi_lot" /\ l = 3
  <2>1. ASSUME NEW k \in Targets PROVE filled[k] = TargetQty(mode, k)
    <3>1. CASE k \in targetIds
      <4>1. st[k] # "none" /\ st[k] # "cancelled" /\ (k = l \/ ~Live(k))
        BY <1>3, <1>5, <3>1, OrderIds DEF OrdersSane, TargetsInOrder
      <4>2. st[k] = "complete"  BY <4>1, <2>1, OrderIds DEF TypeOK, Live, LiveStatus
      <4> QED  BY <4>2, <3>1, <2>1, OrderIds DEF OrdersSane
    <3>2. CASE k \notin targetIds
      <4>1. TargetQty(mode, k) = 0  BY <1>2, <1>3, <2>1, <3>2 DEF Planned
      <4>2. filled[k] \in 0..Qty /\ filled[k] <= qty[k] /\ qty[k] \in 0..Qty
            /\ qty[k] <= TargetQty(mode, k)
        BY <2>1, OrderIds, SMTT(30) DEF TypeOK, OrdersSane
      <4> QED  BY <4>1, <4>2
    <3> QED  BY <3>1, <3>2
  <2> QED  BY <1>2, <2>1, OrderIds DEF TargetSum
<1> QED  BY <1>1, <1>4, <1>5 DEF Final

-----------------------------------------------------------------------------
(* The steps.                                                              *)

LEMMA FillInv == ASSUME Inv, NEW o \in Orders, Fill(o) PROVE Inv'
<1> USE DEF Inv, Fill
<1>0. ExchangeTypes /\ RecordTypes /\ HandlerTypes  BY TypeParts
<1>a. PICK n \in (filled[o] + 1)..qty[o] :
        /\ n < qty[o] => "partial" \in faults
        /\ filled' = [filled EXCEPT ![o] = n]
        /\ st' = [st EXCEPT ![o] = IF n = qty[o] THEN "complete" ELSE "partial"]
        /\ sold' = sold + n - filled[o]
  OBVIOUS
<1>b. /\ filled[o] \in Nat /\ n \in Nat /\ n > filled[o] /\ n <= qty[o] /\ n \in 0..Qty
      /\ \A p \in Orders : filled'[p] = IF p = o THEN n ELSE filled[p]
      /\ \A p \in Orders : st'[p] = IF p # o THEN st[p]
                                    ELSE IF n = qty[o] THEN "complete" ELSE "partial"
  BY <1>0, <1>a DEF ExchangeTypes
<1> HIDE DEF Fill
<1>c. /\ UNCHANGED <<mode, faults, qty, level, recordVars, booked, handlerVars, warned>>
      /\ Live(o) /\ (o \in Targets => \A l \in 1..(o - 1) : ~Live(l))
  BY DEF Fill
<1>d. UNCHANGED <<mode, faults, qty, level, active, how, slId, targetIds, trail, currentSl,
                  remaining, booked, pc, sl, next, queue, warned>>
  BY <1>c DEF recordVars, handlerVars
<1>1. TypeOK'
  <2>1. ExchangeTypes'
    BY <1>0, <1>a, <1>b, <1>d DEF ExchangeTypes, LiveStatus
  <2>2. RecordTypes'  BY <1>0, <1>a, <1>b, <1>d DEF RecordTypes
  <2>3. HandlerTypes'  BY <1>0, <1>d DEF HandlerTypes
  <2> QED  BY <2>1, <2>2, <2>3, TypeParts
<1>2. OrdersSane' /\ TargetsInOrder'
  <2>1. OrdersSane'
    BY <1>0, <1>a, <1>b, <1>c, <1>d, OrderIds
       DEF OrdersSane, Live, LiveStatus, Whole, ExchangeTypes
  <2>2. TargetsInOrder'
    BY <1>b, <1>c, OrderIds DEF TargetsInOrder, Live, LiveStatus
  <2> QED  BY <2>1, <2>2
<1>3. HandlerSane'
  <2>1. \A p \in Orders : (Live(p))' => Live(p)
    BY <1>b, <1>c DEF Live
  <2>2. ASSUME pc = "slHit" PROVE st'[slId] = "complete"
    <3>1. st[slId] = "complete" /\ slId \in Orders
      BY <2>2, <1>0, OrderIds DEF HandlerSane, RecordTypes
    <3> QED  BY <3>1, <1>b, <1>c DEF Live, LiveStatus
  <2>3. \A l \in Targets : st'[l] = "cancelled" => st[l] = "cancelled"
    BY <1>b, OrderIds
  <2>4. Planned(mode)' = Planned(mode)  BY <1>d DEF Planned, TargetQty
  <2>5. targetIds \subseteq Targets  BY <1>0 DEF RecordTypes
  <2> QED  BY <1>d, <2>1, <2>2, <2>3, <2>4, <2>5 DEF HandlerSane
<1>4. TrailSane'  BY <1>d DEF TrailSane
<1>5. UnitsSold'
  <2>1. slId \in Orders /\ slId \notin {1, 2, 3}  BY <1>0, OrderIds DEF RecordTypes
  <2>2. TargetSum' + filled'[slId] <= TargetSum + filled[slId] + (n - filled[o])
    BY <1>0, <1>b, <2>1, OrderIds, Numbers DEF TargetSum
  <2>3. Taken' >= Taken /\ Taken' \in Nat
    BY <1>0, <1>b, <1>d, OrderIds, Numbers DEF Taken, TakenUpTo, RecordTypes
  <2>4. TargetSum' \in Nat /\ filled'[slId] \in Nat
    BY <1>b, <2>1, OrderIds, Numbers DEF TargetSum
  <2> QED  BY <1>a, <1>b, <1>d, <2>2, <2>3, <2>4, Numbers DEF UnitsSold, Whole
<1>6. UnitsBooked'
  <2>1. Taken' >= Taken /\ Taken' \in Nat
    BY <1>0, <1>b, <1>d, OrderIds, Numbers DEF Taken, TakenUpTo, RecordTypes
  <2> QED  BY <1>a, <1>b, <1>d, <2>1, Numbers DEF UnitsBooked, AllPlaced
<1>7. ClosedSoldAll'  BY <1>a, <1>b, <1>d, Numbers DEF ClosedSoldAll, Held
<1>8. ClosedOrWarned'  BY <1>b, <1>c, <1>d DEF ClosedOrWarned, Live, LiveStatus
<1> QED  BY <1>1, <1>2, <1>3, <1>4, <1>5, <1>6, <1>7, <1>8

LEMMA KillInv == ASSUME Inv, NEW o \in Orders, Kill(o) PROVE Inv'
<1> USE DEF Inv, Kill
<1>0. ExchangeTypes /\ RecordTypes /\ HandlerTypes  BY TypeParts
<1>1. TypeOK'
  <2>1. ExchangeTypes'  BY <1>0 DEF ExchangeTypes, exchangeVars, KeepRecord
  <2>2. RecordTypes'
    BY <1>0 DEF RecordTypes, recordVars, KeepRecord, Close, Reasons
  <2>3. HandlerTypes'  BY <1>0 DEF HandlerTypes, handlerVars
  <2> QED  BY <2>1, <2>2, <2>3, TypeParts
<1>2. OrdersSane' /\ TargetsInOrder'
  BY DEF OrdersSane, TargetsInOrder, recordVars, Live, LiveStatus, Whole
<1>3. HandlerSane'
  BY DEF HandlerSane, TypeOK, recordVars, handlerVars, Live, LiveStatus, Orders
<1>4. TrailSane'
  BY DEF TrailSane, recordVars
<1>5. UnitsSold'
  BY DEF UnitsSold, recordVars, TargetSum, Taken, TakenUpTo, Whole
<1>6. UnitsBooked'
  BY DEF UnitsBooked, recordVars, Taken, TakenUpTo, AllPlaced
<1>7. ClosedSoldAll'
  BY DEF ClosedSoldAll, recordVars, Held
<1>8. ClosedOrWarned'
  BY DEF ClosedOrWarned, recordVars, Live
<1> QED  BY <1>1, <1>2, <1>3, <1>4, <1>5, <1>6, <1>7, <1>8

LEMMA TrailSingleInv == ASSUME Inv, TrailSingle PROVE Inv'
<1> USE DEF Inv, TrailSingle, InPass, ModifyStop
<1>0. ExchangeTypes /\ RecordTypes /\ HandlerTypes  BY TypeParts
<1>d. UNCHANGED <<mode, faults, st, filled, sold, active, how, slId, targetIds,
                remaining, booked, sl, next, queue, warned>>
  BY DEF exchangeVars, recordVars, handlerVars, KeepRecord
<1>e. /\ mode = "single_lot" /\ trail < SingleTarget - 1 /\ trail \in 0..2
      /\ trail' = trail + 1 /\ currentSl' = trail + 1 /\ trail + 1 \in 0..2
      /\ remaining \in 0..Qty /\ pc' = "sl" /\ active
  BY <1>0 DEF RecordTypes
<1>f. ModifyStop(slId, trail + 1, remaining)  OBVIOUS
<1> HIDE DEF TrailSingle
<1>g. /\ level' \in [Stops -> 0..2] /\ qty' \in [Orders -> 0..Qty]
      /\ \A o \in Orders : filled[o] <= qty'[o]
      /\ \A o \in Orders : o # slId \/ ~Live(o) => qty'[o] = qty[o]
      /\ qty'[slId] = qty[slId] \/ qty'[slId] = remaining
      /\ level'[slId] = level[slId] \/ level'[slId] = trail + 1
  BY <1>e, <1>f, ModifyStopEffect
<1>1. TypeOK'
  <2>1. ExchangeTypes'
    BY <1>0, <1>d, <1>g DEF ExchangeTypes
  <2>2. RecordTypes'
    BY <1>0, <1>d, <1>e DEF RecordTypes
  <2>3. HandlerTypes'
    BY <1>0, <1>d, <1>e DEF HandlerTypes
  <2> QED  BY <2>1, <2>2, <2>3, TypeParts
<1>2. OrdersSane' /\ TargetsInOrder'
  <2>1. \A l \in Targets : qty'[l] = qty[l]  BY <1>g, StopId, OrderIds
  <2>2. \A o \in Orders : st[o] = "complete" => qty'[o] = qty[o]
    BY <1>g DEF Live, LiveStatus
  <2>3. targetIds \subseteq Targets  BY <1>0 DEF RecordTypes
  <2>4. OrdersSane'
    BY <1>d, <2>1, <2>2, <2>3 DEF OrdersSane, Live, Whole, TargetQty, LotsPerTp
  <2>5. TargetsInOrder'  BY <1>d DEF TargetsInOrder, Live
  <2> QED  BY <2>4, <2>5
<1>3. HandlerSane'
  <2>1. targetIds \subseteq Targets /\ Planned(mode)' = Planned(mode)
    BY <1>0, <1>d DEF RecordTypes, Planned, TargetQty
  <2>2. pc \in {"idle", "sl"}  BY DEF TrailSingle, InPass
  <2> QED  BY <1>d, <1>e, <2>1, <2>2 DEF HandlerSane
<1>4. TrailSane'
  <2>1. level[slId] \in 0..2 /\ currentSl \in 0..2
    BY <1>0, StopId DEF ExchangeTypes, RecordTypes
  <2> QED  BY <1>d, <1>e, <1>g, <2>1 DEF TrailSane
<1>5. UnitsSold'
  <2>1. TargetSum' = TargetSum /\ Taken' \in Nat
    BY <1>d, <1>e, Numbers DEF TargetSum, Taken, TakenUpTo
  <2>2. ASSUME Whole
        PROVE  /\ qty'[slId] >= remaining /\ remaining = Qty
               /\ remaining + Taken' >= Qty
    <3>1. qty[slId] >= remaining /\ remaining = Qty  BY <1>e, <2>2 DEF UnitsSold
    <3>2. qty'[slId] >= remaining
      <4>1. CASE qty'[slId] = qty[slId]  BY <3>1, <4>1
      <4>2. CASE qty'[slId] = remaining  BY <4>2, <1>e
      <4> QED  BY <1>g, <4>1, <4>2
    <3>3. remaining + Taken' >= Qty
      <4> DEFINE taken == Taken'
      <4>1. taken \in Nat /\ Qty \in Nat  BY <2>1, Numbers
      <4> HIDE DEF taken
      <4>2. Qty + taken >= Qty  BY <4>1
      <4> QED  BY <3>1, <4>2 DEF taken
    <3> QED  BY <3>1, <3>2, <3>3
  <2> QED  BY <1>d, <2>1, <2>2 DEF UnitsSold, Whole
<1>6. UnitsBooked'
  <2>1. Taken' >= Taken /\ Taken' \in Nat
    BY <1>d, <1>e, Numbers DEF Taken, TakenUpTo
  <2> QED  BY <1>d, <2>1, Numbers DEF UnitsBooked, AllPlaced
<1>7. ClosedSoldAll'  BY <1>d DEF ClosedSoldAll, Held
<1>8. ClosedOrWarned'  BY <1>d DEF ClosedOrWarned, Live
<1> QED  BY <1>1, <1>2, <1>3, <1>4, <1>5, <1>6, <1>7, <1>8

LEMMA StopFilledInv == ASSUME Inv, StopFilled PROVE Inv'
<1> USE DEF Inv, StopFilled, InPass
<1>0. ExchangeTypes /\ RecordTypes /\ HandlerTypes  BY TypeParts
<1>1. TypeOK'
  <2>1. ExchangeTypes'  BY <1>0 DEF ExchangeTypes, exchangeVars, KeepRecord
  <2>2. RecordTypes'
    BY <1>0 DEF RecordTypes, recordVars, KeepRecord, Close, Reasons
  <2>3. HandlerTypes'
    <3>1. Ascending(targetIds) \in Seq(Orders)  BY AllOrdersProperties
    <3>2. queue' \in Seq(Orders) /\ pc' = "slHit" /\ UNCHANGED <<sl, next>>  BY <3>1
    <3> HIDE DEF StopFilled
    <3> QED  BY <1>0, <3>2 DEF HandlerTypes
  <2> QED  BY <2>1, <2>2, <2>3, TypeParts
<1>2. OrdersSane' /\ TargetsInOrder'
  BY DEF OrdersSane, TargetsInOrder, exchangeVars, recordVars, Live, Whole
<1>3. HandlerSane'
  <2> DEFINE q == Ascending(targetIds)
  <2>1. /\ pc' = "slHit" /\ queue' = q /\ active /\ st[slId] = "complete"
        /\ UNCHANGED <<mode, faults, st, active, slId, targetIds, warned>>
        /\ targetIds \subseteq Targets
    BY <1>0 DEF RecordTypes, exchangeVars, recordVars
  <2>2. \A l \in targetIds : \E i \in 1..Len(q) : q[i] = l
    BY <2>1, AscendingProperties
  <2> HIDE DEF q, StopFilled
  <2>3. ASSUME NEW o \in Orders, Live(o) PROVE o \in targetIds
    BY <2>1, <2>3, StopId, OrderIds DEF OrdersSane, Live, LiveStatus, Orders, Stops
  <2>4. Planned(mode)' = Planned(mode)  BY <2>1 DEF Planned, TargetQty
  <2> QED  BY <2>1, <2>2, <2>3, <2>4 DEF HandlerSane, Live
<1>4. TrailSane'
  BY DEF TrailSane, exchangeVars, recordVars
<1>5. UnitsSold'
  BY DEF UnitsSold, exchangeVars, recordVars, TargetSum, Taken, TakenUpTo, Whole
<1>6. UnitsBooked'
  BY DEF UnitsBooked, exchangeVars, recordVars, Taken, TakenUpTo, AllPlaced
<1>7. ClosedSoldAll'
  BY DEF ClosedSoldAll, recordVars, Held
<1>8. ClosedOrWarned'
  BY DEF ClosedOrWarned, exchangeVars, recordVars, Live
<1> QED  BY <1>1, <1>2, <1>3, <1>4, <1>5, <1>6, <1>7, <1>8

LEMMA StopPartialInv == ASSUME Inv, StopPartial PROVE Inv'
<1> USE DEF Inv, StopPartial, InPass
<1>0. ExchangeTypes /\ RecordTypes /\ HandlerTypes  BY TypeParts
<1>1. TypeOK'
  <2>1. ExchangeTypes'  BY <1>0 DEF ExchangeTypes, exchangeVars, KeepRecord
  <2>2. RecordTypes'
    BY <1>0 DEF RecordTypes, recordVars, KeepRecord, Close, Reasons
  <2>3. HandlerTypes'  BY <1>0, EndPassTypes DEF RecordTypes
  <2> QED  BY <2>1, <2>2, <2>3, TypeParts
<1>2. OrdersSane' /\ TargetsInOrder'
  BY DEF OrdersSane, TargetsInOrder, exchangeVars, recordVars, Live, Whole
<1>3. HandlerSane'
  BY DEF HandlerSane, exchangeVars, recordVars, EndPass
<1>4. TrailSane'
  BY DEF TrailSane, exchangeVars, recordVars
<1>5. UnitsSold'
  BY DEF UnitsSold, exchangeVars, recordVars, TargetSum, Taken, TakenUpTo, Whole
<1>6. UnitsBooked'
  BY DEF UnitsBooked, exchangeVars, recordVars, Taken, TakenUpTo, AllPlaced
<1>7. ClosedSoldAll'
  BY DEF ClosedSoldAll, recordVars, Held
<1>8. ClosedOrWarned'
  BY DEF ClosedOrWarned, exchangeVars, recordVars, Live
<1> QED  BY <1>1, <1>2, <1>3, <1>4, <1>5, <1>6, <1>7, <1>8

LEMMA StopOpenInv == ASSUME Inv, StopOpen PROVE Inv'
<1> USE DEF Inv, StopOpen, InPass, Unreadable
<1>0. ExchangeTypes /\ RecordTypes /\ HandlerTypes  BY TypeParts
<1>1. TypeOK'
  <2>1. ExchangeTypes'  BY <1>0 DEF ExchangeTypes, exchangeVars, KeepRecord
  <2>2. RecordTypes'
    BY <1>0 DEF RecordTypes, recordVars, KeepRecord, Close, Reasons
  <2>3. HandlerTypes'
    <3>1. pc' = "targets" /\ next' \in Targets /\ sl' \in Stops /\ UNCHANGED queue
      BY StopId, OrderIds
    <3> HIDE DEF StopOpen
    <3> QED  BY <1>0, <3>1 DEF HandlerTypes
  <2> QED  BY <2>1, <2>2, <2>3, TypeParts
<1>2. OrdersSane' /\ TargetsInOrder'
  BY DEF OrdersSane, TargetsInOrder, exchangeVars, recordVars, Live, Whole
<1>3. HandlerSane'
  BY DEF HandlerSane, exchangeVars, recordVars
<1>4. TrailSane'
  BY DEF TrailSane, exchangeVars, recordVars
<1>5. UnitsSold'
  BY DEF UnitsSold, exchangeVars, recordVars, TargetSum, Taken, TakenUpTo, Whole
<1>6. UnitsBooked'
  BY DEF UnitsBooked, exchangeVars, recordVars, Taken, TakenUpTo, AllPlaced
<1>7. ClosedSoldAll'
  BY DEF ClosedSoldAll, recordVars, Held
<1>8. ClosedOrWarned'
  BY DEF ClosedOrWarned, exchangeVars, recordVars, Live
<1> QED  BY <1>1, <1>2, <1>3, <1>4, <1>5, <1>6, <1>7, <1>8

LEMMA StopReplacedInv == ASSUME Inv, StopReplaced PROVE Inv'
<1> USE DEF Inv, StopReplaced, InPass, ReplaceAt, LastStop
<1>0. ExchangeTypes /\ RecordTypes /\ HandlerTypes  BY TypeParts
<1>d. UNCHANGED <<mode, faults, filled, sold, active, how, targetIds, trail,
                currentSl, remaining, booked, queue, warned>>
  BY DEF exchangeVars, recordVars, handlerVars, KeepRecord
<1>e. /\ slId' = slId + 1 /\ sl' = slId /\ pc' = "targets" /\ next' = 1
      /\ st' = [st EXCEPT ![slId'] = "open"]
      /\ qty' = [qty EXCEPT ![slId'] = remaining]
      /\ level' = [level EXCEPT ![slId'] = currentSl]
      /\ active /\ pc \in {"idle", "sl"}
  BY DEF InPass, ReplaceAt
<1>f. /\ slId' \in Stops /\ slId' \in Orders /\ slId \in Stops /\ slId \in Nat
      /\ slId' \notin Targets /\ slId' > slId
      /\ \A o \in Stops : o > slId => o >= slId'
      /\ \A o \in Stops : o < slId' => o <= slId
  BY <1>e, StopId, OrderIds DEF Stops, LastStop
<1>g. st[slId] = "cancelled" /\ st[slId'] = "none" /\ filled[slId'] = 0
  BY <1>f DEF OrdersSane
<1> HIDE DEF StopReplaced
<1>h. /\ \A o \in Orders : st'[o] = IF o = slId' THEN "open" ELSE st[o]
      /\ \A o \in Orders : qty'[o] = IF o = slId' THEN remaining ELSE qty[o]
  BY <1>0, <1>e DEF ExchangeTypes
<1>1. TypeOK'
  <2>1. ExchangeTypes'
    <3>1. remaining \in 0..Qty /\ currentSl \in 0..2  BY <1>0 DEF RecordTypes
    <3> QED  BY <1>0, <1>d, <1>e, <1>f, <1>g, <3>1 DEF ExchangeTypes, LiveStatus
  <2>2. RecordTypes'
    BY <1>0, <1>d, <1>f DEF RecordTypes
  <2>3. HandlerTypes'
    BY <1>0, <1>d, <1>e, <1>f, OrderIds DEF HandlerTypes
  <2> QED  BY <2>1, <2>2, <2>3, TypeParts
<1>2. OrdersSane' /\ TargetsInOrder'
  <2>1. \A l \in Targets : st'[l] = st[l] /\ qty'[l] = qty[l]
    BY <1>f, <1>h, OrderIds
  <2>2. targetIds \subseteq Targets  BY <1>0 DEF RecordTypes
  <2>3. \A o \in Stops : o > slId' => st'[o] = "none" /\ filled[o] = 0
    BY <1>f, <1>h, OrderIds DEF OrdersSane, Stops
  <2>4. \A o \in Stops : o < slId' => st'[o] \notin LiveStatus
    <3> SUFFICES ASSUME NEW o \in Stops, o < slId' PROVE st'[o] \notin LiveStatus
      OBVIOUS
    <3>1. st'[o] = st[o] /\ (o = slId \/ o < slId)
      BY <1>f, <1>h, OrderIds DEF Stops
    <3> QED  BY <3>1, <1>g DEF OrdersSane, Live, LiveStatus
  <2>5. \A o \in Orders : st'[o] = "complete" => st[o] = "complete" /\ qty'[o] = qty[o]
    BY <1>h
  <2>6. Whole => \A o \in Orders : /\ st'[o] # "partial"
                                   /\ st'[o] # "complete" => filled[o] = 0
    BY <1>g, <1>h DEF OrdersSane
  <2>7. OrdersSane'
    BY <1>d, <2>1, <2>2, <2>3, <2>4, <2>5, <2>6
       DEF OrdersSane, Live, Whole, TargetQty, LotsPerTp
  <2>8. TargetsInOrder'  BY <2>1 DEF TargetsInOrder, Live
  <2> QED  BY <2>7, <2>8
<1>3. HandlerSane'
  <2>1. targetIds \subseteq Targets /\ Planned(mode)' = Planned(mode)
    BY <1>0, <1>d DEF RecordTypes, Planned, TargetQty
  <2>2. \A l \in Targets : st'[l] = st[l]  BY <1>f, <1>h, OrderIds
  <2> QED  BY <1>d, <1>e, <2>1, <2>2 DEF HandlerSane
<1>4. TrailSane'
  <2>1. level'[slId'] = currentSl  BY <1>0, <1>e, <1>f DEF ExchangeTypes
  <2>2. currentSl \in 0..2  BY <1>0 DEF RecordTypes
  <2> QED  BY <1>d, <2>1, <2>2 DEF TrailSane
<1>5. UnitsSold'
  <2>1. TargetSum' = TargetSum /\ Taken' = Taken
    BY <1>d DEF TargetSum, Taken, TakenUpTo
  <2>2. filled'[slId'] = 0 /\ qty'[slId'] = remaining  BY <1>d, <1>f, <1>g, <1>h
  <2> QED  BY <1>d, <2>1, <2>2, Numbers DEF UnitsSold, Whole
<1>6. UnitsBooked'
  <2>1. Taken' = Taken  BY <1>d DEF Taken, TakenUpTo
  <2> QED  BY <1>d, <2>1 DEF UnitsBooked, AllPlaced
<1>7. ClosedSoldAll'  BY <1>d DEF ClosedSoldAll, Held
<1>8. ClosedOrWarned'
  <2>1. how = "none"  BY <1>0, <1>e DEF RecordTypes
  <2> QED  BY <1>d, <2>1 DEF ClosedOrWarned
<1> QED  BY <1>1, <1>2, <1>3, <1>4, <1>5, <1>6, <1>7, <1>8

LEMMA StopLostInv == ASSUME Inv, StopLost PROVE Inv'
<1> USE DEF Inv, StopLost, InPass, SellRemaining
<1>0. ExchangeTypes /\ RecordTypes /\ HandlerTypes  BY TypeParts
<1>d. UNCHANGED <<mode, faults, st, qty, filled, level, slId, targetIds, trail,
                currentSl, remaining, booked, warned>>
  BY DEF exchangeVars, recordVars, handlerVars, KeepRecord
<1>e. TargetSum' = TargetSum /\ Taken' = Taken
  BY <1>d DEF TargetSum, Taken, TakenUpTo
<1>f. /\ sold' \in Nat /\ sold' >= sold
      /\ "exit" \notin faults => sold' = sold + remaining
  BY SellRemainingEffect
<1>1. TypeOK'
  <2>1. ExchangeTypes'  BY <1>0 DEF ExchangeTypes, exchangeVars, KeepRecord
  <2>2. RecordTypes'
    BY <1>0, <1>d, <1>f DEF RecordTypes, Close, Reasons
  <2>3. HandlerTypes'  BY <1>0, EndPassTypes DEF RecordTypes
  <2> QED  BY <2>1, <2>2, <2>3, TypeParts
<1>2. OrdersSane' /\ TargetsInOrder'
  BY DEF OrdersSane, TargetsInOrder, exchangeVars, Live, Whole
<1>3. HandlerSane'
  BY DEF HandlerSane, EndPass, Close
<1>4. TrailSane'
  BY DEF TrailSane, exchangeVars
<1>5. UnitsSold'
  <2> HIDE DEF StopLost
  <2> QED  BY <1>d, <1>e, <1>f, Numbers DEF UnitsSold, Whole
<1>6. UnitsBooked'
  <2>1. ~active'  BY DEF Close
  <2> HIDE DEF StopLost
  <2> QED  BY <1>d, <1>f, <2>1, Numbers DEF UnitsBooked, AllPlaced
<1>7. ClosedSoldAll'
  <2> SUFFICES ASSUME faults \cap {"partial", "target", "exit"} = {} PROVE Qty - sold' <= 0
    BY <1>d DEF ClosedSoldAll, Held
  <2> HIDE DEF StopLost
  <2>1. Whole /\ "exit" \notin faults  BY DEF Whole
  <2>2. sold >= TargetSum + filled[slId] /\ remaining + Taken >= Qty
    BY <2>1 DEF UnitsSold
  <2>3. sold' = sold + remaining  BY <1>f, <2>1
  <2>4. sold + remaining >= Qty  BY <2>2, Numbers
  <2> QED  BY <2>3, <2>4, Numbers
<1>8. ClosedOrWarned'
  BY DEF ClosedOrWarned, Close
<1> QED  BY <1>1, <1>2, <1>3, <1>4, <1>5, <1>6, <1>7, <1>8

LEMMA CancelTargetsInv == ASSUME Inv, CancelTargets PROVE Inv'
<1> USE DEF Inv, CancelTargets, CancelWithRetry, Unreadable
<1>0. ExchangeTypes /\ RecordTypes /\ HandlerTypes  BY TypeParts
<1>d. UNCHANGED <<mode, faults, qty, filled, level, sold, active, how, slId,
                targetIds, trail, currentSl, remaining, booked, pc, sl, next>>
  BY DEF exchangeVars, recordVars, handlerVars, KeepRecord
<1> DEFINE o == Head(queue)
<1>e. /\ o \in Orders /\ Tail(queue) \in Seq(Orders)
      /\ \A i \in 1..Len(queue) :
            queue[i] = o \/ \E j \in 1..Len(Tail(queue)) : Tail(queue)[j] = queue[i]
  BY <1>0, QueueTaken DEF HandlerTypes
<1>f. pc = "slHit" /\ queue' = Tail(queue) /\ CancelWithRetry(o)  OBVIOUS
<1> HIDE DEF o, CancelTargets
<1>g. /\ st' \in [Orders -> LiveStatus \cup {"none", "complete", "cancelled"}]
      /\ \A p \in Orders : p # o => st'[p] = st[p]
      /\ st'[o] = st[o] \/ (Live(o) /\ st'[o] = "cancelled")
      /\ warned \subseteq warned' /\ warned' \subseteq Orders
      /\ st'[o] \in LiveStatus => o \in warned'
  BY <1>e, <1>f, CancelWithRetryEffect
<1>1. TypeOK'
  <2>1. ExchangeTypes'  BY <1>0, <1>d, <1>g DEF ExchangeTypes
  <2>2. RecordTypes'  BY <1>0, <1>d, <1>g DEF RecordTypes
  <2>3. HandlerTypes'  BY <1>0, <1>d, <1>e, <1>f DEF HandlerTypes
  <2> QED  BY <2>1, <2>2, <2>3, TypeParts
<1>2. OrdersSane' /\ TargetsInOrder'
  <2>1. \A p \in Orders : \/ st'[p] = st[p]
                          \/ st[p] \in LiveStatus /\ st'[p] = "cancelled"
    BY <1>e, <1>g DEF Live
  <2>2. targetIds \subseteq Targets  BY <1>0 DEF RecordTypes
  <2>3. OrdersSane'
    BY <1>d, <2>1, <2>2, OrderIds DEF OrdersSane, Live, LiveStatus, Whole
  <2>4. TargetsInOrder'  BY <2>1, OrderIds DEF TargetsInOrder, Live, LiveStatus
  <2> QED  BY <2>3, <2>4
<1>3. HandlerSane'
  <2>1. active /\ (pc = "slHit" => st[slId] = "complete" /\ st'[slId] = "complete")
    BY <1>f, <1>g, StopId DEF HandlerSane, Live, LiveStatus
  <2>2. Planned(mode)' = Planned(mode)  BY <1>d DEF Planned, TargetQty
  <2>3. ASSUME NEW p \in Orders, st'[p] \in LiveStatus
        PROVE  p \in warned' \/ \E i \in 1..Len(queue') : queue'[i] = p
    <3>1. CASE p = o  BY <3>1, <2>3, <1>g
    <3>2. CASE p # o
      <4>1. Live(p)  BY <3>2, <2>3, <1>g DEF Live
      <4>2. p \in warned \/ \E i \in 1..Len(queue) : queue[i] = p
        BY <4>1, <2>3, <1>f DEF HandlerSane
      <4> QED  BY <4>2, <3>2, <1>e, <1>f, <1>g
    <3> QED  BY <3>1, <3>2
  <2> QED  BY <1>d, <1>f, <2>1, <2>2, <2>3 DEF HandlerSane, Live
<1>4. TrailSane'  BY <1>d DEF TrailSane
<1>5. UnitsSold'  BY <1>d DEF UnitsSold, TargetSum, Taken, TakenUpTo, Whole
<1>6. UnitsBooked'  BY <1>d DEF UnitsBooked, Taken, TakenUpTo, AllPlaced
<1>7. ClosedSoldAll'  BY <1>d DEF ClosedSoldAll, Held
<1>8. ClosedOrWarned'
  <2>1. how = "none"  BY <1>0, <1>f DEF RecordTypes, HandlerSane
  <2> QED  BY <1>d, <2>1 DEF ClosedOrWarned
<1> QED  BY <1>1, <1>2, <1>3, <1>4, <1>5, <1>6, <1>7, <1>8

LEMMA CancelForCloseInv == ASSUME Inv, CancelForClose PROVE Inv'
<1> USE DEF Inv, CancelForClose, CancelWithRetry, Unreadable
<1>0. ExchangeTypes /\ RecordTypes /\ HandlerTypes  BY TypeParts
<1>d. UNCHANGED <<mode, faults, qty, filled, level, sold, active, how, slId,
                targetIds, trail, currentSl, remaining, booked, pc, sl, next>>
  BY DEF exchangeVars, recordVars, handlerVars, KeepRecord
<1> DEFINE o == Head(queue)
<1>e. /\ o \in Orders /\ Tail(queue) \in Seq(Orders)
      /\ \A i \in 1..Len(queue) :
            queue[i] = o \/ \E j \in 1..Len(Tail(queue)) : Tail(queue)[j] = queue[i]
  BY <1>0, QueueTaken DEF HandlerTypes
<1>f. pc = "closing" /\ queue' = Tail(queue) /\ CancelWithRetry(o)  OBVIOUS
<1> HIDE DEF o, CancelForClose
<1>g. /\ st' \in [Orders -> LiveStatus \cup {"none", "complete", "cancelled"}]
      /\ \A p \in Orders : p # o => st'[p] = st[p]
      /\ st'[o] = st[o] \/ (Live(o) /\ st'[o] = "cancelled")
      /\ warned \subseteq warned' /\ warned' \subseteq Orders
      /\ st'[o] \in LiveStatus => o \in warned'
  BY <1>e, <1>f, CancelWithRetryEffect
<1>1. TypeOK'
  <2>1. ExchangeTypes'  BY <1>0, <1>d, <1>g DEF ExchangeTypes
  <2>2. RecordTypes'  BY <1>0, <1>d, <1>g DEF RecordTypes
  <2>3. HandlerTypes'  BY <1>0, <1>d, <1>e, <1>f DEF HandlerTypes
  <2> QED  BY <2>1, <2>2, <2>3, TypeParts
<1>2. OrdersSane' /\ TargetsInOrder'
  <2>1. \A p \in Orders : \/ st'[p] = st[p]
                          \/ st[p] \in LiveStatus /\ st'[p] = "cancelled"
    BY <1>e, <1>g DEF Live
  <2>2. targetIds \subseteq Targets  BY <1>0 DEF RecordTypes
  <2>3. OrdersSane'
    BY <1>d, <2>1, <2>2, OrderIds DEF OrdersSane, Live, LiveStatus, Whole
  <2>4. TargetsInOrder'  BY <2>1, OrderIds DEF TargetsInOrder, Live, LiveStatus
  <2> QED  BY <2>3, <2>4
<1>3. HandlerSane'
  <2>1. active /\ (pc = "slHit" => st[slId] = "complete" /\ st'[slId] = "complete")
    BY <1>f, <1>g, StopId DEF HandlerSane, Live, LiveStatus
  <2>2. Planned(mode)' = Planned(mode)  BY <1>d DEF Planned, TargetQty
  <2>3. ASSUME NEW p \in Orders, st'[p] \in LiveStatus
        PROVE  p \in warned' \/ \E i \in 1..Len(queue') : queue'[i] = p
    <3>1. CASE p = o  BY <3>1, <2>3, <1>g
    <3>2. CASE p # o
      <4>1. Live(p)  BY <3>2, <2>3, <1>g DEF Live
      <4>2. p \in warned \/ \E i \in 1..Len(queue) : queue[i] = p
        BY <4>1, <2>3, <1>f DEF HandlerSane
      <4> QED  BY <4>2, <3>2, <1>e, <1>f, <1>g
    <3> QED  BY <3>1, <3>2
  <2> QED  BY <1>d, <1>f, <2>1, <2>2, <2>3 DEF HandlerSane, Live
<1>4. TrailSane'  BY <1>d DEF TrailSane
<1>5. UnitsSold'  BY <1>d DEF UnitsSold, TargetSum, Taken, TakenUpTo, Whole
<1>6. UnitsBooked'  BY <1>d DEF UnitsBooked, Taken, TakenUpTo, AllPlaced
<1>7. ClosedSoldAll'  BY <1>d DEF ClosedSoldAll, Held
<1>8. ClosedOrWarned'
  <2>1. how = "none"  BY <1>0, <1>f DEF RecordTypes, HandlerSane
  <2> QED  BY <1>d, <2>1 DEF ClosedOrWarned
<1> QED  BY <1>1, <1>2, <1>3, <1>4, <1>5, <1>6, <1>7, <1>8

LEMMA CloseStoppedInv == ASSUME Inv, CloseStopped PROVE Inv'
<1> USE DEF Inv, CloseStopped
<1>0. ExchangeTypes /\ RecordTypes /\ HandlerTypes  BY TypeParts
<1>d. UNCHANGED <<mode, faults, st, qty, filled, level, sold, slId, targetIds,
                trail, currentSl, remaining, warned>>
  BY DEF exchangeVars, recordVars, handlerVars, KeepRecord
<1>e. TargetSum' = TargetSum /\ Taken' = Taken
  BY <1>d DEF TargetSum, Taken, TakenUpTo
<1>f. booked' \in 0..MaxBooked /\ booked' <= booked + filled[slId]
  BY <1>0, BookBound, Numbers DEF RecordTypes
<1>g. active' = FALSE /\ how' = "stop" /\ filled[slId] = qty[slId]
  BY StopId DEF Close, HandlerSane, OrdersSane
<1>1. TypeOK'
  <2>1. ExchangeTypes'  BY <1>0 DEF ExchangeTypes, exchangeVars, KeepRecord
  <2>2. RecordTypes'
    BY <1>0, <1>d, <1>f, <1>g DEF RecordTypes, Reasons
  <2>3. HandlerTypes'  BY <1>0, EndPassTypes DEF RecordTypes
  <2> QED  BY <2>1, <2>2, <2>3, TypeParts
<1>2. OrdersSane' /\ TargetsInOrder'
  BY DEF OrdersSane, TargetsInOrder, exchangeVars, Live, Whole
<1>3. HandlerSane'
  BY DEF HandlerSane, EndPass, Close
<1>4. TrailSane'
  BY DEF TrailSane, exchangeVars
<1>5. UnitsSold'
  BY DEF UnitsSold, exchangeVars, TargetSum, Taken, TakenUpTo, Whole
<1>6. UnitsBooked'
  <2>1. active  BY DEF HandlerSane
  <2> HIDE DEF CloseStopped
  <2> QED  BY <1>d, <1>f, <1>g, <2>1, Numbers DEF UnitsBooked, UnitsSold, AllPlaced
<1>7. ClosedSoldAll'
  <2> SUFFICES ASSUME faults \cap {"partial", "target", "exit"} = {} PROVE Qty - sold <= 0
    BY <1>d DEF ClosedSoldAll, Held
  <2> HIDE DEF CloseStopped
  <2> QED  BY <1>g, Numbers DEF UnitsSold, Whole
<1>8. ClosedOrWarned'
  BY DEF ClosedOrWarned, HandlerSane, exchangeVars, Live
<1> QED  BY <1>1, <1>2, <1>3, <1>4, <1>5, <1>6, <1>7, <1>8

LEMMA TargetSkippedInv == ASSUME Inv, TargetSkipped PROVE Inv'
<1> USE DEF Inv, TargetSkipped
<1>0. ExchangeTypes /\ RecordTypes /\ HandlerTypes  BY TypeParts
<1>1. TypeOK'
  <2>1. ExchangeTypes'  BY <1>0 DEF ExchangeTypes, exchangeVars, KeepRecord
  <2>2. RecordTypes'
    BY <1>0 DEF RecordTypes, recordVars, KeepRecord, Close, Reasons
  <2>3. HandlerTypes'  BY NextTargetTypes
  <2> QED  BY <2>1, <2>2, <2>3, TypeParts
<1>2. OrdersSane' /\ TargetsInOrder'
  BY DEF OrdersSane, TargetsInOrder, exchangeVars, recordVars, Live, Whole
<1>3. HandlerSane'
  BY DEF HandlerSane, exchangeVars, recordVars, EndPass, NextTarget
<1>4. TrailSane'
  BY DEF TrailSane, exchangeVars, recordVars
<1>5. UnitsSold'
  BY DEF UnitsSold, exchangeVars, recordVars, TargetSum, Taken, TakenUpTo, Whole
<1>6. UnitsBooked'
  BY DEF UnitsBooked, exchangeVars, recordVars, Taken, TakenUpTo, AllPlaced
<1>7. ClosedSoldAll'
  BY DEF ClosedSoldAll, recordVars, Held
<1>8. ClosedOrWarned'
  BY DEF ClosedOrWarned, exchangeVars, recordVars, Live
<1> QED  BY <1>1, <1>2, <1>3, <1>4, <1>5, <1>6, <1>7, <1>8

LEMMA TargetPartialInv == ASSUME Inv, NEW l \in Targets, TargetPartial(l) PROVE Inv'
<1> USE DEF Inv, TargetPartial, Polled, Left
<1>0. ExchangeTypes /\ RecordTypes /\ HandlerTypes  BY TypeParts
<1>d. UNCHANGED <<mode, faults, st, qty, filled, level, sold, active, how, slId,
                targetIds, trail, currentSl, warned>>
  BY DEF exchangeVars, recordVars, handlerVars, KeepRecord
<1>e. l \in Orders /\ filled[l] \in Nat /\ filled[l] \in 0..Qty /\ ~Whole
  BY <1>0, OrderIds DEF ExchangeTypes, OrdersSane
<1>f. booked' \in 0..MaxBooked  BY <1>0, <1>e, BookBound DEF RecordTypes
<1>g. remaining' \in 0..Qty  BY <1>0, <1>e DEF RecordTypes
<1>1. TypeOK'
  <2>1. ExchangeTypes'  BY <1>0 DEF ExchangeTypes, exchangeVars, KeepRecord
  <2>2. RecordTypes'  BY <1>0, <1>d, <1>f, <1>g DEF RecordTypes
  <2>3. HandlerTypes'  BY NextTargetTypes
  <2> QED  BY <2>1, <2>2, <2>3, TypeParts
<1>2. OrdersSane' /\ TargetsInOrder'
  BY DEF OrdersSane, TargetsInOrder, exchangeVars, KeepRecord, Live, Whole
<1>3. HandlerSane'
  BY DEF HandlerSane, exchangeVars, KeepRecord, EndPass, NextTarget
<1>4. TrailSane'
  BY DEF TrailSane, exchangeVars, KeepRecord
<1>5. UnitsSold'
  <2> HIDE DEF TargetPartial
  <2> QED  BY <1>d, <1>e DEF UnitsSold, Whole, TargetSum
<1>6. UnitsBooked'
  <2> HIDE DEF TargetPartial
  <2> QED  BY <1>d, <1>e DEF UnitsBooked, Whole, AllPlaced
<1>7. ClosedSoldAll'
  BY DEF ClosedSoldAll, KeepRecord, Held
<1>8. ClosedOrWarned'
  BY DEF ClosedOrWarned, exchangeVars, KeepRecord, Live
<1> QED  BY <1>1, <1>2, <1>3, <1>4, <1>5, <1>6, <1>7, <1>8

LEMMA TargetHitInv == ASSUME Inv, NEW l \in Targets, TargetHit(l) PROVE Inv'
<1> USE DEF Inv, TargetHit, Polled, Left, Final, Trailed, ModifyStop
<1>0. ExchangeTypes /\ RecordTypes /\ HandlerTypes  BY TypeParts
<1>d. UNCHANGED <<mode, faults, st, filled, sold, active, how, slId, targetIds,
                warned>>
  BY DEF exchangeVars, recordVars, handlerVars, KeepRecord
<1>e. /\ mode = "multi_lot" /\ l > trail /\ l \in 1..2 /\ pc = "targets"
      /\ trail \in 0..2 /\ trail' = l /\ currentSl' = l /\ active
      /\ filled[l] \in 0..Qty
  BY <1>0, OrderIds DEF ExchangeTypes, RecordTypes, HandlerSane
<1>f. remaining' = Left(filled[l]) /\ Book(filled[l]) /\ NextTarget
      /\ ModifyStop(slId, l, remaining')
  OBVIOUS
<1>g. /\ remaining' \in 0..Qty /\ remaining' <= remaining
      /\ remaining' + filled[l] >= remaining
      /\ remaining' = 0 \/ remaining' + filled[l] = remaining
  BY <1>0, <1>e, <1>f DEF RecordTypes
<1> HIDE DEF TargetHit, Polled, Left, Final, Trailed, ModifyStop
<1>i. /\ level' \in [Stops -> 0..2] /\ qty' \in [Orders -> 0..Qty]
      /\ \A o \in Orders : filled[o] <= qty'[o]
      /\ \A o \in Orders : o # slId \/ ~Live(o) => qty'[o] = qty[o]
      /\ qty'[slId] = qty[slId] \/ qty'[slId] = remaining'
      /\ level'[slId] = level[slId] \/ level'[slId] = l
  BY <1>e, <1>f, <1>g, ModifyStopEffect
<1>j. /\ TargetSum' = TargetSum /\ Taken' \in Nat
      /\ Taken' >= Taken + filled[l] /\ Taken' <= TargetSum
  BY <1>d, <1>e, Numbers DEF TargetSum, Taken, TakenUpTo
<1>k. booked' \in 0..MaxBooked /\ booked' <= booked + filled[l]
  BY <1>0, <1>e, <1>f, BookBound DEF RecordTypes
<1>1. TypeOK'
  <2>1. ExchangeTypes'
    BY <1>0, <1>d, <1>i DEF ExchangeTypes
  <2>2. RecordTypes'
    BY <1>0, <1>d, <1>e, <1>g, <1>k DEF RecordTypes
  <2>3. HandlerTypes'  BY <1>f, NextTargetTypes
  <2> QED  BY <2>1, <2>2, <2>3, TypeParts
<1>2. OrdersSane' /\ TargetsInOrder'
  <2>1. \A k \in Targets : qty'[k] = qty[k]  BY <1>i, StopId, OrderIds
  <2>2. \A o \in Orders : st[o] = "complete" => qty'[o] = qty[o]
    BY <1>i DEF Live, LiveStatus
  <2>3. targetIds \subseteq Targets  BY <1>0 DEF RecordTypes
  <2>4. OrdersSane'
    BY <1>d, <2>1, <2>2, <2>3 DEF OrdersSane, Live, Whole, TargetQty, LotsPerTp
  <2>5. TargetsInOrder'  BY <1>d DEF TargetsInOrder, Live
  <2> QED  BY <2>4, <2>5
<1>3. HandlerSane'
  <2>1. targetIds \subseteq Targets /\ Planned(mode)' = Planned(mode)
    BY <1>0, <1>d DEF RecordTypes, Planned, TargetQty
  <2>2. pc' = "idle" \/ pc' = "targets"  BY <1>e, <1>f, NextTargetTypes
  <2> QED  BY <1>d, <1>e, <2>1, <2>2 DEF HandlerSane
<1>4. TrailSane'
  <2>1. level[slId] \in 0..2 /\ currentSl \in 0..2
    BY <1>0, StopId DEF ExchangeTypes, RecordTypes
  <2> QED  BY <1>d, <1>e, <1>i, <2>1 DEF TrailSane
<1>5. UnitsSold'
  <2>1. ASSUME Whole
        PROVE  qty'[slId] >= remaining' /\ remaining' + Taken' >= Qty
    <3>1. qty[slId] >= remaining /\ remaining + Taken >= Qty  BY <2>1 DEF UnitsSold
    <3>2. qty'[slId] >= remaining'  BY <1>g, <1>i, <3>1, Numbers
    <3>3. remaining' + Taken' >= Qty
      <4> DEFINE n == filled[l]
                 rn == remaining'
                 tn == Taken'
      <4>1. /\ n \in Nat /\ rn \in Nat /\ tn \in Nat
            /\ rn + n >= remaining /\ tn >= Taken + n
        BY <1>e, <1>g, <1>j
      <4>2. Taken \in Nat /\ remaining \in Nat  BY Numbers
      <4> HIDE DEF n, rn, tn, Inv
      <4>3. rn + tn >= Qty  BY <3>1, <4>1, <4>2, TakenOff
      <4> QED  BY <4>3 DEF rn, tn
    <3> QED  BY <3>2, <3>3
  <2> QED  BY <1>d, <1>e, <1>j, <2>1 DEF UnitsSold, Whole
<1>6. UnitsBooked'
  <2> SUFFICES ASSUME AllPlaced
      PROVE  booked' <= sold /\ booked' <= Taken' /\ booked' + remaining' <= Qty
    BY <1>d DEF UnitsBooked, AllPlaced
  <2>1. TargetSum <= Qty /\ sold >= TargetSum + filled[slId]
    BY TargetsWithinQty DEF UnitsSold
  <2>2. booked <= Taken /\ booked + remaining <= Qty  BY <1>e DEF UnitsBooked
  <2>3. filled[l] \in Nat /\ remaining' \in Nat /\ booked' \in Nat
    BY <1>e, <1>g, <1>k
  <2>4. booked' <= Taken'  BY <1>j, <1>k, <2>2, <2>3, Numbers
  <2>5. booked' <= sold  BY <1>j, <2>1, <2>3, <2>4, Numbers
  <2>6. booked' <= Qty  BY <1>j, <2>1, <2>3, <2>4, Numbers
  <2>7. booked' + remaining' <= Qty
    <3> DEFINE n == filled[l]
               bn == booked'
               rn == remaining'
    <3>1. /\ n \in Nat /\ rn \in Nat /\ bn \in Nat /\ bn <= Qty
          /\ bn <= booked + n /\ (rn = 0 \/ rn + n = remaining)
      BY <1>e, <1>g, <1>k, <2>3, <2>6
    <3>2. booked \in Nat /\ remaining \in Nat  BY Numbers
    <3> HIDE DEF n, bn, rn, Inv
    <3>3. bn + rn <= Qty  BY <2>2, <3>1, <3>2, BookedAndLeft
    <3> QED  BY <3>3 DEF bn, rn
  <2> QED  BY <2>4, <2>5, <2>7
<1>7. ClosedSoldAll'
  <2>1. how = "none"  BY <1>0, <1>e DEF RecordTypes
  <2> QED  BY <1>d, <2>1 DEF ClosedSoldAll
<1>8. ClosedOrWarned'
  <2>1. how = "none"  BY <1>0, <1>e DEF RecordTypes
  <2> QED  BY <1>d, <2>1 DEF ClosedOrWarned
<1> QED  BY <1>1, <1>2, <1>3, <1>4, <1>5, <1>6, <1>7, <1>8

LEMMA TargetFinalInv == ASSUME Inv, NEW l \in Targets, TargetFinal(l) PROVE Inv'
<1> USE DEF Inv, TargetFinal, Polled, Final, CancelOnce
<1>0. ExchangeTypes /\ RecordTypes /\ HandlerTypes  BY TypeParts
<1>d. UNCHANGED <<mode, faults, qty, filled, level, sold, slId, targetIds,
                trail, currentSl, remaining, warned>>
  BY DEF exchangeVars, recordVars, handlerVars, KeepRecord
<1>e. TargetSum' = TargetSum /\ Taken' = Taken
  BY <1>d DEF TargetSum, Taken, TakenUpTo
<1>f. booked' \in 0..MaxBooked /\ booked' <= booked + remaining
  BY <1>0, BookBound DEF RecordTypes
<1>g. active' = FALSE /\ how' = "target" /\ active
  BY DEF Close, HandlerSane
<1>i. "target" \notin faults => sold >= Qty
  BY FinalTargetSoldAll, Numbers DEF UnitsSold
<1>j. \A p \in Orders : \/ st'[p] = st[p]
                        \/ st[p] \in LiveStatus /\ st'[p] = "cancelled" /\ p \notin Targets
  BY <1>0, OrderIds DEF ExchangeTypes, HandlerTypes, Live
<1>1. TypeOK'
  <2>1. ExchangeTypes'  BY <1>0 DEF ExchangeTypes, exchangeVars, KeepRecord
  <2>2. RecordTypes'
    BY <1>0, <1>d, <1>f, <1>g DEF RecordTypes, Reasons
  <2>3. HandlerTypes'  BY <1>0, EndPassTypes DEF RecordTypes
  <2> QED  BY <2>1, <2>2, <2>3, TypeParts
<1>2. OrdersSane' /\ TargetsInOrder'
  <2> HIDE DEF TargetFinal
  <2>1. targetIds \subseteq Targets  BY <1>0 DEF RecordTypes
  <2>2. OrdersSane'
    BY <1>d, <1>j, <2>1, OrderIds DEF OrdersSane, Live, LiveStatus, Whole
  <2>3. TargetsInOrder'  BY <1>j, OrderIds DEF TargetsInOrder, Live, LiveStatus
  <2> QED  BY <2>2, <2>3
<1>3. HandlerSane'
  BY DEF HandlerSane, EndPass, Close
<1>4. TrailSane'
  BY DEF TrailSane
<1>5. UnitsSold'
  BY DEF UnitsSold, TargetSum, Taken, TakenUpTo, Whole
<1>6. UnitsBooked'
  <2> HIDE DEF TargetFinal
  <2> QED  BY <1>d, <1>f, <1>g, <1>i, Numbers DEF UnitsBooked, AllPlaced
<1>7. ClosedSoldAll'
  <2> HIDE DEF TargetFinal
  <2> QED  BY <1>d, <1>i, Numbers DEF ClosedSoldAll, Held
<1>8. ClosedOrWarned'
  BY DEF ClosedOrWarned, Close
<1> QED  BY <1>1, <1>2, <1>3, <1>4, <1>5, <1>6, <1>7, <1>8

LEMMA BeginCloseInv == ASSUME Inv, BeginClose PROVE Inv'
<1> USE DEF Inv, BeginClose, AllOrders
<1>0. ExchangeTypes /\ RecordTypes /\ HandlerTypes  BY TypeParts
<1>1. TypeOK'
  <2>1. ExchangeTypes'  BY <1>0 DEF ExchangeTypes, exchangeVars, KeepRecord
  <2>2. RecordTypes'
    BY <1>0 DEF RecordTypes, recordVars, KeepRecord, Close, Reasons
  <2>3. HandlerTypes'
    <3>1. AllOrders \in Seq(Orders)  BY AllOrdersProperties
    <3>2. queue' \in Seq(Orders) /\ pc' = "closing" /\ UNCHANGED <<sl, next>>
      BY <3>1
    <3> HIDE DEF BeginClose
    <3> QED  BY <1>0, <3>2 DEF HandlerTypes
  <2> QED  BY <2>1, <2>2, <2>3, TypeParts
<1>2. OrdersSane' /\ TargetsInOrder'
  BY DEF OrdersSane, TargetsInOrder, exchangeVars, recordVars, Live, Whole
<1>3. HandlerSane'
  <2>1. /\ pc' = "closing" /\ queue' = AllOrders /\ active
        /\ UNCHANGED <<mode, faults, st, active, slId, targetIds, warned>>
    BY DEF exchangeVars, recordVars
  <2>2. \A o \in targetIds \cup {slId} : \E i \in 1..Len(AllOrders) : AllOrders[i] = o
    BY AllOrdersProperties
  <2> HIDE DEF BeginClose, AllOrders
  <2>3. ASSUME NEW o \in Orders, Live(o) PROVE o \in targetIds \cup {slId}
    BY <2>3, StopId, OrderIds DEF OrdersSane, Live, LiveStatus, Orders, Stops
  <2>4. Planned(mode)' = Planned(mode)  BY <2>1 DEF Planned, TargetQty
  <2> QED  BY <2>1, <2>2, <2>3, <2>4 DEF HandlerSane, Live
<1>4. TrailSane'
  BY DEF TrailSane, exchangeVars, recordVars
<1>5. UnitsSold'
  BY DEF UnitsSold, exchangeVars, recordVars, TargetSum, Taken, TakenUpTo, Whole
<1>6. UnitsBooked'
  BY DEF UnitsBooked, exchangeVars, recordVars, Taken, TakenUpTo, AllPlaced
<1>7. ClosedSoldAll'
  BY DEF ClosedSoldAll, recordVars, Held
<1>8. ClosedOrWarned'
  BY DEF ClosedOrWarned, exchangeVars, recordVars, Live
<1> QED  BY <1>1, <1>2, <1>3, <1>4, <1>5, <1>6, <1>7, <1>8

LEMMA SellAndCloseInv == ASSUME Inv, SellAndClose PROVE Inv'
<1> USE DEF Inv, SellAndClose, SellRemaining
<1>0. ExchangeTypes /\ RecordTypes /\ HandlerTypes  BY TypeParts
<1>d. UNCHANGED <<mode, faults, st, qty, filled, level, slId, targetIds, trail,
                currentSl, remaining, warned>>
  BY DEF exchangeVars, recordVars, handlerVars, KeepRecord
<1>e. TargetSum' = TargetSum /\ Taken' = Taken
  BY <1>d DEF TargetSum, Taken, TakenUpTo
<1>f. /\ sold' \in Nat /\ sold' >= sold
      /\ "exit" \notin faults => sold' = sold + remaining
  BY SellRemainingEffect
<1>1. TypeOK'
  <2>1. ExchangeTypes'  BY <1>0 DEF ExchangeTypes, exchangeVars, KeepRecord
  <2>2. RecordTypes'
    <3>1. booked' \in 0..MaxBooked  BY <1>0, BookBound DEF RecordTypes
    <3> QED  BY <1>0, <1>d, <1>f, <3>1 DEF RecordTypes, Close, Reasons
  <2>3. HandlerTypes'  BY <1>0, EndPassTypes DEF RecordTypes
  <2> QED  BY <2>1, <2>2, <2>3, TypeParts
<1>2. OrdersSane' /\ TargetsInOrder'
  BY DEF OrdersSane, TargetsInOrder, exchangeVars, Live, Whole
<1>3. HandlerSane'
  BY DEF HandlerSane, EndPass, Close
<1>4. TrailSane'
  BY DEF TrailSane, exchangeVars
<1>5. UnitsSold'
  <2> HIDE DEF SellAndClose
  <2> QED  BY <1>d, <1>e, <1>f, Numbers DEF UnitsSold, Whole
<1>6. UnitsBooked'
  <2>1. booked' \in 0..MaxBooked /\ booked' <= booked + remaining /\ ~active'
    BY <1>0, BookBound DEF RecordTypes, Close
  <2> HIDE DEF SellAndClose
  <2> QED  BY <1>d, <1>f, <2>1, Numbers DEF UnitsBooked, AllPlaced
<1>7. ClosedSoldAll'
  <2> SUFFICES ASSUME faults \cap {"partial", "target", "exit"} = {} PROVE Qty - sold' <= 0
    BY <1>d DEF ClosedSoldAll, Held
  <2> HIDE DEF SellAndClose
  <2>1. Whole /\ "exit" \notin faults  BY DEF Whole
  <2>2. sold >= TargetSum + filled[slId] /\ remaining + Taken >= Qty
    BY <2>1 DEF UnitsSold
  <2>3. sold' = sold + remaining  BY <1>f, <2>1
  <2>4. sold + remaining >= Qty  BY <2>2, Numbers
  <2> QED  BY <2>3, <2>4, Numbers
<1>8. ClosedOrWarned'
  BY DEF ClosedOrWarned, HandlerSane, exchangeVars, Live
<1> QED  BY <1>1, <1>2, <1>3, <1>4, <1>5, <1>6, <1>7, <1>8

LEMMA EmergencyFlattenInv == ASSUME Inv, EmergencyFlatten PROVE Inv'
<1> USE DEF Inv, EmergencyFlatten
<1>0. ExchangeTypes /\ RecordTypes /\ HandlerTypes  BY TypeParts
<1>1. TypeOK'
  <2>1. ExchangeTypes'  BY <1>0 DEF ExchangeTypes, exchangeVars, KeepRecord
  <2>2. RecordTypes'
    BY <1>0 DEF RecordTypes, recordVars, KeepRecord, Close, Reasons
  <2>3. HandlerTypes'  BY <1>0 DEF HandlerTypes, handlerVars
  <2> QED  BY <2>1, <2>2, <2>3, TypeParts
<1>2. OrdersSane' /\ TargetsInOrder'
  BY DEF OrdersSane, TargetsInOrder, exchangeVars, Live, Whole
<1>3. HandlerSane'
  BY DEF HandlerSane, handlerVars, Close
<1>4. TrailSane'
  BY DEF TrailSane, exchangeVars
<1>5. UnitsSold'
  BY DEF UnitsSold, exchangeVars, TargetSum, Taken, TakenUpTo, Whole
<1>6. UnitsBooked'
  BY DEF UnitsBooked, AllPlaced, Close
<1>7. ClosedSoldAll'
  BY DEF ClosedSoldAll, Close
<1>8. ClosedOrWarned'
  BY DEF ClosedOrWarned, Close
<1> QED  BY <1>1, <1>2, <1>3, <1>4, <1>5, <1>6, <1>7, <1>8

LEMMA KillSwitchInv == ASSUME Inv, KillSwitch PROVE Inv'
<1> USE DEF Inv, KillSwitch, SellRemaining
<1>0. ExchangeTypes /\ RecordTypes /\ HandlerTypes  BY TypeParts
<1>d. UNCHANGED <<mode, faults, st, qty, filled, level, active, how, slId,
                targetIds, trail, currentSl, remaining, booked, sl, next,
                queue, warned>>
  BY DEF exchangeVars, recordVars, handlerVars, KeepRecord
<1>e. TargetSum' = TargetSum /\ Taken' = Taken
  BY <1>d DEF TargetSum, Taken, TakenUpTo
<1>f. sold' \in Nat /\ sold' >= sold  BY <1>d, SellRemainingEffect, Numbers
<1>1. TypeOK'
  <2>1. ExchangeTypes'  BY <1>0 DEF ExchangeTypes, exchangeVars, KeepRecord
  <2>2. RecordTypes'
    BY <1>0, <1>d, <1>f DEF RecordTypes
  <2>3. HandlerTypes'  BY <1>0 DEF HandlerTypes, handlerVars
  <2> QED  BY <2>1, <2>2, <2>3, TypeParts
<1>2. OrdersSane' /\ TargetsInOrder'
  BY DEF OrdersSane, TargetsInOrder, exchangeVars, recordVars, Live, Whole
<1>3. HandlerSane'
  BY DEF HandlerSane, recordVars
<1>4. TrailSane'
  BY DEF TrailSane, exchangeVars, recordVars
<1>5. UnitsSold'
  <2> HIDE DEF KillSwitch
  <2> QED  BY <1>d, <1>e, <1>f, Numbers DEF UnitsSold, Whole
<1>6. UnitsBooked'
  <2> HIDE DEF KillSwitch
  <2> QED  BY <1>d, <1>e, <1>f, Numbers DEF UnitsBooked, AllPlaced
<1>7. ClosedSoldAll'
  BY DEF ClosedSoldAll, TypeOK, recordVars
<1>8. ClosedOrWarned'
  BY DEF ClosedOrWarned, exchangeVars, recordVars, Live
<1> QED  BY <1>1, <1>2, <1>3, <1>4, <1>5, <1>6, <1>7, <1>8

-----------------------------------------------------------------------------
(* The invariant, and what it says of the trade.                           *)

LEMMA InitInv == ASSUME Init PROVE Inv
<1> USE DEF Init
<1>1. /\ mode \in {"multi_lot", "single_lot"} /\ slId = 4 /\ 4 \in Stops /\ 4 \in Orders
      /\ targetIds \subseteq Planned(mode) /\ targetIds \subseteq Targets
      /\ 4 \notin Targets /\ targetIds \subseteq Orders
  BY OrderIds DEF Planned
<1>2. \A l \in Targets : TargetQty(mode, l) \in 0..Qty  BY <1>1, TargetQtySum
<1>3. /\ \A o \in Orders : st[o] = IF o \in targetIds \cup {4} THEN "open" ELSE "none"
      /\ \A o \in Orders : qty[o] = IF o \in targetIds THEN TargetQty(mode, o)
                                    ELSE IF o = 4 THEN Qty ELSE 0
      /\ \A o \in Orders : filled[o] = 0
      /\ level[4] = 0
  BY <1>1
<1>4. TypeOK
  <2>1. ExchangeTypes  BY <1>1, <1>2 DEF ExchangeTypes, LiveStatus
  <2>2. RecordTypes  BY <1>1 DEF RecordTypes, Reasons
  <2>3. HandlerTypes  BY <1>1, EmptySeq, OrderIds DEF HandlerTypes
  <2> QED  BY <2>1, <2>2, <2>3, TypeParts
<1>5. filled[1] = 0 /\ filled[2] = 0 /\ filled[3] = 0 /\ filled[4] = 0
  BY <1>3, OrderIds
<1> HIDE DEF Init
<1>6. /\ mode \in Modes /\ trail = 0 /\ currentSl = 0 /\ remaining = Qty /\ booked = 0
      /\ sold = 0 /\ pc = "idle" /\ active = TRUE /\ how = "none"
      /\ "target" \in faults \/ targetIds = Planned(mode)
  BY DEF Init
<1>7. OrdersSane
  <2>1. \A l \in targetIds : TargetQty(mode, l) > 0  BY <1>1 DEF Planned
  <2>2. \A l \in Targets : qty[l] <= TargetQty(mode, l)
    BY <1>1, <1>2, <1>3, OrderIds
  <2>3. \A o \in Stops : ~(o < 4)  BY DEF Stops
  <2>4. \A o \in Stops : o > 4 => st[o] = "none" /\ filled[o] = 0
    BY <1>1, <1>3, OrderIds DEF Targets
  <2>5. /\ \A l \in Targets : l \notin targetIds => st[l] = "none"
        /\ \A l \in targetIds : qty[l] = TargetQty(mode, l) /\ st[l] # "none"
    BY <1>1, <1>3, OrderIds
  <2>6. \A o \in Orders : st[o] # "complete" /\ st[o] # "partial" /\ filled[o] = 0
    BY <1>3
  <2> QED  BY <1>1, <2>1, <2>2, <2>3, <2>4, <2>5, <2>6 DEF OrdersSane
<1>8. TargetsInOrder  BY <1>3, OrderIds DEF TargetsInOrder
<1>9. HandlerSane
  <2>1. \A l \in targetIds : st[l] # "cancelled"  BY <1>1, <1>3
  <2> QED  BY <1>6, <2>1 DEF HandlerSane
<1>10. TrailSane  BY <1>1, <1>3, <1>6 DEF TrailSane
<1>11. TargetSum = 0 /\ Taken = 0
  BY <1>5, <1>6 DEF TargetSum, Taken, TakenUpTo
<1>12. UnitsSold
  BY <1>1, <1>3, <1>5, <1>6, <1>11 DEF UnitsSold
<1>13. UnitsBooked  BY <1>6, <1>11 DEF UnitsBooked
<1>14. ClosedSoldAll /\ ClosedOrWarned  BY <1>6 DEF ClosedSoldAll, ClosedOrWarned
<1> QED
  BY <1>4, <1>7, <1>8, <1>9, <1>10, <1>12, <1>13, <1>14 DEF Inv

LEMMA StutterInv == ASSUME Inv, UNCHANGED vars PROVE Inv'
<1>1. UNCHANGED <<mode, faults, st, qty, filled, level, sold, active, how, slId,
                  targetIds, trail, currentSl, remaining, booked, pc, sl, next,
                  queue, warned>>
  BY DEF vars, exchangeVars, recordVars, handlerVars
<1>2. TypeOK'
  <2>1. (ExchangeTypes /\ RecordTypes /\ HandlerTypes)'
    BY <1>1, TypeParts DEF Inv, ExchangeTypes, RecordTypes, HandlerTypes
  <2> QED  BY <2>1, TypeParts
<1>3. OrdersSane' /\ TargetsInOrder'
  BY <1>1 DEF Inv, OrdersSane, TargetsInOrder, Live, Whole
<1>4. HandlerSane' /\ TrailSane'
  BY <1>1 DEF Inv, HandlerSane, TrailSane, Live
<1>5. UnitsSold' /\ UnitsBooked'
  BY <1>1
  DEF Inv, UnitsSold, UnitsBooked, Whole, AllPlaced, TargetSum, Taken, TakenUpTo
<1>6. ClosedSoldAll' /\ ClosedOrWarned'
  BY <1>1 DEF Inv, ClosedSoldAll, ClosedOrWarned, Held, Live
<1> QED  BY <1>2, <1>3, <1>4, <1>5, <1>6 DEF Inv

LEMMA StepInv == ASSUME Inv, [Next]_vars PROVE Inv'
<1>1. CASE Exchange  BY <1>1, FillInv, KillInv DEF Exchange
<1>2. CASE TrailSingle  BY <1>2, TrailSingleInv
<1>3. CASE Monitor
  BY <1>3, StopFilledInv, StopPartialInv, StopOpenInv, StopReplacedInv, StopLostInv,
     CancelTargetsInv, CloseStoppedInv, TargetSkippedInv, TargetPartialInv,
     TargetHitInv, TargetFinalInv DEF Monitor
<1>4. CASE BeginClose  BY <1>4, BeginCloseInv
<1>5. CASE Closing  BY <1>5, CancelForCloseInv, SellAndCloseInv DEF Closing
<1>6. CASE EmergencyFlatten  BY <1>6, EmergencyFlattenInv
<1>7. CASE KillSwitch  BY <1>7, KillSwitchInv
<1>8. CASE UNCHANGED vars  BY <1>8, StutterInv
<1> QED  BY <1>1, <1>2, <1>3, <1>4, <1>5, <1>6, <1>7, <1>8 DEF Next

\* The inductive invariant: the record and the exchange agree on what is sold,
\* placed and live, between any two steps of monitor, closes and exchange.
THEOREM InvHolds == Spec => []Inv
<1>1. Init => Inv  BY InitInv
<1>2. Inv /\ [Next]_vars => Inv'  BY StepInv
<1> QED  BY <1>1, <1>2, PTL DEF Spec

\* Every variable keeps its type, whatever the exchange and the handlers do.
THEOREM TypeCorrect == Spec => []TypeOK
<1>1. Inv => TypeOK  BY DEF Inv
<1> QED  BY <1>1, InvHolds, PTL

\* With whole fills, the live stop of an active trade covers what is held: no
\* order of target fills, modifications that fail and re-placements leaves
\* units without it.
THEOREM StopCoversRemainder == Spec => []RemainderCovered
<1>1. ASSUME Inv PROVE RemainderCovered
  <2>1. TypeOK  BY <1>1 DEF Inv
  <2>2. ASSUME "partial" \notin faults PROVE qty[slId] >= Held
    <3>1. /\ qty[slId] >= remaining /\ remaining + Taken >= Qty
          /\ sold >= TargetSum + filled[slId]
      BY <1>1, <2>2 DEF Inv, UnitsSold, Whole
    <3> QED  BY <2>1, <3>1, Numbers DEF Held
  <2> QED  BY <2>1, <2>2 DEF RemainderCovered
<1> QED  BY <1>1, InvHolds, PTL

\* A trade closed by its stop, its target or at market has no units left.
THEOREM ClosedIsSold == Spec => []ClosedSoldAll
<1>1. Inv => ClosedSoldAll  BY DEF Inv
<1> QED  BY <1>1, InvHolds, PTL

\* daily_pnl counts no unit that was not sold.
THEOREM BookedIsSold == Spec => []BookedWasSold
<1>1. Inv => BookedWasSold  BY DEF Inv, UnitsBooked, AllPlaced, BookedWasSold
<1> QED  BY <1>1, InvHolds, PTL

\* An order that outlives a trade closed by its stop or at market was reported.
THEOREM NoneLeftUnannounced == Spec => []ClosedOrWarned
<1>1. Inv => ClosedOrWarned  BY DEF Inv
<1> QED  BY <1>1, InvHolds, PTL

\* No step lowers the trigger of the trade's stop: neither a trailing, nor a
\* target hit, nor a re-placement at the price of the record.
THEOREM StopNeverLowered == Spec => StopOnlyRises
<1>1. ASSUME Inv, [Next]_vars PROVE level'[slId'] >= level[slId]
  <2>1. /\ TypeOK /\ slId \in Stops /\ level[slId] \in 0..2 /\ currentSl \in 0..2
        /\ trail \in 0..2 /\ level[slId] <= currentSl /\ currentSl <= trail
        /\ remaining \in 0..Qty /\ level \in [Stops -> 0..2]
    BY <1>1 DEF Inv, TypeOK, TrailSane
  <2>2. CASE UNCHANGED <<level, slId>>  BY <2>1, <2>2
  <2>3. CASE TrailSingle
    <3>1. /\ trail + 1 \in 0..2 /\ trail + 1 >= level[slId] /\ slId' = slId
          /\ ModifyStop(slId, trail + 1, remaining)
      BY <2>1, <2>3 DEF TrailSingle, KeepRecord
    <3> QED  BY <2>1, <3>1, ModifyStopEffect
  <2>4. ASSUME NEW l \in Targets, TargetHit(l) PROVE level'[slId'] >= level[slId]
    <3>1. /\ slId' = slId /\ remaining' = Left(filled[l])
          /\ ModifyStop(slId, l, remaining')
          /\ mode = "multi_lot" => l > trail
          /\ mode # "single_lot" /\ l # 3
      BY <2>4 DEF TargetHit, Polled, Final, KeepRecord
    <3>2. mode = "multi_lot" /\ l \in 0..2
      BY <2>1, <2>4, <3>1, OrderIds DEF TypeOK
    <3>3. filled[l] \in Nat  BY <2>1, <2>4, OrderIds, SMTT(30) DEF TypeOK
    <3>4. remaining' \in 0..Qty  BY <2>1, <3>1, <3>3 DEF Left
    <3> QED  BY <2>1, <3>1, <3>2, <3>4, ModifyStopEffect
  <2>5. CASE StopReplaced
    <3>1. /\ slId' \in Stops /\ level' = [level EXCEPT ![slId'] = currentSl]
      BY <2>1, <2>5, OrderIds DEF StopReplaced, ReplaceAt, LastStop, Stops
    <3> QED  BY <2>1, <3>1
  <2> QED
    BY <1>1, <2>2, <2>3, <2>4, <2>5
       DEF Next, vars, exchangeVars, recordVars, Exchange, Fill, Kill, Monitor,
           StopFilled, StopPartial, StopOpen, StopLost, CancelTargets, CloseStopped,
           TargetSkipped, TargetPartial, TargetFinal, BeginClose, Closing,
           CancelForClose, SellAndClose, EmergencyFlatten, KillSwitch, KeepRecord
<1> QED  BY <1>1, InvHolds, PTL DEF Spec, StopOnlyRises

HIDE ExitOrdersAssumption

-----------------------------------------------------------------------------
(* The replay: what a trade is, and the invariant.                         *)

\* A trade, open or closed.
TradeRecs ==
    [open : BOOLEAN, entry : Int, sl : Int, hits : 0..2, left : Nat,
     partial : Int, credit : Int, pnl : Int]

\* What is left goes with the levels taken, and the stop stands where the last
\* of them has moved it.
OnCourse(tr) ==
    tr.open =>
        /\ tr.hits < FinalTarget
        /\ tr.left = IF Scaled THEN Lots - tr.hits ELSE Lots
        /\ tr.sl <= IF tr.hits = 2 THEN Target(1) ELSE tr.entry
Sane(tr) == tr \in TradeRecs /\ OnCourse(tr)

\* The money that a trade owes to the capital: what it holds, at cost, and what
\* it was credited, less what it has won.
Worth(tr) ==
    IF tr.open THEN tr.credit + tr.entry * tr.left - tr.partial
    ELSE tr.credit - tr.pnl

PlaceSane ==
    /\ stage = "index" => trade = NoTrade /\ traded = FALSE
    /\ stage # "index" => index <= Indices
    /\ stage = "limit" => Holding

MoneySane ==
    /\ dayPnl = recorded /\ started \in Int
    /\ trade # NoTrade => trade \in TradeRecs /\ OnCourse(trade) /\ trade.open /\ trade.credit = 0
    /\ ~abandoned => capital = started + recorded - IF Holding THEN Worth(trade) ELSE 0

ReplayInv == ReplayTypes /\ PlaceSane /\ MoneySane

LEMMA ReplayNumbers ==
    /\ Trigger \in Nat /\ FirstStop \in Nat /\ StopDistance \in Nat /\ Slip \in Nat
    /\ LossLimit \in Nat /\ AlertRange \in Nat /\ AlertRange > 0
    /\ Lots \in Nat /\ Lots > 0 /\ Indices \in Nat /\ Indices > 0
    /\ LastBar \in Nat /\ SquareOff \in Nat /\ LastEntry \in Nat
    /\ FirstStop <= Trigger /\ SingleLotTarget \in 1..3
    /\ Prices \subseteq Nat /\ Capitals \subseteq Nat /\ None \notin Prices /\ None = -1
<1>1. \A S : {Trigger, FirstStop, StopDistance, MaxGap, PositionPct, Slip, LossLimit}
                \subseteq S => Trigger \in S /\ FirstStop \in S /\ StopDistance \in S
                               /\ Slip \in S /\ LossLimit \in S
  OBVIOUS
<1>2. \A S : {LastEntry, SquareOff, LastBar} \subseteq S
                => LastEntry \in S /\ SquareOff \in S /\ LastBar \in S
  OBVIOUS
<1>3. None \notin Nat  BY DEF None
<1> QED  BY <1>1, <1>2, <1>3, IntradayEngineAssumption DEF None

\* The targets are one range apart.
LEMMA TargetsApart ==
    /\ \A l \in 1..3 : Target(l) \in Nat
    /\ Target(1) < Target(2) /\ Target(2) < Target(3)
    /\ FinalTarget \in 1..3 /\ (Scaled => FinalTarget = 3 /\ Lots >= 3)
<1>1. /\ Target(1) = Trigger + AlertRange
      /\ Target(2) = Trigger + 2 * AlertRange
      /\ Target(3) = Trigger + 3 * AlertRange
  BY ReplayNumbers DEF Target
<1>2. FinalTarget \in 1..3 /\ (Scaled => FinalTarget = 3 /\ Lots >= 3)
  BY ReplayNumbers DEF FinalTarget, Scaled
<1> QED  BY <1>1, <1>2, ReplayNumbers

-----------------------------------------------------------------------------
(* The money.                                                              *)

LEMMA Sold ==
    ASSUME NEW s \in Int, NEW e \in Int, NEW q \in Int
    PROVE  /\ (s - e) * q = s * q - e * q /\ s * q \in Int /\ e * q \in Int
           /\ e * (q - 1) = e * q - e
OBVIOUS

\* A sale of the rest closes the trade, and owes the capital no more than before.
LEMMA RestSoldIs ==
    ASSUME NEW tr \in TradeRecs, tr.open, NEW price \in Int
    PROVE  /\ RestSold(tr, price) \in TradeRecs /\ ~RestSold(tr, price).open
           /\ Worth(RestSold(tr, price)) = Worth(tr)
<1> DEFINE s == price - Slip
           x == RestSold(tr, price)
           got == s * tr.left
           won == (s - tr.entry) * tr.left
           cost == tr.entry * tr.left
<1>1. /\ tr.entry \in Int /\ tr.left \in Int /\ tr.partial \in Int
      /\ tr.credit \in Int /\ tr.left \in Nat /\ s \in Int
  BY ReplayNumbers DEF TradeRecs
<1>2. won = got - cost /\ got \in Int /\ cost \in Int  BY <1>1, Sold
<1>3. x = [tr EXCEPT !.open = FALSE, !.credit = tr.credit + got, !.pnl = won + tr.partial]
  BY DEF RestSold, SoldAt
<1>4. Worth(tr) = tr.credit + cost - tr.partial  BY DEF Worth
<1> HIDE DEF s, got, won, cost, x
<1>5. tr.credit + got \in Int /\ won + tr.partial \in Int  BY <1>1, <1>2
<1>6. x \in TradeRecs /\ ~x.open /\ x.credit = tr.credit + got /\ x.pnl = won + tr.partial
  BY <1>3, <1>5 DEF TradeRecs
<1>7. Worth(x) = (tr.credit + got) - (won + tr.partial)  BY <1>6 DEF Worth
<1>8. Worth(x) = Worth(tr)  BY <1>1, <1>2, <1>4, <1>7
<1> QED  BY <1>6, <1>8 DEF x

\* A level before the last moves the stop, and may sell a lot.
LEMMA LevelTakenIs ==
    ASSUME NEW tr \in TradeRecs, tr.open, OnCourse(tr), NEW price \in Int,
           NEW lv \in 1..3, lv = tr.hits + 1, lv < FinalTarget
    PROVE  /\ Sane(LevelTaken(tr, lv, price)) /\ LevelTaken(tr, lv, price).open
           /\ LevelTaken(tr, lv, price).hits = lv
           /\ LevelTaken(tr, lv, price).entry = tr.entry
           /\ LevelTaken(tr, lv, price).sl = StopAfter(tr, lv)
           /\ Worth(LevelTaken(tr, lv, price)) = Worth(tr)
<1> DEFINE s == price - Slip
           stop == StopAfter(tr, lv)
           x == LevelTaken(tr, lv, price)
           cost == tr.entry * tr.left
           less == tr.entry * (tr.left - 1)
<1>1. /\ tr.entry \in Int /\ tr.left \in Int /\ tr.partial \in Int /\ tr.hits \in 0..2
      /\ tr.credit \in Int /\ tr.left \in Nat /\ tr.pnl \in Int /\ tr.sl \in Int
      /\ s \in Int
  BY ReplayNumbers DEF TradeRecs
<1>2. less = cost - tr.entry /\ cost \in Int  BY <1>1, Sold
<1>3. Worth(tr) = tr.credit + cost - tr.partial  BY DEF Worth
<1>4. lv \in {1, 2} /\ stop \in Int /\ stop = IF lv = 2 THEN Target(1) ELSE tr.entry
  BY <1>1, TargetsApart DEF StopAfter
<1>5. CASE Scaled
  <2>1. x = [tr EXCEPT !.hits = lv, !.sl = stop, !.left = tr.left - 1,
                       !.credit = tr.credit + s, !.partial = tr.partial + s - tr.entry]
    BY <1>5 DEF LevelTaken, SoldAt
  <2>2. tr.left = Lots - tr.hits /\ tr.left - 1 \in Nat
    BY <1>1, <1>4, <1>5, TargetsApart, ReplayNumbers DEF OnCourse
  <2> HIDE DEF s, stop, x, cost, less
  <2>3. tr.credit + s \in Int /\ tr.partial + s - tr.entry \in Int  BY <1>1
  <2>a. /\ x.open /\ x.hits = lv /\ x.entry = tr.entry /\ x.sl = stop
        /\ x.left = tr.left - 1 /\ x.credit = tr.credit + s
        /\ x.partial = tr.partial + s - tr.entry
    BY <2>1 DEF TradeRecs
  <2>b. x \in TradeRecs
    <3> DEFINE left == tr.left - 1
               credit == tr.credit + s
               partial == tr.partial + s - tr.entry
    <3>1. x = [tr EXCEPT !.hits = lv, !.sl = stop, !.left = left,
                         !.credit = credit, !.partial = partial]
      BY <2>1
    <3>2. left \in Nat /\ credit \in Int /\ partial \in Int /\ lv \in 0..2
      BY <1>4, <2>2, <2>3
    <3> HIDE DEF left, credit, partial
    <3> QED  BY <1>4, <3>1, <3>2 DEF TradeRecs
  <2>4. /\ x \in TradeRecs /\ x.open /\ x.hits = lv /\ x.entry = tr.entry /\ x.sl = stop
        /\ x.left = tr.left - 1 /\ x.credit = tr.credit + s
        /\ x.partial = tr.partial + s - tr.entry
    BY <2>a, <2>b
  <2>5. Worth(x) = (tr.credit + s) + less - (tr.partial + s - tr.entry)
    BY <2>4 DEF Worth, less
  <2>6. Worth(x) = Worth(tr)  BY <1>1, <1>2, <1>3, <2>5
  <2>7. x.left = Lots - x.hits
    BY <1>1, <2>2, <2>4, ReplayNumbers
  <2>8. OnCourse(x)  BY <1>1, <1>4, <1>5, <2>4, <2>7 DEF OnCourse
  <2> QED  BY <2>4, <2>6, <2>8 DEF Sane, x, stop
<1>6. CASE ~Scaled
  <2>1. x = [tr EXCEPT !.hits = lv, !.sl = stop]
    BY <1>6 DEF LevelTaken
  <2> HIDE DEF s, stop, x, cost, less
  <2>a. lv \in 0..2  BY <1>4
  <2>2. /\ x \in TradeRecs /\ x.open /\ x.hits = lv /\ x.entry = tr.entry /\ x.sl = stop
        /\ x.left = tr.left /\ x.credit = tr.credit /\ x.partial = tr.partial
    BY <1>4, <2>1, <2>a DEF TradeRecs
  <2>3. Worth(x) = Worth(tr)  BY <2>2 DEF Worth
  <2>4. OnCourse(x)  BY <1>1, <1>4, <1>6, <2>2 DEF OnCourse
  <2> QED  BY <2>2, <2>3, <2>4 DEF Sane, x, stop
<1> QED  BY <1>5, <1>6

BarRecord(bar) == bar.open \in Int /\ bar.high \in Int /\ bar.low \in Int

LEMMA LargerIs ==
    ASSUME NEW a \in Int, NEW b \in Int
    PROVE  Larger(a, b) \in Int /\ Smaller(a, b) \in Int
BY DEF Larger, Smaller

\* Once the levels before it are taken, a level keeps a trade on its course.
Reached(tr, lv) == ~tr.open \/ tr.hits >= lv - 1

LEMMA TakesTargetIs ==
    ASSUME NEW tr, Sane(tr), NEW bar, BarRecord(bar), NEW lv \in 1..3,
           tr.open /\ tr.hits < lv - 1 => bar.high < Target(lv)
    PROVE  /\ Sane(TakesTarget(tr, bar, lv))
           /\ Worth(TakesTarget(tr, bar, lv)) = Worth(tr)
           /\ LET x == TakesTarget(tr, bar, lv)
              IN  x.open => (x.hits = tr.hits /\ bar.high < Target(lv)) \/ x.hits >= lv
<1> DEFINE x == TakesTarget(tr, bar, lv)
           price == Larger(bar.open, Target(lv))
<1>1. tr \in TradeRecs /\ OnCourse(tr) /\ tr.hits \in 0..2 /\ price \in Int
      /\ Target(lv) \in Int /\ bar.high \in Int
  <2>1. Target(lv) \in Int  BY TargetsApart
  <2>2. bar.open \in Int /\ bar.high \in Int  BY DEF BarRecord
  <2>3. price \in Int  BY <2>1, <2>2, LargerIs
  <2> QED  BY <2>1, <2>2, <2>3 DEF Sane, TradeRecs
<1>2. CASE ~tr.open \/ ~Ahead(tr, lv) \/ bar.high < Target(lv)
  <2>1. x = tr  BY <1>2 DEF TakesTarget
  <2>2. tr.open /\ ~(bar.high < Target(lv)) => tr.hits >= lv
    BY <1>1, <1>2, TargetsApart DEF Ahead, OnCourse, Sane
  <2> QED  BY <2>1, <2>2
<1>3. CASE tr.open /\ Ahead(tr, lv) /\ ~(bar.high < Target(lv))
  <2>1. tr.open /\ lv = tr.hits + 1 /\ lv <= FinalTarget
    BY <1>1, <1>3 DEF Ahead
  <2>2. CASE lv = FinalTarget
    <3>1. x = RestSold(tr, price)  BY <1>3, <2>2 DEF TakesTarget
    <3>2. x \in TradeRecs /\ ~x.open /\ Worth(x) = Worth(tr)
      BY <1>1, <2>1, <3>1, RestSoldIs
    <3> QED  BY <3>2 DEF Sane, OnCourse
  <2>3. CASE lv # FinalTarget
    <3>1. x = LevelTaken(tr, lv, price)  BY <1>3, <2>3 DEF TakesTarget
    <3>2. lv < FinalTarget  BY <2>1, <2>3, TargetsApart
    <3>3. Sane(x) /\ x.open /\ x.hits = lv /\ Worth(x) = Worth(tr)
      BY <1>1, <2>1, <3>1, <3>2, LevelTakenIs
    <3> QED  BY <3>3
  <2> QED  BY <2>2, <2>3
<1> QED  BY <1>2, <1>3

LEMMA TargetsTakenIs ==
    ASSUME NEW tr, Sane(tr), NEW bar, BarRecord(bar)
    PROVE  Sane(TargetsTaken(tr, bar)) /\ Worth(TargetsTaken(tr, bar)) = Worth(tr)
<1> DEFINE x == TakesTarget(tr, bar, 1)
           y == TakesTarget(x, bar, 2)
           z == TakesTarget(y, bar, 3)
<1>1. bar.high \in Int  BY DEF BarRecord
<1>2. \A tr1 : Sane(tr1) => tr1.hits \in 0..2  BY DEF Sane, TradeRecs
<1>3. /\ Sane(x) /\ Worth(x) = Worth(tr)
      /\ x.open => x.hits >= 1 \/ bar.high < Target(1)
  BY <1>2, TakesTargetIs
<1> HIDE DEF x
<1>4. /\ Sane(y) /\ Worth(y) = Worth(x)
      /\ y.open => y.hits >= 2 \/ bar.high < Target(2)
  BY <1>1, <1>2, <1>3, TakesTargetIs, TargetsApart
<1> HIDE DEF y
<1>5. Sane(z) /\ Worth(z) = Worth(y)
  BY <1>1, <1>2, <1>4, TakesTargetIs, TargetsApart
<1> HIDE DEF z
<1>6. TargetsTaken(tr, bar) = z  BY DEF TargetsTaken, x, y, z
<1> QED  BY <1>3, <1>4, <1>5, <1>6

\* Whatever a bar does to a trade, the trade owes the capital no more than before.
LEMMA AfterBarIs ==
    ASSUME NEW tr, Sane(tr), tr.open, NEW bar, BarRecord(bar)
    PROVE  Sane(AfterBar(tr, bar)) /\ Worth(AfterBar(tr, bar)) = Worth(tr)
<1>1. tr \in TradeRecs /\ tr.sl \in Int /\ bar.open \in Int  BY DEF Sane, TradeRecs, BarRecord
<1>2. ASSUME NEW price \in Int
      PROVE  Sane(RestSold(tr, price)) /\ Worth(RestSold(tr, price)) = Worth(tr)
  BY <1>1, <1>2, RestSoldIs DEF Sane, OnCourse
<1>3. CASE ~StopTouched(tr, bar)
  <2>1. AfterBar(tr, bar) = TargetsTaken(tr, bar)  BY <1>3 DEF AfterBar
  <2> QED  BY <2>1, TargetsTakenIs
<1>4. CASE StopTouched(tr, bar) /\ FinalFirst(tr, bar)
  <2>1. AfterBar(tr, bar) = RestSold(tr, Larger(bar.open, Target(FinalTarget)))
    BY <1>4 DEF AfterBar
  <2>2. Target(FinalTarget) \in Int  BY TargetsApart
  <2>3. Larger(bar.open, Target(FinalTarget)) \in Int  BY <1>1, <2>2, LargerIs
  <2> QED  BY <2>1, <2>3, <1>2
<1>5. CASE StopTouched(tr, bar) /\ ~FinalFirst(tr, bar)
  <2>1. AfterBar(tr, bar) = RestSold(tr, Smaller(bar.open, tr.sl))
    BY <1>5 DEF AfterBar
  <2>2. Smaller(bar.open, tr.sl) \in Int  BY <1>1, LargerIs
  <2> QED  BY <2>1, <2>2, <1>2
<1> QED  BY <1>3, <1>4, <1>5

-----------------------------------------------------------------------------
(* The invariant.                                                          *)

LEMMA NoTradeIs == ~NoTrade.open /\ NoTrade \notin TradeRecs
<1>1. DOMAIN NoTrade = {"open"}  BY DEF NoTrade
<1>2. \A r \in TradeRecs : "sl" \in DOMAIN r  BY DEF TradeRecs
<1> QED  BY <1>1, <1>2 DEF NoTrade

LEMMA InitReplay == ASSUME ReplayInit PROVE ReplayInv
<1>1. started = capital /\ capital \in Int /\ dayPnl = 0 /\ recorded = 0 /\ ~Holding
  BY ReplayNumbers, NoTradeIs DEF ReplayInit, Holding
<1>2. ReplayTypes
  <2>1. index \in 1..(Indices + 1) /\ t \in 0..LastBar
    BY ReplayNumbers DEF ReplayInit
  <2>2. {previous, current, latest} \subseteq Prices \cup {None}  BY DEF ReplayInit
  <2>3. {dayPnl, recorded, capital} \subseteq Int  BY <1>1
  <2> QED  BY <1>1, <2>1, <2>2, <2>3 DEF ReplayInit, ReplayTypes
<1>3. PlaceSane  BY DEF ReplayInit, PlaceSane
<1>4. MoneySane  BY <1>1 DEF ReplayInit, MoneySane
<1> QED  BY <1>2, <1>3, <1>4 DEF ReplayInv

\* What the invariant says, for the step proofs.
LEMMA ReplayFacts ==
    ASSUME ReplayInv
    PROVE  /\ exitMode \in ExitModes /\ index \in 1..(Indices + 1) /\ t \in 0..LastBar
           /\ stage \in {"index", "bar", "limit", "next"}
           /\ previous \in Prices \cup {None} /\ current \in Prices \cup {None}
           /\ latest \in Prices \cup {None}
           /\ traded \in BOOLEAN /\ abandoned \in BOOLEAN
           /\ dayPnl \in Int /\ recorded \in Int /\ capital \in Int /\ started \in Int
           /\ dayPnl = recorded
           /\ Holding => /\ Sane(trade) /\ trade.open /\ trade.credit = 0 /\ latest \in Prices
                         /\ trade \in TradeRecs /\ stage # "index" /\ index <= Indices
           /\ ~Holding => trade = NoTrade
           /\ stage = "index" => trade = NoTrade /\ traded = FALSE
           /\ stage # "index" => index <= Indices
<1>1. \A S : {previous, current, latest} \subseteq S
              => previous \in S /\ current \in S /\ latest \in S
  OBVIOUS
<1>2. \A S : {dayPnl, recorded, capital} \subseteq S
              => dayPnl \in S /\ recorded \in S /\ capital \in S
  OBVIOUS
<1>3. /\ exitMode \in ExitModes /\ index \in 1..(Indices + 1) /\ t \in 0..LastBar
      /\ stage \in {"index", "bar", "limit", "next"}
      /\ previous \in Prices \cup {None} /\ current \in Prices \cup {None}
      /\ latest \in Prices \cup {None}
      /\ traded \in BOOLEAN /\ abandoned \in BOOLEAN
      /\ dayPnl \in Int /\ recorded \in Int /\ capital \in Int
      /\ Holding => latest # None
  BY <1>1, <1>2 DEF ReplayInv, ReplayTypes
<1>4. Holding => trade # NoTrade  BY NoTradeIs DEF Holding
<1>5. started \in Int /\ dayPnl = recorded  BY DEF ReplayInv, MoneySane
<1>6. Holding => /\ Sane(trade) /\ trade.open /\ trade.credit = 0 /\ trade \in TradeRecs
  BY <1>4 DEF ReplayInv, MoneySane, Sane
<1>7. ~Holding => trade = NoTrade  BY DEF ReplayInv, MoneySane, Holding
<1>8. /\ stage = "index" => trade = NoTrade /\ traded = FALSE
      /\ stage # "index" => index <= Indices
  BY DEF ReplayInv, PlaceSane
<1> QED  BY <1>3, <1>4, <1>5, <1>6, <1>7, <1>8

\* The capital of an open trade.
LEMMA OpenWorth ==
    ASSUME ReplayInv, Holding, ~abandoned
    PROVE  capital = started + recorded - Worth(trade) /\ Worth(trade) \in Int
<1>1. trade \in TradeRecs /\ trade.open  BY ReplayFacts
<1>2. /\ trade.entry \in Int /\ trade.left \in Int /\ trade.partial \in Int
      /\ trade.credit \in Int
  BY <1>1 DEF TradeRecs
<1>3. trade.entry * trade.left \in Int  BY <1>2
<1>4. Worth(trade) \in Int  BY <1>1, <1>2, <1>3 DEF Worth
<1> QED  BY <1>4 DEF ReplayInv, MoneySane

\* A state without a trade, or with the same one and the same books.
LEMMA SameBooks ==
    ASSUME ReplayInv, ReplayTypes', PlaceSane',
           UNCHANGED <<trade, dayPnl, recorded, capital, started, abandoned>>,
           exitMode' = exitMode
    PROVE  ReplayInv'
<1>1. MoneySane'
  BY DEF ReplayInv, MoneySane, Holding, Worth, OnCourse, FinalTarget, Scaled, Target
<1> QED  BY <1>1 DEF ReplayInv

LEMMA TypesKept ==
    ASSUME exitMode' \in ExitModes, index' \in 1..(Indices + 1), t' \in 0..LastBar,
           stage' \in {"index", "bar", "limit", "next"},
           previous' \in Prices \cup {None}, current' \in Prices \cup {None},
           latest' \in Prices \cup {None},
           traded' \in BOOLEAN, abandoned' \in BOOLEAN,
           dayPnl' \in Int, recorded' \in Int, capital' \in Int,
           Holding' => /\ Sane(trade)' /\ trade'.credit = 0 /\ latest' # None
    PROVE  ReplayTypes'
<1>1. Holding' => /\ trade'.left \in 1..Lots /\ trade'.hits \in 0..2
                  /\ Scaled' => trade'.left = Lots - trade'.hits
  <2> SUFFICES ASSUME Holding' PROVE /\ trade'.left \in 1..Lots /\ trade'.hits \in 0..2
                                     /\ Scaled' => trade'.left = Lots - trade'.hits
    OBVIOUS
  <2>1. trade'.hits \in 0..2  BY DEF Sane, TradeRecs
  <2>2. trade'.left = IF Scaled' THEN Lots - trade'.hits ELSE Lots
    BY DEF Sane, OnCourse, Holding
  <2>3. Scaled' => Lots >= 3  BY DEF Scaled
  <2> QED  BY <2>1, <2>2, <2>3, ReplayNumbers
<1> QED  BY <1>1 DEF ReplayTypes

\* Recording a closed trade that owes what the open one did.
LEMMA RecordIs ==
    ASSUME ReplayInv, Holding, NEW tr \in TradeRecs, ~tr.open, Worth(tr) = Worth(trade),
           Record(tr), UNCHANGED <<exitMode, started, abandoned>>
    PROVE  /\ trade' = NoTrade /\ ~Holding' /\ MoneySane'
           /\ dayPnl' \in Int /\ recorded' \in Int /\ capital' \in Int
<1> DEFINE won == tr.pnl
           got == tr.credit
           debt == Worth(trade)
<1>1. won \in Int /\ got \in Int  BY DEF TradeRecs
<1>2. got - won = debt  BY DEF Worth
<1>3. /\ recorded' = recorded + won /\ dayPnl' = dayPnl + won /\ capital' = capital + got
      /\ trade' = NoTrade
  BY DEF Record
<1>4. /\ dayPnl \in Int /\ recorded \in Int /\ capital \in Int /\ started \in Int
      /\ dayPnl = recorded
  BY ReplayFacts
<1>5. ~abandoned => capital = started + recorded - debt  BY OpenWorth
<1> HIDE DEF won, got, debt
<1>6. ~Holding'  BY <1>3, NoTradeIs DEF Holding
<1>7. ~abandoned => capital' = started + recorded'
  BY <1>1, <1>2, <1>3, <1>4, <1>5
<1>8. MoneySane'
  <2>1. dayPnl' = recorded' /\ started' \in Int  BY <1>3, <1>4
  <2>2. ~abandoned' => capital' = started' + recorded' - 0
    BY <1>1, <1>3, <1>4, <1>7
  <2> QED  BY <1>3, <1>6, <2>1, <2>2 DEF MoneySane
<1> QED  BY <1>1, <1>3, <1>4, <1>6, <1>8

\* On to the next index.
LEMMA IndexOverIs ==
    ASSUME ReplayInv, index <= Indices, IndexOver, trade' = NoTrade
    PROVE  /\ index' \in 1..(Indices + 1) /\ t' \in 0..LastBar /\ stage' = "index"
           /\ previous' = None /\ current' = None /\ latest' = None /\ traded' = FALSE
           /\ PlaceSane'
BY ReplayFacts, ReplayNumbers DEF IndexOver, ForgetBars, PlaceSane

LEMMA RecordedOver ==
    ASSUME ReplayInv, Holding, NEW tr \in TradeRecs, ~tr.open, Worth(tr) = Worth(trade),
           Record(tr), IndexOver, UNCHANGED <<exitMode, started, abandoned>>
    PROVE  ReplayInv'
<1>1. /\ trade' = NoTrade /\ ~Holding' /\ MoneySane'
      /\ dayPnl' \in Int /\ recorded' \in Int /\ capital' \in Int
  BY RecordIs
<1>2. index <= Indices /\ exitMode \in ExitModes /\ abandoned \in BOOLEAN  BY ReplayFacts
<1>3. /\ index' \in 1..(Indices + 1) /\ t' \in 0..LastBar /\ stage' = "index"
      /\ previous' = None /\ current' = None /\ latest' = None /\ traded' = FALSE
      /\ PlaceSane'
  BY <1>1, <1>2, IndexOverIs
<1>4. ReplayTypes'  BY <1>1, <1>2, <1>3, TypesKept
<1> QED  BY <1>1, <1>3, <1>4 DEF ReplayInv

\* _close_trade.
LEMMA ClosedIs ==
    ASSUME ReplayInv, Holding, NEW price \in Prices
    PROVE  /\ ClosedAt(price) \in TradeRecs /\ ~ClosedAt(price).open
           /\ Worth(ClosedAt(price)) = Worth(trade)
<1>1. trade \in TradeRecs /\ trade.open /\ price \in Int  BY ReplayFacts, ReplayNumbers
<1> QED  BY <1>1, RestSoldIs DEF ClosedAt

-----------------------------------------------------------------------------
(* The steps.                                                              *)

LEMMA OverIsSane ==
    ASSUME ReplayInv, index <= Indices, IndexOver, ~Holding,
           UNCHANGED <<exitMode, trade, bookVars, started, abandoned>>
    PROVE  ReplayInv'
<1>1. trade = NoTrade  BY ReplayFacts
<1>2. ~Holding'  BY <1>1, NoTradeIs DEF Holding
<1>3. /\ index' \in 1..(Indices + 1) /\ t' \in 0..LastBar /\ stage' = "index"
      /\ previous' = None /\ current' = None /\ latest' = None /\ traded' = FALSE
      /\ PlaceSane'
  BY <1>1, IndexOverIs
<1>4. ReplayTypes'  BY <1>2, <1>3, ReplayFacts, TypesKept DEF bookVars
<1> QED  BY <1>3, <1>4, SameBooks DEF bookVars

LEMMA BeginIndexSane == ASSUME ReplayInv, BeginIndex PROVE ReplayInv'
<1>1. /\ t' \in 0..LastBar /\ stage' = "bar" /\ index <= Indices
      /\ UNCHANGED <<exitMode, index, previous, current, latest, trade, traded, dayPnl,
                     recorded, capital, started, abandoned>>
  BY DEF BeginIndex, barVars, bookVars
<1>2. trade = NoTrade /\ ~Holding'  BY <1>1, ReplayFacts, NoTradeIs DEF BeginIndex, Holding
<1>3. ReplayTypes'  BY <1>1, <1>2, ReplayFacts, TypesKept
<1>4. PlaceSane'  BY <1>1 DEF PlaceSane
<1> QED  BY <1>1, <1>3, <1>4, SameBooks

\* The trade and the books stay, and so does the place in the day.
LEMMA SaneStill ==
    ASSUME ReplayInv, t' \in 0..LastBar, stage # "index", stage' \in {"bar", "limit", "next"},
           stage' = "limit" => Holding,
           UNCHANGED <<exitMode, index, trade, traded, bookVars, started, abandoned>>,
           previous' \in Prices \cup {None}, current' \in Prices \cup {None},
           latest' \in Prices \cup {None}, Holding => latest' \in Prices
    PROVE  ReplayInv'
<1>1. UNCHANGED <<dayPnl, recorded, capital>>  BY DEF bookVars
<1>2. Holding' <=> Holding  BY DEF Holding
<1>3. Holding => Sane(trade)' /\ trade'.credit = 0 /\ latest' # None
  BY ReplayFacts, ReplayNumbers DEF Sane, OnCourse, FinalTarget, Scaled, Target
<1>4. ReplayTypes'  BY <1>1, <1>2, <1>3, ReplayFacts, TypesKept
<1>5. PlaceSane'  BY <1>2, ReplayFacts DEF PlaceSane
<1> QED  BY <1>1, <1>4, <1>5, SameBooks

LEMMA NextBarSane == ASSUME ReplayInv, NextBar PROVE ReplayInv'
<1>1. /\ stage = "next" /\ stage' = "bar" /\ t' \in (t + 1)..LastBar
      /\ UNCHANGED <<exitMode, index, trade, traded, bookVars, started, abandoned>>
  BY DEF NextBar
<1>2. t' \in 0..LastBar  BY <1>1, ReplayFacts, ReplayNumbers
<1>3. CASE Holding
  <2>1. latest \in Prices  BY <1>3, ReplayFacts
  <2>2. /\ previous' = current \/ previous' \in Prices \cup {None}
        /\ current' \in Prices \cup {None}
        /\ (current' # None /\ latest' = current') \/ latest' \in Prices \/ latest' = latest
    BY <1>3 DEF NextBar
  <2>3. latest' \in Prices  BY <2>1, <2>2
  <2> QED  BY <1>1, <1>2, <2>2, <2>3, ReplayFacts, SaneStill
<1>4. CASE ~Holding
  <2>1. previous' = None /\ current' = None /\ latest' = None
    BY <1>4 DEF NextBar, ForgetBars
  <2> QED  BY <1>1, <1>2, <1>4, <2>1, SaneStill
<1> QED  BY <1>3, <1>4

LEMMA StaySane ==
    ASSUME ReplayInv, NotJudged \/ WithinLimit \/ NoEntry
    PROVE  ReplayInv'
<1>1. /\ stage \in {"bar", "limit"} /\ stage' \in {"limit", "next"}
      /\ stage' = "limit" => Holding
      /\ UNCHANGED <<exitMode, index, t, previous, current, latest, trade, traded, bookVars,
                     started, abandoned>>
  BY DEF NotJudged, WithinLimit, NoEntry, InSession, barVars
<1> QED  BY <1>1, ReplayFacts, SaneStill

LEMMA DataEndsSane == ASSUME ReplayInv, DataEnds PROVE ReplayInv'
<1>1. /\ stage = "next" /\ trade' = NoTrade /\ abandoned' = (abandoned \/ Holding)
      /\ IndexOver /\ UNCHANGED <<exitMode, dayPnl, recorded, capital, started>>
  BY DEF DataEnds, bookVars
<1>2. ~Holding'  BY <1>1, NoTradeIs DEF Holding
<1>3. index <= Indices  BY <1>1, ReplayFacts
<1>4. /\ index' \in 1..(Indices + 1) /\ t' \in 0..LastBar /\ stage' = "index"
      /\ previous' = None /\ current' = None /\ latest' = None /\ traded' = FALSE
      /\ PlaceSane'
  BY <1>1, <1>3, IndexOverIs
<1>5. abandoned' \in BOOLEAN  BY <1>1, ReplayFacts DEF Holding
<1>6. ReplayTypes'  BY <1>1, <1>2, <1>4, <1>5, ReplayFacts, TypesKept
<1>7. MoneySane'
  <2>1. ~abandoned' => ~abandoned /\ ~Holding  BY <1>1, ReplayFacts
  <2>2. ~abandoned /\ ~Holding => capital = started + recorded - 0
    BY DEF ReplayInv, MoneySane
  <2>3. dayPnl = recorded /\ started \in Int  BY ReplayFacts
  <2> QED  BY <1>1, <1>2, <2>1, <2>2, <2>3 DEF MoneySane
<1> QED  BY <1>4, <1>6, <1>7 DEF ReplayInv

LEMMA SquaredOffSane == ASSUME ReplayInv, SquaredOff PROVE ReplayInv'
<1>1. stage = "bar" /\ IndexOver /\ UNCHANGED <<exitMode, started, abandoned>>
  BY DEF SquaredOff
<1>2. CASE Holding
  <2>1. PICK close \in Prices : Record(ClosedAt(close))  BY <1>2 DEF SquaredOff
  <2>2. /\ ClosedAt(close) \in TradeRecs /\ ~ClosedAt(close).open
        /\ Worth(ClosedAt(close)) = Worth(trade)
    BY <1>2, ClosedIs
  <2> QED  BY <1>1, <1>2, <2>1, <2>2, RecordedOver
<1>3. CASE ~Holding
  <2>1. UNCHANGED <<trade, bookVars>> /\ index <= Indices
    BY <1>1, <1>3, ReplayFacts DEF SquaredOff
  <2> QED  BY <1>1, <1>3, <2>1, OverIsSane
<1> QED  BY <1>2, <1>3

LEMMA LimitCloseSane == ASSUME ReplayInv, LimitClose PROVE ReplayInv'
<1>1. /\ stage = "limit" /\ IndexOver /\ UNCHANGED <<exitMode, started, abandoned>>
  BY DEF LimitClose
<1>2. Holding  BY <1>1 DEF ReplayInv, PlaceSane
<1>3. PICK close \in Prices : Record(ClosedAt(close))  BY DEF LimitClose
<1>4. /\ ClosedAt(close) \in TradeRecs /\ ~ClosedAt(close).open
      /\ Worth(ClosedAt(close)) = Worth(trade)
  BY <1>2, ClosedIs
<1> QED  BY <1>1, <1>2, <1>3, <1>4, RecordedOver

LEMMA SkipIndexSane == ASSUME ReplayInv, SkipIndex PROVE ReplayInv'
<1>1. /\ stage = "index" /\ index <= Indices /\ IndexOver
      /\ UNCHANGED <<exitMode, trade, bookVars, started, abandoned>>
  BY DEF SkipIndex
<1>2. ~Holding  BY <1>1, ReplayFacts, NoTradeIs DEF Holding
<1> QED  BY <1>1, <1>2, OverIsSane

\* A trade that stays open is settled with the capital bar by bar.
LEMMA SettledIs ==
    ASSUME NEW tr \in TradeRecs, Sane(tr), tr.open
    PROVE  /\ Sane([tr EXCEPT !.credit = 0]) /\ [tr EXCEPT !.credit = 0].open
           /\ [tr EXCEPT !.credit = 0] \in TradeRecs
           /\ [tr EXCEPT !.credit = 0].credit = 0
           /\ Worth([tr EXCEPT !.credit = 0]) = Worth(tr) - tr.credit
           /\ tr.credit \in Int /\ Worth(tr) \in Int
<1> DEFINE x == [tr EXCEPT !.credit = 0]
           cost == tr.entry * tr.left
<1>1. /\ x \in TradeRecs /\ x.open /\ x.credit = 0 /\ x.entry = tr.entry /\ x.left = tr.left
      /\ x.partial = tr.partial /\ x.hits = tr.hits /\ x.sl = tr.sl
  BY DEF TradeRecs
<1>2. tr.credit \in Int /\ tr.partial \in Int /\ cost \in Int
  <2>1. tr.entry \in Int /\ tr.left \in Int /\ tr.credit \in Int /\ tr.partial \in Int
    BY DEF TradeRecs
  <2> QED  BY <2>1, Sold
<1>3. Worth(tr) = tr.credit + cost - tr.partial  BY DEF Worth
<1>4. Worth(x) = 0 + cost - tr.partial  BY <1>1 DEF Worth
<1>5. OnCourse(x)  BY <1>1 DEF OnCourse, Sane
<1> HIDE DEF x, cost
<1>6. Worth(x) = Worth(tr) - tr.credit  BY <1>2, <1>3, <1>4
<1>7. Worth(tr) \in Int  BY <1>2, <1>3
<1> QED  BY <1>1, <1>2, <1>5, <1>6, <1>7 DEF Sane, x

LEMMA JudgedSane ==
    ASSUME ReplayInv, NEW bar \in Bars(previous), Judged(bar)
    PROVE  ReplayInv'
<1> DEFINE tr == AfterBar(trade, bar)
<1>1. /\ Holding /\ previous # None /\ stage = "bar"
      /\ UNCHANGED <<exitMode, started, abandoned>>
  BY DEF Judged, InSession
<1>2. Sane(trade) /\ trade.open /\ trade.credit = 0 /\ latest \in Prices /\ index <= Indices
      /\ previous \in Prices
  BY <1>1, ReplayFacts
<1>3. BarRecord(bar)
  <2>1. bar.open = previous /\ bar.high \in Prices /\ bar.low \in Prices
    BY DEF Bars
  <2>2. Prices \subseteq Int  BY ReplayNumbers
  <2>3. bar.open \in Int /\ bar.high \in Int /\ bar.low \in Int  BY <1>2, <2>1, <2>2
  <2> QED  BY <2>3 DEF BarRecord
<1>4. Sane(tr) /\ tr \in TradeRecs /\ Worth(tr) = Worth(trade)
  BY <1>2, <1>3, AfterBarIs DEF Sane
<1>5. /\ tr.open => /\ capital' = capital + tr.credit
                    /\ trade' = [tr EXCEPT !.credit = 0]
                    /\ stage' = "limit"
                    /\ UNCHANGED <<index, t, barVars, traded, dayPnl, recorded>>
      /\ ~tr.open => /\ Record(tr)
                     /\ \/ IndexOver
                        \/ stage' = "next" /\ UNCHANGED <<index, t, barVars, traded>>
  BY DEF Judged
<1> HIDE DEF tr
<1>6. CASE tr.open
  <2> DEFINE x == [tr EXCEPT !.credit = 0]
             debt == Worth(trade)
             rest == Worth(x)
             got == tr.credit
  <2>1. /\ Sane(x) /\ x.open /\ x \in TradeRecs /\ x.credit = 0
        /\ rest = debt - got /\ got \in Int /\ debt \in Int
    BY <1>4, <1>6, SettledIs
  <2>2. /\ capital' = capital + got /\ trade' = x /\ stage' = "limit"
        /\ UNCHANGED <<index, t, previous, current, latest, traded, dayPnl, recorded>>
    BY <1>5, <1>6 DEF barVars
  <2> HIDE DEF x
  <2>3. Holding' /\ Sane(trade)' /\ trade'.credit = 0 /\ latest' # None
    BY <1>1, <1>2, <2>1, <2>2, ReplayNumbers
    DEF Holding, Sane, OnCourse, FinalTarget, Scaled, Target
  <2>4. capital' \in Int
    <3> HIDE DEF got, debt
    <3> QED  BY <2>1, <2>2, ReplayFacts
  <2>5. ReplayTypes'
    BY <1>1, <2>2, <2>3, <2>4, ReplayFacts, TypesKept
  <2>6. PlaceSane'  BY <1>2, <2>2, <2>3 DEF PlaceSane
  <2>7. ~abandoned => capital' = started + recorded - rest
    <3>1. ~abandoned => capital = started + recorded - debt  BY <1>1, OpenWorth
    <3>2. capital \in Int /\ started \in Int /\ recorded \in Int  BY ReplayFacts
    <3> HIDE DEF got, debt, rest
    <3> QED  BY <2>1, <2>2, <3>1, <3>2
  <2>8. MoneySane'
    <3>1. Worth(trade)' = rest  BY <2>2 DEF Worth
    <3>2. trade'.open /\ trade' \in TradeRecs /\ OnCourse(trade)'  BY <2>1, <2>2, <2>3 DEF Sane
    <3>3. dayPnl' = recorded' /\ started' \in Int  BY <1>1, <2>2, ReplayFacts
    <3>4. ~abandoned' => capital' = started' + recorded' - Worth(trade)'
      BY <1>1, <2>2, <2>7, <3>1
    <3> HIDE DEF rest
    <3> QED  BY <2>3, <3>2, <3>3, <3>4 DEF MoneySane
  <2> QED  BY <2>5, <2>6, <2>8 DEF ReplayInv
<1>7. CASE ~tr.open
  <2>1. Record(tr)  BY <1>5, <1>7
  <2>2. CASE IndexOver
    BY <1>1, <1>4, <1>7, <2>1, <2>2, RecordedOver
  <2>3. CASE stage' = "next" /\ UNCHANGED <<index, t, barVars, traded>>
    <3>1. /\ trade' = NoTrade /\ ~Holding' /\ MoneySane'
          /\ dayPnl' \in Int /\ recorded' \in Int /\ capital' \in Int
      BY <1>1, <1>4, <1>7, <2>1, RecordIs
    <3>2. UNCHANGED <<previous, current, latest>>  BY <2>3 DEF barVars
    <3>3. ReplayTypes'  BY <1>1, <2>3, <3>1, <3>2, ReplayFacts, TypesKept
    <3>4. PlaceSane'  BY <1>2, <2>3, <3>1 DEF PlaceSane
    <3> QED  BY <3>1, <3>3, <3>4 DEF ReplayInv
  <2> QED  BY <1>5, <1>7, <2>2, <2>3
<1> QED  BY <1>6, <1>7

LEMMA OpenedIs ==
    ASSUME NEW fill \in Int, fill >= Trigger
    PROVE  /\ Opened(fill) \in TradeRecs /\ Sane(Opened(fill)) /\ Opened(fill).open
           /\ Opened(fill).credit = 0 /\ Worth(Opened(fill)) = fill * Lots
<1> DEFINE stop == Larger(FirstStop, fill - StopDistance)
           x == Opened(fill)
           cost == fill * Lots
<1>1. stop \in Int /\ stop <= fill  BY ReplayNumbers DEF Larger
<1>2. x = [open |-> TRUE, entry |-> fill, sl |-> stop, hits |-> 0, left |-> Lots,
           partial |-> 0, credit |-> 0, pnl |-> 0]
  BY DEF Opened
<1> HIDE DEF stop, x
<1>3. x \in TradeRecs
  <2>1. 0 \in 0..2 /\ Lots \in Nat  BY ReplayNumbers
  <2> QED  BY <1>1, <1>2, <2>1 DEF TradeRecs
<1>4. OnCourse(x)
  <2>1. x.hits = 0 /\ x.left = Lots /\ x.sl <= x.entry  BY <1>1, <1>2
  <2>2. 0 < FinalTarget /\ Lots - 0 = Lots  BY TargetsApart, ReplayNumbers
  <2> QED  BY <2>1, <2>2 DEF OnCourse
<1>5. Worth(x) = 0 + cost - 0  BY <1>2 DEF Worth
<1>6. cost \in Int  BY ReplayNumbers
<1> HIDE DEF cost
<1>7. Worth(x) = cost  BY <1>5, <1>6
<1> QED  BY <1>2, <1>3, <1>4, <1>7 DEF Sane, x, cost

LEMMA EnterSane ==
    ASSUME ReplayInv, NEW open \in Prices \cup {None}, Enter(open)
    PROVE  ReplayInv'
<1> DEFINE fill == (IF open > Trigger THEN open ELSE Trigger) + Slip
           cost == fill * Lots
<1>1. /\ stage = "bar" /\ ~Holding
      /\ capital' = capital - cost /\ trade' = Opened(fill) /\ traded' = TRUE
      /\ current' = open /\ previous' = None /\ latest' \in Prices
      /\ stage' = "next"
      /\ UNCHANGED <<exitMode, index, t, dayPnl, recorded, started, abandoned>>
  BY DEF Enter, InSession
<1>2. fill \in Int /\ fill >= Trigger
  <2>1. open \in Int  BY ReplayNumbers
  <2> QED  BY <2>1, ReplayNumbers
<1>3. /\ Opened(fill) \in TradeRecs /\ Sane(Opened(fill)) /\ Opened(fill).open
      /\ Opened(fill).credit = 0 /\ Worth(Opened(fill)) = cost
  BY <1>2, OpenedIs
<1>4. cost \in Int  BY <1>2, ReplayNumbers
<1> HIDE DEF fill, cost
<1>5. /\ Holding' /\ trade' \in TradeRecs /\ trade'.credit = 0 /\ trade'.open
      /\ Sane(trade)' /\ latest' # None /\ Worth(trade)' = cost
  BY <1>1, <1>3, ReplayNumbers DEF Holding, Worth, Sane, OnCourse, FinalTarget, Scaled, Target
<1>6. capital' \in Int  BY <1>1, <1>4, ReplayFacts
<1>7. ReplayTypes'
  BY <1>1, <1>5, <1>6, ReplayFacts, TypesKept
<1>8. PlaceSane'  BY <1>1, <1>5, ReplayFacts DEF PlaceSane
<1>9. MoneySane'
  <2>1. ~abandoned => capital = started + recorded - 0
    BY <1>1 DEF ReplayInv, MoneySane
  <2>2. /\ capital \in Int /\ started \in Int /\ recorded \in Int /\ dayPnl = recorded
    BY ReplayFacts
  <2>3. ~abandoned' => capital' = started' + recorded' - Worth(trade)'
    BY <1>1, <1>4, <1>5, <2>1, <2>2
  <2>4. OnCourse(trade)'  BY <1>5 DEF Sane
  <2> QED  BY <1>1, <1>5, <2>2, <2>3, <2>4 DEF MoneySane
<1> QED  BY <1>7, <1>8, <1>9 DEF ReplayInv

LEMMA ReplayStep == ASSUME ReplayInv, [ReplayNext]_replayVars PROVE ReplayInv'
<1>1. CASE SkipIndex  BY <1>1, SkipIndexSane
<1>2. CASE BeginIndex  BY <1>2, BeginIndexSane
<1>3. CASE NextBar  BY <1>3, NextBarSane
<1>4. CASE DataEnds  BY <1>4, DataEndsSane
<1>5. CASE SquaredOff  BY <1>5, SquaredOffSane
<1>6. CASE NotJudged \/ WithinLimit \/ NoEntry  BY <1>6, StaySane
<1>7. CASE \E bar \in Bars(previous) : Judged(bar)  BY <1>7, JudgedSane
<1>8. CASE LimitClose  BY <1>8, LimitCloseSane
<1>9. CASE \E open \in Prices \cup {None} : Enter(open)  BY <1>9, EnterSane
<1>10. CASE UNCHANGED replayVars
  BY <1>10 DEF replayVars, barVars, bookVars, ReplayInv, ReplayTypes, PlaceSane, MoneySane,
     Holding, Worth, OnCourse, FinalTarget, Scaled, Target
<1> QED
  BY <1>1, <1>2, <1>3, <1>4, <1>5, <1>6, <1>7, <1>8, <1>9, <1>10 DEF ReplayNext

LEMMA ReplayHolds == ReplaySpec => []ReplayInv
<1>1. ReplayInit => ReplayInv  BY InitReplay
<1>2. ReplayInv /\ [ReplayNext]_replayVars => ReplayInv'  BY ReplayStep
<1> QED  BY <1>1, <1>2, PTL DEF ReplaySpec

\* The books of a replayed day agree: whatever bars it is judged on, however it
\* is scaled out, stopped, cut at the limit or squared off, a trade takes from
\* the capital what it cost and returns what its result says.
THEOREM MoneyIsConserved == ReplaySpec => []BooksBalance
<1>1. ReplayInv => BooksBalance
  <2> SUFFICES ASSUME ReplayInv PROVE BooksBalance  OBVIOUS
  <2> DEFINE cost == trade.entry * trade.left
  <2>1. ReplayTypes /\ dayPnl = recorded  BY ReplayFacts DEF ReplayInv
  <2>2. CASE Holding
    <3>1. /\ trade.open /\ trade.credit = 0 /\ trade.partial \in Int
          /\ trade.entry \in Int /\ trade.left \in Int
      BY <2>2, ReplayFacts DEF TradeRecs
    <3>2. cost \in Int  BY <3>1
    <3>3. Worth(trade) = 0 + cost - trade.partial  BY <3>1 DEF Worth
    <3>4. ~abandoned => capital = started + recorded - Worth(trade)  BY <2>2, OpenWorth
    <3>5. started \in Int /\ recorded \in Int  BY ReplayFacts
    <3> HIDE DEF cost
    <3>6. ~abandoned => capital = started + recorded + (trade.partial - cost)
      BY <3>1, <3>2, <3>3, <3>4, <3>5
    <3> QED  BY <2>1, <2>2, <3>6 DEF BooksBalance, cost
  <2>3. CASE ~Holding
    <3>1. ~abandoned => capital = started + recorded - 0
      BY <2>3 DEF ReplayInv, MoneySane
    <3>2. started \in Int /\ recorded \in Int  BY ReplayFacts
    <3>3. ~abandoned => capital = started + recorded + 0  BY <3>1, <3>2
    <3> QED  BY <2>1, <2>3, <3>3 DEF BooksBalance
  <2> QED  BY <2>2, <2>3
<1> QED  BY <1>1, ReplayHolds, PTL

-----------------------------------------------------------------------------
(* The path of the price.  A walk is known from its end: any function that *)
(* starts with the trade and goes on by AtTick is the course of the walk.  *)

\* As in TradeBookProofs: a set that has 0 and the successor of each member has
\* every natural number.
LEMMA TickInduction ==
    ASSUME NEW S, 0 \in S, \A n \in Nat : n \in S => n + 1 \in S
    PROVE  Nat \subseteq S
<1> SUFFICES ASSUME NEW k \in Nat, k \notin S PROVE FALSE
  OBVIOUS
<1> DEFINE A == {n \in 0..k : n \in S}
           B == A \ {0}
           succ == [n \in A |-> n + 1]
<1>1. IsFiniteSet(A) /\ Cardinality(A) \in Nat
  <2>1. IsFiniteSet(0..k)  BY FS_Interval
  <2>2. A \subseteq 0..k  OBVIOUS
  <2>3. IsFiniteSet(A)  BY <2>1, <2>2, FS_Subset
  <2> QED  BY <2>3, FS_CardinalityType
<1>2. 0 \in A  OBVIOUS
<1>3. IsFiniteSet(B) /\ Cardinality(B) = Cardinality(A) - 1
  BY <1>1, <1>2, FS_RemoveElement
<1>4. \A n \in A : n + 1 \in B
  OBVIOUS
<1>5. succ \in [A -> B]  BY <1>4
<1>6. \A n \in A : succ[n] = n + 1 /\ n \in Nat  OBVIOUS
<1>7. Cardinality(B) < Cardinality(A)  BY <1>1, <1>3
<1> HIDE DEF A, B, succ
<1>8. \E x, y \in A : x # y /\ succ[x] = succ[y]
  BY <1>1, <1>3, <1>5, <1>7, FS_PigeonHole
<1> QED  BY <1>8, <1>6

IsCourse(tr, from, to, g) ==
    g = [i \in 0..Between(from, to) |->
            IF i = 0 THEN tr ELSE AtTick(g[i - 1], Tick(from, to, i))]

LEMMA BetweenIs ==
    ASSUME NEW from \in Int, NEW to \in Int
    PROVE  Between(from, to) \in Nat
BY DEF Between

LEMMA WalkIs ==
    ASSUME NEW tr, NEW from \in Int, NEW to \in Int, NEW F,
           IsCourse(tr, from, to, F)
    PROVE  Walked(tr, from, to) = F[Between(from, to)]
<1> DEFINE n == Between(from, to)
           g == Course(tr, from, to)
           S == {i \in Nat : i <= n => g[i] = F[i]}
<1>1. n \in Nat  BY BetweenIs
<1>2. g = CHOOSE h : IsCourse(tr, from, to, h)  BY DEF Course, IsCourse
<1>3. IsCourse(tr, from, to, g)
  <2> HIDE DEF g
  <2> QED  BY <1>2
<1>4. ASSUME NEW h, IsCourse(tr, from, to, h)
      PROVE  /\ h[0] = tr
             /\ \A i \in 1..n : h[i] = AtTick(h[i - 1], Tick(from, to, i))
  <2>1. h = [i \in 0..n |-> IF i = 0 THEN tr ELSE AtTick(h[i - 1], Tick(from, to, i))]
    BY <1>4 DEF IsCourse
  <2> HIDE DEF n
  <2>2. \A i \in 0..n : h[i] = IF i = 0 THEN tr ELSE AtTick(h[i - 1], Tick(from, to, i))
    BY <2>1
  <2> QED  BY <1>1, <2>2
<1>5. /\ g[0] = tr /\ F[0] = tr
      /\ \A i \in 1..n : g[i] = AtTick(g[i - 1], Tick(from, to, i))
      /\ \A i \in 1..n : F[i] = AtTick(F[i - 1], Tick(from, to, i))
  <2> HIDE DEF g, n
  <2> QED  BY <1>3, <1>4
<1> HIDE DEF g, n
<1>6. 0 \in S  BY <1>5
<1>7. ASSUME NEW i \in Nat, i \in S PROVE i + 1 \in S
  <2> SUFFICES ASSUME i + 1 <= n PROVE g[i + 1] = F[i + 1]
    OBVIOUS
  <2>1. i <= n /\ i + 1 \in 1..n /\ (i + 1) - 1 = i  BY <1>1
  <2>2. g[i] = F[i]  BY <1>7, <2>1
  <2> QED  BY <1>5, <2>1, <2>2
<1>8. n \in S
  <2>1. Nat \subseteq S
    <3> HIDE DEF S
    <3> QED  BY <1>6, <1>7, TickInduction
  <2> QED  BY <1>1, <2>1
<1>9. g[n] = F[n]  BY <1>8, <1>1
<1> QED  BY <1>9 DEF Walked, g, n

\* A closed trade stays as it is.
LEMMA ClosedStays ==
    ASSUME NEW tr, ~tr.open, NEW from \in Int, NEW to \in Int
    PROVE  Walked(tr, from, to) = tr
<1> DEFINE n == Between(from, to)
           F == [i \in 0..n |-> tr]
<1>1. n \in Nat  BY BetweenIs
<1>2. \A x : AtTick(tr, x) = tr  BY DEF AtTick
<1> HIDE DEF n
<1>3. \A i \in 0..n : F[i] = IF i = 0 THEN tr ELSE AtTick(F[i - 1], Tick(from, to, i))
  <2> TAKE i \in 0..n
  <2>1. CASE i = 0  BY <2>1
  <2>2. CASE i # 0
    <3>1. i - 1 \in 0..n  BY <1>1, <2>2
    <3>2. F[i - 1] = tr /\ F[i] = tr  BY <3>1
    <3> QED  BY <1>2, <2>2, <3>2
  <2> QED  BY <2>1, <2>2
<1>4. IsCourse(tr, from, to, F)  BY <1>3 DEF IsCourse, n
<1>5. F[n] = tr  BY <1>1
<1> HIDE DEF F
<1> QED  BY <1>4, <1>5, WalkIs DEF n

-----------------------------------------------------------------------------
(* The way down from an open between the stop and the next target: nothing *)
(* happens before the stop, and there the rest is sold.                    *)

LEMMA WayDown ==
    ASSUME NEW tr \in TradeRecs, tr.open, OnCourse(tr), NEW o \in Int, NEW low \in Int,
           low <= o, tr.sl < o, o < Target(tr.hits + 1)
    PROVE  Walked(tr, o, low) = IF low <= tr.sl THEN RestSold(tr, tr.sl) ELSE tr
<1> DEFINE n == Between(o, low)
           x == RestSold(tr, tr.sl)
           F == [i \in 0..n |-> IF o - i <= tr.sl THEN x ELSE tr]
<1>1. n = o - low /\ n \in Nat  BY DEF Between
<1>2. tr.sl \in Int /\ Target(tr.hits + 1) \in Int
  <2>1. tr.hits + 1 \in 1..3  BY DEF TradeRecs
  <2> QED  BY <2>1, TargetsApart DEF TradeRecs
<1>3. ~x.open  BY RestSoldIs, <1>2
<1> HIDE DEF n, x
<1>4. \A i \in 0..n : Tick(o, low, i) = o - i  BY <1>1 DEF Tick
<1>5. \A p \in Int : AtTick(x, p) = x  BY <1>3 DEF AtTick
<1>6. \A p \in Int : p > tr.sl /\ p < o => AtTick(tr, p) = tr
  BY <1>2 DEF AtTick
<1>7. AtTick(tr, tr.sl) = x  BY <1>2 DEF AtTick, x
<1>8. \A i \in 0..n : F[i] = IF i = 0 THEN tr ELSE AtTick(F[i - 1], Tick(o, low, i))
  <2> TAKE i \in 0..n
  <2>1. CASE i = 0  BY <1>2, <2>1
  <2>2. CASE i # 0
    <3>1. /\ i - 1 \in 0..n /\ o - (i - 1) = (o - i) + 1 /\ o - i \in Int /\ o - i < o
          /\ Tick(o, low, i) = o - i
      BY <1>1, <1>4, <2>2
    <3>2. F[i - 1] = (IF (o - i) + 1 <= tr.sl THEN x ELSE tr)
      BY <3>1
    <3>3. F[i] = IF o - i <= tr.sl THEN x ELSE tr  OBVIOUS
    <3> DEFINE p == o - i
    <3> HIDE DEF p, F
    <3>4. F[i - 1] = (IF p + 1 <= tr.sl THEN x ELSE tr) /\ F[i] = (IF p <= tr.sl THEN x ELSE tr)
          /\ p \in Int /\ p < o /\ Tick(o, low, i) = p
      BY <3>1, <3>2, <3>3 DEF p
    <3>5. CASE p + 1 <= tr.sl  BY <1>2, <1>5, <2>2, <3>4, <3>5
    <3>6. CASE p = tr.sl  BY <1>2, <1>7, <2>2, <3>4, <3>6
    <3>7. CASE p > tr.sl  BY <1>2, <1>6, <2>2, <3>4, <3>7
    <3> QED  BY <1>2, <3>4, <3>5, <3>6, <3>7
  <2> QED  BY <2>1, <2>2
<1>9. IsCourse(tr, o, low, F)  BY <1>8 DEF IsCourse, n
<1>10. F[n] = IF low <= tr.sl THEN x ELSE tr  BY <1>1
<1> HIDE DEF F
<1> QED  BY <1>9, <1>10, WalkIs DEF n, x

-----------------------------------------------------------------------------
(* The way up.  At every tick the trade is as if a bar of the same open had *)
(* its high there: a tick at a target takes just that level.               *)

Seen(o, p) == [open |-> o, high |-> p, low |-> o]

LEMMA LevelSeen ==
    ASSUME NEW tr, NEW bar, NEW lv
    PROVE  TakesTarget(tr, bar, lv) = TakesTarget(tr, Seen(bar.open, bar.high), lv)
BY DEF TakesTarget, Seen

LEMMA OnlyOpenAndHigh ==
    ASSUME NEW tr, NEW bar
    PROVE  TargetsTaken(tr, bar) = TargetsTaken(tr, Seen(bar.open, bar.high))
BY LevelSeen DEF TargetsTaken

LEMMA LevelSame ==
    ASSUME NEW tr, NEW o, NEW p, NEW q, NEW lv,
           p < Target(lv) <=> q < Target(lv)
    PROVE  TakesTarget(tr, Seen(o, p), lv) = TakesTarget(tr, Seen(o, q), lv)
BY DEF TakesTarget, Seen

LEMMA LevelAbove ==
    ASSUME NEW tr, NEW o, NEW p, NEW lv, p < Target(lv)
    PROVE  TakesTarget(tr, Seen(o, p), lv) = tr
BY DEF TakesTarget, Seen

\* The stop is below the price, and moves up only to levels below it.
Clear(tr, p) == tr.open => tr.sl < p /\ tr.entry < Target(1)

LEMMA LevelClear ==
    ASSUME NEW tr, Sane(tr), NEW o \in Int, NEW p \in Int, Clear(tr, p),
           NEW lv \in 1..3, tr.open /\ tr.hits < lv - 1 => p < Target(lv)
    PROVE  LET x == TakesTarget(tr, Seen(o, p), lv)
           IN  /\ Sane(x) /\ Clear(x, p)
               /\ x.open => /\ x.hits >= tr.hits
                            /\ tr.open
                            /\ \/ x.hits = tr.hits /\ p < Target(lv)
                               \/ x.hits >= lv
<1> DEFINE bar == Seen(o, p)
           x == TakesTarget(tr, bar, lv)
           price == Larger(o, Target(lv))
<1>1. bar.open = o /\ bar.high = p /\ BarRecord(bar)  BY DEF Seen, BarRecord
<1>2. tr \in TradeRecs /\ OnCourse(tr) /\ tr.hits \in 0..2 /\ price \in Int
      /\ Target(lv) \in Int /\ tr.sl \in Int /\ tr.entry \in Int
  <2>1. Target(lv) \in Int  BY TargetsApart
  <2>2. price \in Int  BY <2>1, LargerIs
  <2> QED  BY <2>1, <2>2 DEF Sane, TradeRecs
<1>3. Sane(x) /\ (x.open => (x.hits = tr.hits /\ p < Target(lv)) \/ x.hits >= lv)
  <2> HIDE DEF bar
  <2> QED  BY <1>1, TakesTargetIs
<1>4. CASE ~tr.open \/ ~Ahead(tr, lv) \/ p < Target(lv)
  <2>1. x = tr  BY <1>1, <1>4 DEF TakesTarget
  <2> QED  BY <1>2, <1>3, <2>1
<1>5. CASE tr.open /\ Ahead(tr, lv) /\ ~(p < Target(lv))
  <2>1. tr.open /\ lv = tr.hits + 1 /\ lv <= FinalTarget
    BY <1>2, <1>5 DEF Ahead
  <2>2. CASE lv = FinalTarget
    <3>1. x = RestSold(tr, price)  BY <1>1, <1>5, <2>2 DEF TakesTarget
    <3>2. ~x.open  BY <1>2, <2>1, <3>1, RestSoldIs
    <3> QED  BY <1>3, <3>2 DEF Clear
  <2>3. CASE lv # FinalTarget
    <3>1. x = LevelTaken(tr, lv, price)  BY <1>1, <1>5, <2>3 DEF TakesTarget
    <3>2. lv < FinalTarget  BY <2>1, <2>3, TargetsApart
    <3>3. /\ x.open /\ x.hits = lv /\ x.entry = tr.entry /\ x.sl = StopAfter(tr, lv)
      BY <1>2, <2>1, <3>1, <3>2, LevelTakenIs
    <3>4. lv = 1 \/ lv = 2  BY <1>2, <3>2, TargetsApart
    <3>5. tr.entry < Target(1) /\ Target(lv) <= p  BY <1>2, <1>5, <2>1 DEF Clear
    <3>6. x.sl < p
      <4>1. CASE lv = 1  BY <1>2, <3>3, <3>5, <4>1, TargetsApart DEF StopAfter
      <4>2. CASE lv = 2  BY <1>2, <3>3, <3>5, <4>2, TargetsApart DEF StopAfter
      <4> QED  BY <3>4, <4>1, <4>2
    <3>7. Clear(x, p)  BY <3>3, <3>5, <3>6 DEF Clear
    <3>8. x.hits >= tr.hits  BY <1>2, <2>1, <3>3
    <3> QED  BY <1>3, <2>1, <3>7, <3>8
  <2> QED  BY <2>2, <2>3
<1> QED  BY <1>4, <1>5

\* After the levels up to the high are taken.
LEMMA TakenClear ==
    ASSUME NEW tr, Sane(tr), NEW o \in Int, NEW p \in Int, Clear(tr, p)
    PROVE  LET x == TargetsTaken(tr, Seen(o, p))
           IN  /\ Sane(x) /\ Clear(x, p)
               /\ x.open => /\ tr.open /\ x.hits >= tr.hits
                            /\ \A l \in 1..3 : Target(l) <= p => x.hits >= l
<1> DEFINE x == TakesTarget(tr, Seen(o, p), 1)
           y == TakesTarget(x, Seen(o, p), 2)
           z == TakesTarget(y, Seen(o, p), 3)
<1>1. \A tr1 : Sane(tr1) => tr1.hits \in 0..2  BY DEF Sane, TradeRecs
<1>2. /\ Sane(x) /\ Clear(x, p)
      /\ x.open => tr.open /\ x.hits >= tr.hits /\ (x.hits >= 1 \/ p < Target(1))
  <2>1. tr.open /\ tr.hits < 1 - 1 => p < Target(1)  BY <1>1
  <2> QED  BY <1>1, <2>1, LevelClear
<1> HIDE DEF x
<1>3. /\ Sane(y) /\ Clear(y, p)
      /\ y.open => x.open /\ y.hits >= x.hits /\ (y.hits >= 2 \/ p < Target(2))
  <2>1. x.open /\ x.hits < 2 - 1 => p < Target(2)  BY <1>1, <1>2, TargetsApart
  <2>2. 2 \in 1..3  OBVIOUS
  <2> QED  BY <1>2, <2>1, <2>2, LevelClear
<1> HIDE DEF y
<1>4. /\ Sane(z) /\ Clear(z, p)
      /\ z.open => y.open /\ z.hits >= y.hits /\ (z.hits >= 3 \/ p < Target(3))
  <2>1. y.open /\ y.hits < 3 - 1 => p < Target(3)  BY <1>1, <1>2, <1>3, TargetsApart
  <2>2. 3 \in 1..3  OBVIOUS
  <2> QED  BY <1>3, <2>1, <2>2, LevelClear
<1> HIDE DEF z
<1>5. TargetsTaken(tr, Seen(o, p)) = z  BY DEF TargetsTaken, x, y, z
<1>6. x.hits \in 0..2 /\ y.hits \in 0..2 /\ z.hits \in 0..2 /\ tr.hits \in 0..2
  BY <1>1, <1>2, <1>3, <1>4
<1>7. z.open => /\ tr.open /\ z.hits >= tr.hits
                /\ \A l \in 1..3 : Target(l) <= p => z.hits >= l
  <2> SUFFICES ASSUME z.open
               PROVE  /\ tr.open /\ z.hits >= tr.hits
                      /\ \A l \in 1..3 : Target(l) <= p => z.hits >= l
    OBVIOUS
  <2>1. x.open /\ y.open /\ tr.open /\ z.hits >= tr.hits
        /\ z.hits >= x.hits /\ z.hits >= y.hits
    BY <1>2, <1>3, <1>4, <1>6
  <2>2. Target(1) <= p => z.hits >= 1  BY <1>2, <1>6, <2>1, TargetsApart
  <2>3. Target(2) <= p => z.hits >= 2  BY <1>3, <1>6, <2>1, TargetsApart
  <2>4. Target(3) <= p => z.hits >= 3  BY <1>4, <1>6, <2>1, TargetsApart
  <2>5. \A l \in 1..3 : l = 1 \/ l = 2 \/ l = 3  OBVIOUS
  <2> QED  BY <2>1, <2>2, <2>3, <2>4, <2>5
<1> QED  BY <1>4, <1>5, <1>7

\* A tick at a target is the taking of that level, by a trade that has taken the
\* levels before it.
LEMMA TickTakes ==
    ASSUME NEW tr, Sane(tr), NEW o \in Int, NEW lv \in 1..3, NEW q \in Int,
           q = Target(lv), Clear(tr, q), tr.open => tr.hits >= lv - 1,
           tr.open /\ tr.hits = lv - 1 => o <= q
    PROVE  TakesTarget(tr, Seen(o, q), lv) = AtTick(tr, q)
<1>1. /\ tr.hits \in 0..2 /\ tr.sl \in Int
      /\ tr.open => tr.hits < FinalTarget /\ tr.sl < q
  BY DEF Sane, TradeRecs, OnCourse, Clear
<1>2. Seen(o, q).open = o /\ Seen(o, q).high = q  BY DEF Seen
<1>3. CASE ~tr.open  BY <1>3 DEF TakesTarget, AtTick
<1>4. CASE tr.open /\ tr.hits >= lv
  <2>1. ~Ahead(tr, lv)  BY <1>1, <1>4 DEF Ahead
  <2>2. TakesTarget(tr, Seen(o, q), lv) = tr  BY <2>1 DEF TakesTarget
  <2>3. Target(lv) # Target(tr.hits + 1)
    <3>1. tr.hits + 1 \in 1..3 /\ lv < tr.hits + 1  BY <1>1, <1>4
    <3>2. \A a \in 1..3 : \A b \in 1..3 : a < b => Target(a) # Target(b)
      <4>1. \A a \in 1..3 : a = 1 \/ a = 2 \/ a = 3  OBVIOUS
      <4> QED  BY <4>1, TargetsApart
    <3> QED  BY <3>1, <3>2
  <2>4. ~(q <= tr.sl)  BY <1>1, <1>4
  <2>5. AtTick(tr, q) = tr  BY <1>4, <2>3, <2>4 DEF AtTick
  <2> QED  BY <2>2, <2>5
<1>5. CASE tr.open /\ tr.hits = lv - 1
  <2>1. tr.hits + 1 = lv /\ tr.hits # 3 /\ ~(q <= tr.sl)  BY <1>1, <1>5
  <2>2. Ahead(tr, lv)  BY <1>1, <1>5, <2>1, TargetsApart DEF Ahead
  <2>3. Larger(o, q) = q  BY <1>5 DEF Larger
  <2>4. AtTick(tr, q) = IF lv = FinalTarget THEN RestSold(tr, q)
                        ELSE LevelTaken(tr, lv, q)
    BY <1>5, <2>1 DEF AtTick
  <2>5. TakesTarget(tr, Seen(o, q), lv)
          = IF lv = FinalTarget THEN RestSold(tr, q) ELSE LevelTaken(tr, lv, q)
    BY <1>2, <1>5, <2>2, <2>3 DEF TakesTarget
  <2> QED  BY <2>4, <2>5
<1> QED  BY <1>1, <1>3, <1>4, <1>5

LEMMA TickSeen ==
    ASSUME NEW tr, Sane(tr), tr.open, NEW o \in Int, NEW p \in Int, Clear(tr, p),
           o < Target(tr.hits + 1)
    PROVE  TargetsTaken(tr, Seen(o, p + 1)) = AtTick(TargetsTaken(tr, Seen(o, p)), p + 1)
<1> DEFINE q == p + 1
           x(r) == TakesTarget(tr, Seen(o, r), 1)
           y(r) == TakesTarget(x(r), Seen(o, r), 2)
           T(r) == TargetsTaken(tr, Seen(o, r))
           now == T(p)
<1>1. q \in Int /\ q = p + 1  OBVIOUS
<1>2. \A r : T(r) = TakesTarget(y(r), Seen(o, r), 3)  BY DEF TargetsTaken
<1>3. /\ Sane(now) /\ Clear(now, p)
      /\ now.open => /\ tr.open /\ now.hits >= tr.hits
                     /\ \A l \in 1..3 : Target(l) <= p => now.hits >= l
  BY TakenClear
<1>4. /\ tr.hits \in 0..2 /\ now.hits \in 0..2 /\ now.sl \in Int
      /\ now.open => now.sl < p /\ now.entry < Target(1)
  BY <1>3 DEF Sane, TradeRecs, Clear
<1>5. Clear(now, q)
  <2> HIDE DEF now
  <2> QED  BY <1>1, <1>4 DEF Clear
<1>6. /\ Target(1) \in Int /\ Target(2) \in Int /\ Target(3) \in Int
      /\ Target(1) < Target(2) /\ Target(2) < Target(3)
  BY TargetsApart
<1>7. ASSUME NEW m \in 1..3, q = Target(m), T(q) = TakesTarget(now, Seen(o, q), m)
      PROVE  T(q) = AtTick(now, q)
  <2>1. now.open => now.hits >= m - 1
    <3>1. CASE m = 1  BY <1>4, <3>1
    <3>2. CASE m # 1
      <4>1. m - 1 \in 1..3 /\ (m = 2 \/ m = 3)  BY <3>2
      <4>2. Target(m - 1) <= p  BY <1>1, <1>6, <1>7, <4>1
      <4> HIDE DEF now
      <4> QED  BY <1>3, <4>1, <4>2
    <3> QED  BY <3>1, <3>2
  <2>2. now.open /\ now.hits = m - 1 => o <= q
    <3> SUFFICES ASSUME now.open, now.hits = m - 1 PROVE o <= q
      OBVIOUS
    <3> HIDE DEF now
    <3>1. tr.hits + 1 <= m /\ tr.hits + 1 \in 1..3  BY <1>3, <1>4
    <3>2. \A a \in 1..3 : a = 1 \/ a = 2 \/ a = 3  OBVIOUS
    <3>3. Target(tr.hits + 1) <= Target(m)  BY <1>6, <3>1, <3>2
    <3>4. Target(tr.hits + 1) \in Int  BY <1>6, <3>1, <3>2
    <3> QED  BY <1>1, <1>7, <3>3, <3>4
  <2> HIDE DEF now, T, q
  <2>3. TakesTarget(now, Seen(o, q), m) = AtTick(now, q)
    BY <1>1, <1>3, <1>5, <1>7, <2>1, <2>2, TickTakes
  <2> QED  BY <1>7, <2>3
<1>8. CASE q = Target(1)
  <2>1. q < Target(2) /\ q < Target(3) /\ p < Target(1) /\ p < Target(2) /\ p < Target(3)
    BY <1>1, <1>6, <1>8
  <2>2. T(q) = x(q)
    <3> HIDE DEF q
    <3> QED  BY <1>2, <2>1, LevelAbove
  <2>3. now = tr
    <3>1. x(p) = tr  BY <2>1, LevelAbove
    <3>2. y(p) = tr  BY <2>1, <3>1, LevelAbove
    <3> QED  BY <1>2, <2>1, <3>2, LevelAbove
  <2>4. T(q) = TakesTarget(now, Seen(o, q), 1)
    <3> HIDE DEF T, now
    <3> QED  BY <2>2, <2>3
  <2> QED  BY <1>7, <1>8, <2>4
<1>9. CASE q = Target(2)
  <2>1. q < Target(3) /\ p < Target(2) /\ p < Target(3) /\ ~(p < Target(1)) /\ ~(q < Target(1))
    BY <1>1, <1>6, <1>9
  <2>2. T(q) = y(q)
    <3> HIDE DEF q, y
    <3> QED  BY <1>2, <2>1, LevelAbove
  <2>3. x(q) = x(p)
    <3> HIDE DEF q
    <3> QED  BY <2>1, LevelSame
  <2>4. now = x(p)
    <3> HIDE DEF x
    <3>1. y(p) = x(p)  BY <2>1, LevelAbove
    <3> HIDE DEF y
    <3> QED  BY <1>2, <2>1, <3>1, LevelAbove
  <2>5. T(q) = TakesTarget(now, Seen(o, q), 2)
    <3> HIDE DEF T, now, x
    <3> QED  BY <2>2, <2>3, <2>4
  <2> QED  BY <1>7, <1>9, <2>5
<1>10. CASE q = Target(3)
  <2>1. /\ p < Target(3) /\ ~(p < Target(1)) /\ ~(q < Target(1))
        /\ ~(p < Target(2)) /\ ~(q < Target(2))
    BY <1>1, <1>6, <1>10
  <2>2. x(q) = x(p)
    <3> HIDE DEF q
    <3> QED  BY <2>1, LevelSame
  <2>3. y(q) = y(p)
    <3> HIDE DEF q, x
    <3> QED  BY <2>1, <2>2, LevelSame
  <2>4. now = y(p)
    <3> HIDE DEF y
    <3> QED  BY <1>2, <2>1, LevelAbove
  <2>5. T(q) = TakesTarget(y(q), Seen(o, q), 3)
    <3> HIDE DEF T, y, q
    <3> QED  BY <1>2
  <2>6. T(q) = TakesTarget(now, Seen(o, q), 3)
    <3> HIDE DEF T, now, y
    <3> QED  BY <2>3, <2>4, <2>5
  <2> QED  BY <1>7, <1>10, <2>6
<1>11. CASE q # Target(1) /\ q # Target(2) /\ q # Target(3)
  <2>1. /\ p < Target(1) <=> q < Target(1)
        /\ p < Target(2) <=> q < Target(2)
        /\ p < Target(3) <=> q < Target(3)
    BY <1>1, <1>6, <1>11
  <2>2. x(q) = x(p)
    <3> HIDE DEF q
    <3> QED  BY <2>1, LevelSame
  <2>3. y(q) = y(p)
    <3> HIDE DEF q, x
    <3> QED  BY <2>1, <2>2, LevelSame
  <2>4. T(q) = now
    <3> HIDE DEF q, y
    <3> QED  BY <1>2, <2>1, <2>3, LevelSame
  <2>5. AtTick(now, q) = now
    <3> HIDE DEF now
    <3>1. now.open => ~(q <= now.sl)  BY <1>1, <1>4
    <3>2. now.hits + 1 \in 1..3  BY <1>4
    <3>3. \A a \in 1..3 : a = 1 \/ a = 2 \/ a = 3  OBVIOUS
    <3>4. q # Target(now.hits + 1)  BY <1>11, <3>2, <3>3
    <3> HIDE DEF q
    <3> QED  BY <3>1, <3>4 DEF AtTick
  <2> QED  BY <2>4, <2>5
<1> QED  BY <1>8, <1>9, <1>10, <1>11

LEMMA WayUp ==
    ASSUME NEW tr, Sane(tr), tr.open, NEW o \in Int, o < Target(tr.hits + 1),
           NEW from \in Int, NEW bar, bar.open = o, bar.high \in Int,
           from <= o, o <= bar.high, Clear(tr, from)
    PROVE  Walked(tr, from, bar.high) = TargetsTaken(tr, bar)
<1> DEFINE high == bar.high
           n == Between(from, high)
           T(p) == TargetsTaken(tr, Seen(o, p))
           F == [i \in 0..n |-> T(from + i)]
<1>1. n = high - from /\ n \in Nat /\ high \in Int /\ from <= high  BY DEF Between
<1>2. tr.hits \in 0..2 /\ tr.sl \in Int /\ tr.sl < from /\ tr.entry < Target(1)
  BY DEF Sane, TradeRecs, Clear
<1>3. T(from) = tr
  <2>1. \A l \in 1..3 : l > tr.hits => from < Target(l)
    <3>1. \A a \in 1..3 : a = 1 \/ a = 2 \/ a = 3  OBVIOUS
    <3>2. tr.hits + 1 \in 1..3  BY <1>2
    <3>3. \A l \in 1..3 : l > tr.hits => Target(tr.hits + 1) <= Target(l)
      BY <1>2, <3>1, <3>2, TargetsApart
    <3>4. \A l \in 1..3 : Target(l) \in Int  BY TargetsApart
    <3> QED  BY <3>2, <3>3, <3>4
  <2>2. \A l \in 1..3 : TakesTarget(tr, Seen(o, from), l) = tr
    <3> TAKE l \in 1..3
    <3>1. CASE l > tr.hits  BY <2>1, <3>1, LevelAbove
    <3>2. CASE ~(l > tr.hits)
      <4>1. ~Ahead(tr, l)  BY <1>2, <3>2 DEF Ahead
      <4> QED  BY <4>1 DEF TakesTarget
    <3> QED  BY <3>1, <3>2
  <2>3. /\ TakesTarget(tr, Seen(o, from), 1) = tr
        /\ TakesTarget(tr, Seen(o, from), 2) = tr
        /\ TakesTarget(tr, Seen(o, from), 3) = tr
    BY <2>2
  <2> QED  BY <2>3 DEF TargetsTaken
<1>4. ASSUME NEW p \in Int, p >= from PROVE T(p + 1) = AtTick(T(p), p + 1)
  <2>1. Clear(tr, p)  BY <1>2, <1>4 DEF Clear
  <2> QED  BY <2>1, TickSeen
<1>5. T(high) = TargetsTaken(tr, bar)
  <2> QED  BY OnlyOpenAndHigh
<1> HIDE DEF T, high, n
<1>6. \A i \in 0..n : Tick(from, high, i) = from + i  BY <1>1 DEF Tick
<1>7. \A i \in 0..n : F[i] = IF i = 0 THEN tr ELSE AtTick(F[i - 1], Tick(from, high, i))
  <2> TAKE i \in 0..n
  <2>1. CASE i = 0
    <3>1. from + i = from  BY <2>1
    <3> QED  BY <1>3, <2>1, <3>1
  <2>2. CASE i # 0
    <3> DEFINE p == from + (i - 1)
    <3>1. i - 1 \in 0..n /\ p \in Int /\ p >= from /\ from + i = p + 1
      BY <1>1, <2>2
    <3>2. F[i - 1] = T(p) /\ F[i] = T(from + i)  BY <3>1
    <3> HIDE DEF p, F
    <3> QED  BY <1>4, <1>6, <2>2, <3>1, <3>2
  <2> QED  BY <2>1, <2>2
<1>8. IsCourse(tr, from, high, F)  BY <1>7 DEF IsCourse, n
<1>9. F[n] = T(high)
  <2>1. n \in 0..n /\ from + n = high  BY <1>1
  <2> QED  BY <2>1
<1> HIDE DEF F
<1>10. Walked(tr, from, high) = F[n]
  BY <1>1, <1>8, WalkIs DEF n
<1> QED  BY <1>5, <1>9, <1>10 DEF high

-----------------------------------------------------------------------------
(* The replay of a bar is the end of one of the two walks.                 *)

LEMMA BarIsWalked ==
    ASSUME NEW tr, Sane(tr), tr.open, NEW b, BarRecord(b), b.low <= b.open, b.open <= b.high,
           tr.sl < b.open, b.open < Target(tr.hits + 1), tr.entry < Target(1)
    PROVE  \/ AfterBar(tr, b) = Executed(tr, b.open, b.low, b.high)
           \/ AfterBar(tr, b) = Executed(tr, b.open, b.high, b.low)
<1>1. /\ tr \in TradeRecs /\ OnCourse(tr) /\ tr.hits \in 0..2 /\ tr.sl \in Int
      /\ tr.entry \in Int
      /\ b.open \in Int /\ b.low \in Int /\ b.high \in Int
  BY DEF Sane, TradeRecs, BarRecord
<1>2. CASE ~StopTouched(tr, b)
  <2>1. tr.sl < b.low  BY <1>1, <1>2 DEF StopTouched
  <2>2. Walked(tr, b.open, b.low) = tr  BY <1>1, <2>1, WayDown
  <2>3. Clear(tr, b.low)  BY <2>1 DEF Clear
  <2>4. Walked(tr, b.low, b.high) = TargetsTaken(tr, b)  BY <1>1, <2>3, WayUp
  <2>5. AfterBar(tr, b) = TargetsTaken(tr, b)  BY <1>2 DEF AfterBar
  <2> QED  BY <2>2, <2>4, <2>5 DEF Executed
<1>3. CASE StopTouched(tr, b) /\ ~FinalFirst(tr, b)
  <2>1. Walked(tr, b.open, b.low) = RestSold(tr, tr.sl)
    BY <1>1, <1>3, WayDown DEF StopTouched
  <2>2. Smaller(b.open, tr.sl) = tr.sl  BY <1>1 DEF Smaller
  <2>3. AfterBar(tr, b) = RestSold(tr, tr.sl)  BY <1>3, <2>2 DEF AfterBar
  <2>4. ~RestSold(tr, tr.sl).open  BY <1>1, RestSoldIs
  <2>5. Walked(RestSold(tr, tr.sl), b.low, b.high) = RestSold(tr, tr.sl)
    BY <1>1, <2>4, ClosedStays
  <2> QED  BY <2>1, <2>3, <2>5 DEF Executed
<1>4. CASE StopTouched(tr, b) /\ FinalFirst(tr, b)
  \* The stop has been trailed twice, so the next target is the last.
  <2>1. tr.hits = 2 /\ FinalTarget = 3 /\ b.high >= Target(3)
    <3>1. tr.sl > tr.entry /\ b.high >= Target(FinalTarget)  BY <1>4 DEF FinalFirst
    <3>2. tr.hits = 2 /\ tr.hits < FinalTarget  BY <1>1, <3>1 DEF OnCourse
    <3> QED  BY <1>1, <3>1, <3>2, TargetsApart
  <2>2. Target(3) \in Int /\ b.open < Target(3) /\ Larger(b.open, Target(3)) = Target(3)
    BY <1>1, <2>1, TargetsApart DEF Larger
  <2>3. AfterBar(tr, b) = RestSold(tr, Target(3))
    BY <1>4, <2>1, <2>2 DEF AfterBar
  <2>4. TargetsTaken(tr, b) = RestSold(tr, Target(3))
    <3>1. ~Ahead(tr, 1) /\ ~Ahead(tr, 2) /\ Ahead(tr, 3)  BY <2>1 DEF Ahead
    <3>2. TakesTarget(tr, b, 1) = tr /\ TakesTarget(tr, b, 2) = tr
      BY <3>1 DEF TakesTarget
    <3>3. ~(b.high < Target(3))  BY <1>1, <2>1, <2>2
    <3>4. TakesTarget(tr, b, 3) = RestSold(tr, Target(3))
      BY <2>1, <2>2, <3>1, <3>3 DEF TakesTarget
    <3> QED  BY <3>2, <3>4 DEF TargetsTaken
  <2>5. Clear(tr, b.open)  BY DEF Clear
  <2>6. Walked(tr, b.open, b.high) = TargetsTaken(tr, b)  BY <1>1, <2>5, WayUp
  <2>7. ~RestSold(tr, Target(3)).open  BY <1>1, <2>2, RestSoldIs
  <2>8. Walked(RestSold(tr, Target(3)), b.high, b.low) = RestSold(tr, Target(3))
    BY <1>1, <2>7, ClosedStays
  <2> QED  BY <2>3, <2>4, <2>6, <2>8 DEF Executed
<1> QED  BY <1>2, <1>3, <1>4

\* On a bar that opens between stop and next target, the replay of an open trade
\* is what resting orders give as the price goes from the open to one extreme and
\* then to the other: by whatever targets the trade has taken, however it is
\* scaled out and wherever its stop has been moved.
THEOREM FillsArePossible == ReplaySpec => []FillsPossible
<1>1. ReplayInv => FillsPossible
  <2> SUFFICES ASSUME ReplayInv, Holding, NEW b \in Bars(previous),
                      trade.sl < b.open, b.open < Target(trade.hits + 1),
                      trade.entry < Target(1)
               PROVE  AfterBar(trade, b) \in {Executed(trade, b.open, b.low, b.high),
                                              Executed(trade, b.open, b.high, b.low)}
    BY DEF FillsPossible
  <2>1. Sane(trade) /\ trade.open /\ previous \in Prices \cup {None}  BY ReplayFacts
  <2>2. BarRecord(b) /\ b.low <= b.open /\ b.open <= b.high
    <3>1. /\ b.open = previous /\ b.high \in Prices /\ b.low \in Prices
          /\ b.low <= b.open /\ b.open <= b.high
      BY DEF Bars
    <3>2. Prices \subseteq Int /\ None \in Int  BY ReplayNumbers
    <3>3. b.open \in Int /\ b.high \in Int /\ b.low \in Int  BY <2>1, <3>1, <3>2
    <3> QED  BY <3>1, <3>3 DEF BarRecord
  <2>3. \/ AfterBar(trade, b) = Executed(trade, b.open, b.low, b.high)
        \/ AfterBar(trade, b) = Executed(trade, b.open, b.high, b.low)
    BY <2>1, <2>2, BarIsWalked
  <2> QED  BY <2>3
<1> QED  BY <1>1, ReplayHolds, PTL

=============================================================================
