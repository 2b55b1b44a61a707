--------------------------- MODULE SelectionProofs ---------------------------
(***************************************************************************)
(* Proofs about what is traded: the alerts of a scan that become entries   *)
(* (Portfolio), for every choice of underlyings, strikes and limits, and   *)
(* the indices and contracts of a day (ExpiryCalendar), for every list of  *)
(* holidays that keeps the exchanges closed for four days at most.         *)
(*                                                                         *)
(* The inductive invariant of the admission adds to its properties what a  *)
(* scan in progress knows: an underlying already considered has no         *)
(* candidates left, and a direction once refused is full for the rest of   *)
(* the scan, because entries are only added while it lasts.                *)
(*                                                                         *)
(* The properties of the walk over the days follow from what holds of each *)
(* day.  They rest on the arithmetic of months (every day is in exactly    *)
(* one, of 28 to 31 days), on the search for a trading day (it finds the   *)
(* latest, and keeps the order of days) and on the monthly rules: they     *)
(* change on the first of a month, so that one rule holds throughout each. *)
(***************************************************************************)
EXTENDS Portfolio, ExpiryCalendar, FiniteSetTheorems, WellFoundedInduction, TLAPS

SameType(d) == {s \in pending : s.opt_type = d}

\* The underlyings of S come before those that are still to be considered.
Before(S) == \A s \in S, c \in candidates :
                Priority[s.underlying] < Priority[c.underlying]

ScanOrder ==
    /\ candidates # {} \/ placed # {} \/ correlated # {} => scanning
    /\ Before(placed) /\ Before(correlated)

\* A direction that was refused is full.
RefusedIsFull ==
    \A r \in correlated : Cardinality(SameType(r.opt_type)) >= MaxCorrelated

\* The breaker is the memory of the count, and no scan runs while it is on.
BreakerMatches == (breaker <=> losses = MaxLosses) /\ (scanning => ~breaker)

IInv ==
    /\ TypeOK /\ IsFiniteSet(pending)
    /\ ScanOrder /\ RefusedIsFull /\ BreakerMatches
    /\ OnePerIndex /\ PendingWithinLimit /\ SlotsByPriority /\ BackedOrWarned

USE PortfolioAssumption

-----------------------------------------------------------------------------
(* Lemmas.                                                                 *)

\* The priorities of distinct underlyings are distinct numbers.
LEMMA PriorityOrder ==
    ASSUME NEW s \in Symbols, NEW t \in Symbols
    PROVE  /\ s.underlying \in Indices /\ s.opt_type \in OptTypes
           /\ Priority[s.underlying] \in Nat
           /\ Priority[s.underlying] = Priority[t.underlying] =>
                s.underlying = t.underlying
BY DEF Symbols, Priority

LEMMA SameTypeFinite ==
    ASSUME IsFiniteSet(pending), NEW d
    PROVE  IsFiniteSet(SameType(d)) /\ Cardinality(SameType(d)) \in Nat
<1>1. SameType(d) \in SUBSET pending  BY DEF SameType
<1> QED  BY <1>1, FS_Subset, FS_CardinalityType

\* With no pending entry on the candidate's own underlying, the limit is over
\* all the entries of its direction: active trades never count.
LEMMA LimitCounts ==
    ASSUME TypeOK, IsFiniteSet(pending), NEW i, NEW s \in Symbols, Best(i, s)
    PROVE  AtCorrelationLimit(s) <=> Cardinality(SameType(s.opt_type)) >= MaxCorrelated
<1> DEFINE P == {p \in {p \in pending : p.underlying # s.underlying} : p.opt_type = s.opt_type}
           A == {t \in {t \in active : t.underlying # s.underlying} :
                    TradeOptType(t) = s.opt_type}
<1>1. s.underlying = i  BY DEF Best, On
<1>2. \A p \in pending : p.underlying # i  BY DEF Best, Busy, On
<1>3. P = SameType(s.opt_type)  BY <1>1, <1>2 DEF SameType
<1>4. s.opt_type \in {"CE", "PE"}  BY DEF Symbols
<1>5. A = {}  BY <1>4 DEF TradeOptType
<1>6. AtCorrelationLimit(s) <=> Cardinality(A) + Cardinality(P) >= MaxCorrelated
  BY DEF AtCorrelationLimit
<1>7. Cardinality(A) = 0  BY <1>5, FS_EmptySet
<1>8. Cardinality(P) \in Nat  BY <1>3, SameTypeFinite
<1> HIDE DEF P, A
<1> QED  BY <1>3, <1>6, <1>7, <1>8

\* Entries that leave do not take a direction over the limit.
LEMMA FewerPending ==
    ASSUME IInv, pending' \subseteq pending
    PROVE  IsFiniteSet(pending') /\ PendingWithinLimit'
<1>1. IsFiniteSet(pending')  BY FS_Subset DEF IInv
<1>2. ASSUME NEW d \in OptTypes
      PROVE  Cardinality({s \in pending' : s.opt_type = d}) <= MaxCorrelated
  <2> DEFINE S == {s \in pending' : s.opt_type = d}
  <2>1. S \in SUBSET SameType(d)  BY DEF SameType
  <2>2. IsFiniteSet(SameType(d)) /\ Cardinality(SameType(d)) \in Nat
    BY SameTypeFinite DEF IInv
  <2>3. IsFiniteSet(S) /\ Cardinality(S) <= Cardinality(SameType(d))
    BY <2>1, <2>2, FS_Subset
  <2>4. Cardinality(SameType(d)) <= MaxCorrelated
    BY DEF IInv, PendingWithinLimit, SameType
  <2>5. Cardinality(S) \in Nat  BY <2>3, FS_CardinalityType
  <2> QED  BY <2>2, <2>3, <2>4, <2>5
<1> QED  BY <1>1, <1>2 DEF PendingWithinLimit

LEMMA InitIInv == ASSUME Init PROVE IInv
<1>1. /\ TypeOK /\ BreakerMatches /\ OnePerIndex /\ BackedOrWarned
      /\ ScanOrder /\ RefusedIsFull /\ SlotsByPriority
  <2>1. losses \in 0..MaxLosses /\ losses # MaxLosses  BY DEF Init
  <2> HIDE PortfolioAssumption
  <2>2. TypeOK /\ BreakerMatches  BY <2>1 DEF Init, TypeOK, BreakerMatches
  <2>3. OnePerIndex /\ BackedOrWarned  BY DEF Init, OnePerIndex, BackedOrWarned
  <2>4. ScanOrder  BY DEF Init, ScanOrder, Before
  <2>5. RefusedIsFull /\ SlotsByPriority  BY DEF Init, RefusedIsFull, SlotsByPriority
  <2> QED  BY <2>2, <2>3, <2>4, <2>5
<1>2. IsFiniteSet(pending)  BY FS_EmptySet DEF Init
<1>3. PendingWithinLimit
  <2>1. \A d : {s \in pending : s.opt_type = d} = {}  BY DEF Init
  <2> QED  BY <2>1, FS_EmptySet DEF PendingWithinLimit
<1> QED  BY <1>1, <1>2, <1>3 DEF IInv

-----------------------------------------------------------------------------
(* The scan.                                                               *)

LEMMA ScanIInv == ASSUME IInv, Scan PROVE IInv'
<1> USE DEF IInv, Scan, riskVars
<1>1. TypeOK'  BY DEF TypeOK
<1>2. ScanOrder'  BY DEF ScanOrder, Before
<1>3. RefusedIsFull'  BY DEF RefusedIsFull, ScanOrder
<1>4. SlotsByPriority' /\ OnePerIndex' /\ BackedOrWarned'
  BY DEF SlotsByPriority, OnePerIndex, BackedOrWarned
<1>5. BreakerMatches'  BY DEF BreakerMatches
<1>6. IsFiniteSet(pending') /\ PendingWithinLimit'  BY FewerPending
<1> QED  BY <1>1, <1>2, <1>3, <1>4, <1>5, <1>6

LEMMA EndScanIInv == ASSUME IInv, EndScan PROVE IInv'
<1> USE DEF IInv, EndScan, riskVars
<1>1. TypeOK' /\ ScanOrder'  BY DEF TypeOK, ScanOrder, Before
<1>2. RefusedIsFull' /\ SlotsByPriority'  BY DEF RefusedIsFull, SlotsByPriority
<1>3. OnePerIndex' /\ BackedOrWarned'  BY DEF OnePerIndex, BackedOrWarned
<1>4. BreakerMatches'  BY DEF BreakerMatches
<1>5. IsFiniteSet(pending') /\ PendingWithinLimit'  BY FewerPending
<1> QED  BY <1>1, <1>2, <1>3, <1>4, <1>5

\* When the underlying i has been considered, it comes before those that are
\* left, and so does a symbol of it.
LEMMA ConsideredOrder ==
    ASSUME IInv, NEW i \in Indices, Turn(i), Considered(i),
           NEW s \in Symbols, s.underlying = i
    PROVE  /\ candidates' \subseteq candidates /\ scanning /\ scanning'
           /\ \A c \in candidates' : Priority[s.underlying] < Priority[c.underlying]
           /\ \A r \in placed \cup correlated :
                Priority[r.underlying] < Priority[s.underlying]
<1>1. candidates # {}  BY DEF Turn, On
<1>2. candidates' \subseteq candidates /\ scanning /\ scanning'
  BY <1>1 DEF Considered, IInv, ScanOrder
<1>3. ASSUME NEW c \in candidates'
      PROVE  Priority[s.underlying] < Priority[c.underlying]
  <2>1. c \in candidates /\ c.underlying # i  BY <1>3 DEF Considered, On
  <2>2. c \in Symbols  BY <2>1 DEF IInv, TypeOK
  <2>3. Priority[i] <= Priority[c.underlying]  BY <2>1 DEF Turn
  <2>4. /\ Priority[s.underlying] \in Nat /\ Priority[c.underlying] \in Nat
        /\ Priority[s.underlying] # Priority[c.underlying]
    BY <2>1, <2>2, PriorityOrder
  <2> QED  BY <2>3, <2>4
<1>4. ASSUME NEW r \in placed \cup correlated
      PROVE  Priority[r.underlying] < Priority[s.underlying]
  <2>1. PICK c \in candidates : c.underlying = i  BY DEF Turn, On
  <2> QED  BY <2>1 DEF IInv, ScanOrder, Before
<1> QED  BY <1>2, <1>3, <1>4

\* A step of the scan that places nothing and refuses nothing: only alerts
\* that no entry needs are consumed.
LEMMA PassOver ==
    ASSUME IInv, NEW i \in Indices, Turn(i), Considered(i),
           UNCHANGED <<pending, active, placed, correlated, riskVars, warned, saveFailed>>,
           alerts' \subseteq alerts, alerts \ alerts' \subseteq On(i, alerts),
           alerts' # alerts => On(i, pending) = {}
    PROVE  IInv'
<1> USE DEF IInv, riskVars
<1>1. PICK c \in candidates : c.underlying = i  BY DEF Turn, On
<1>2. c \in Symbols  BY <1>1 DEF TypeOK
<1>3. candidates' \subseteq candidates /\ scanning /\ scanning'
  BY <1>1, <1>2, ConsideredOrder
<1>4. TypeOK'  BY <1>3 DEF TypeOK, Considered, On
<1>5. ScanOrder'  BY <1>3 DEF ScanOrder, Before
<1>6. RefusedIsFull'  BY DEF RefusedIsFull, SameType
<1>7. SlotsByPriority' /\ OnePerIndex'  BY DEF SlotsByPriority, OnePerIndex
<1>8. BackedOrWarned'  BY DEF BackedOrWarned, On
<1>9. BreakerMatches'  BY <1>3 DEF BreakerMatches
<1>10. IsFiniteSet(pending') /\ PendingWithinLimit'  BY FewerPending
<1> QED  BY <1>4, <1>5, <1>6, <1>7, <1>8, <1>9, <1>10

LEMMA SkipIInv ==
    ASSUME IInv, NEW i \in Indices, SkipBusy(i) \/ Declined(i) \/ Failed(i)
    PROVE  IInv'
<1>1. CASE SkipBusy(i)  BY <1>1, PassOver DEF SkipBusy
<1>2. CASE Declined(i)  BY <1>2, PassOver DEF Declined, Offered, Best
<1>3. CASE Failed(i)
  <2>1. PICK s \in Symbols :
          /\ Offered(i, s) /\ alerts' = alerts \ {s}
          /\ UNCHANGED <<pending, active, placed, correlated, riskVars, warned, saveFailed>>
    BY <1>3 DEF Failed
  <2>2. Turn(i) /\ Considered(i) /\ s.underlying = i /\ On(i, pending) = {}
    BY <2>1 DEF Offered, Best, Busy, On
  <2>3. alerts' \subseteq alerts /\ alerts \ alerts' \subseteq On(i, alerts)
    BY <2>1, <2>2 DEF On
  <2> QED  BY <2>1, <2>2, <2>3, PassOver
<1> QED  BY <1>1, <1>2, <1>3

LEMMA SkipCorrelatedIInv ==
    ASSUME IInv, NEW i \in Indices, SkipCorrelated(i) PROVE IInv'
<1> USE DEF IInv, riskVars
<1>1. PICK s \in Symbols :
        /\ Best(i, s) /\ AtCorrelationLimit(s)
        /\ correlated' = correlated \cup {s} /\ Considered(i)
        /\ UNCHANGED <<alerts, pending, active, placed, riskVars, warned, saveFailed>>
  BY DEF SkipCorrelated
<1>2. Turn(i) /\ Considered(i) /\ s.underlying = i  BY <1>1 DEF Best, On
<1>3. /\ candidates' \subseteq candidates /\ scanning /\ scanning'
      /\ \A c \in candidates' : Priority[s.underlying] < Priority[c.underlying]
      /\ \A r \in placed \cup correlated :
           Priority[r.underlying] < Priority[s.underlying]
  BY <1>2, ConsideredOrder
<1>4. TypeOK'  BY <1>1, <1>3 DEF TypeOK
<1>5. ScanOrder'  BY <1>1, <1>3 DEF ScanOrder, Before
<1>6. RefusedIsFull'
  <2>1. Cardinality(SameType(s.opt_type)) >= MaxCorrelated  BY <1>1, LimitCounts
  <2> QED  BY <1>1, <2>1 DEF RefusedIsFull, SameType
<1>7. SlotsByPriority'  BY <1>1, <1>3 DEF SlotsByPriority
<1>8. OnePerIndex' /\ BackedOrWarned'  BY <1>1 DEF OnePerIndex, BackedOrWarned
<1>9. BreakerMatches'  BY <1>1, <1>3 DEF BreakerMatches
<1>10. IsFiniteSet(pending') /\ PendingWithinLimit'  BY <1>1, FewerPending
<1> QED  BY <1>4, <1>5, <1>6, <1>7, <1>8, <1>9, <1>10

LEMMA PlaceIInv == ASSUME IInv, NEW i \in Indices, Place(i) PROVE IInv'
<1> USE DEF IInv, riskVars
<1>1. PICK s \in Symbols :
        /\ Best(i, s) /\ ~AtCorrelationLimit(s) /\ Considered(i)
        /\ pending' = pending \cup {s} /\ placed' = placed \cup {s}
        /\ UNCHANGED <<alerts, active, correlated, riskVars, warned, saveFailed>>
  BY DEF Place, Offered, Tracked
<1>2. /\ Turn(i) /\ Considered(i) /\ s.underlying = i /\ s \in candidates
      /\ \A p \in pending \cup active : p.underlying # i
  BY <1>1 DEF Best, Busy, On
<1>3. /\ candidates' \subseteq candidates /\ scanning /\ scanning'
      /\ \A c \in candidates' : Priority[s.underlying] < Priority[c.underlying]
      /\ \A r \in placed \cup correlated :
           Priority[r.underlying] < Priority[s.underlying]
  BY <1>2, ConsideredOrder
<1>4. ~(Cardinality(SameType(s.opt_type)) >= MaxCorrelated)  BY <1>1, LimitCounts
<1>5. TypeOK'  BY <1>1, <1>3 DEF TypeOK
<1>6. ScanOrder'  BY <1>1, <1>3 DEF ScanOrder, Before
<1>7. \A d : SameType(d)' = IF d = s.opt_type THEN SameType(d) \cup {s} ELSE SameType(d)
  BY <1>1 DEF SameType
<1>8. RefusedIsFull'
  <2>1. \A r \in correlated : r.opt_type # s.opt_type  BY <1>4 DEF RefusedIsFull
  <2> QED  BY <1>1, <1>7, <2>1 DEF RefusedIsFull
<1>9. SlotsByPriority'
  <2>1. \A r \in correlated : r.opt_type # s.opt_type  BY <1>4 DEF RefusedIsFull
  <2> QED  BY <1>1, <2>1 DEF SlotsByPriority
<1>10. OnePerIndex'  BY <1>1, <1>2 DEF OnePerIndex
<1>11. BackedOrWarned'  BY <1>1, <1>2 DEF BackedOrWarned, TypeOK
<1>12. BreakerMatches'  BY <1>1, <1>3 DEF BreakerMatches
<1>13. IsFiniteSet(pending')  BY <1>1, FS_AddElement
<1>14. PendingWithinLimit'
  <2> SUFFICES ASSUME NEW d \in OptTypes
               PROVE  Cardinality(SameType(d)') <= MaxCorrelated
    BY DEF PendingWithinLimit, SameType
  <2>1. Cardinality(SameType(d)) <= MaxCorrelated
    BY DEF PendingWithinLimit, SameType
  <2>2. IsFiniteSet(SameType(d)) /\ Cardinality(SameType(d)) \in Nat
    BY SameTypeFinite
  <2>3. CASE d = s.opt_type
    <3>1. \/ Cardinality(SameType(d) \cup {s}) = Cardinality(SameType(d))
          \/ Cardinality(SameType(d) \cup {s}) = Cardinality(SameType(d)) + 1
      BY <2>2, FS_AddElement, Zenon
    <3>2. IsFiniteSet(SameType(d) \cup {s})  BY <2>2, FS_AddElement
    <3>3. Cardinality(SameType(d) \cup {s}) \in Nat  BY <3>2, FS_CardinalityType
    <3>4. SameType(d)' = SameType(d) \cup {s}  BY <1>7, <2>3
    <3> HIDE DEF IInv
    <3> QED  BY <1>4, <2>2, <2>3, <3>1, <3>3, <3>4
  <2>4. CASE d # s.opt_type  BY <1>7, <2>1, <2>4
  <2> QED  BY <2>3, <2>4
<1> QED  BY <1>5, <1>6, <1>8, <1>9, <1>10, <1>11, <1>12, <1>13, <1>14

-----------------------------------------------------------------------------
(* The outcomes: between scans.                                            *)

\* Nothing is remembered of a scan when none is under way.
LEMMA BetweenScans ==
    ASSUME IInv, ~scanning, UNCHANGED scanVars
    PROVE  /\ candidates' = {} /\ placed' = {} /\ correlated' = {} /\ ~scanning'
           /\ ScanOrder' /\ RefusedIsFull' /\ SlotsByPriority'
BY DEF IInv, scanVars, ScanOrder, Before, RefusedIsFull, SlotsByPriority

LEMMA OutcomeIInv ==
    ASSUME IInv, NEW s \in Symbols, Outcome(s) PROVE IInv'
<1> USE DEF IInv
<1>1. ~scanning /\ UNCHANGED scanVars /\ pending' \subseteq pending
  BY DEF Outcome, Activate, Opened, ActivateNotSaved, Lapse, Drop, CloseLosing,
         CloseWinning
<1>2. /\ ScanOrder' /\ RefusedIsFull' /\ SlotsByPriority' /\ candidates' = {}
      /\ placed' = {} /\ correlated' = {} /\ ~scanning' /\ scanning' = scanning
  BY <1>1, BetweenScans DEF scanVars
<1>3. IsFiniteSet(pending') /\ PendingWithinLimit'  BY <1>1, FewerPending
<1> SUFFICES TypeOK' /\ OnePerIndex' /\ BackedOrWarned' /\ BreakerMatches'
  BY <1>2, <1>3
<1> USE DEF TypeOK, OnePerIndex, BackedOrWarned, BreakerMatches, riskVars
<1>4. CASE Activate(s)  BY <1>2, <1>4 DEF Activate, Opened, Forgotten
<1>5. CASE ActivateNotSaved(s)  BY <1>2, <1>5 DEF ActivateNotSaved, Forgotten
<1>6. CASE Lapse(s)  BY <1>2, <1>6 DEF Lapse, Forgotten
<1>7. CASE Drop(s)  BY <1>2, <1>7 DEF Drop, Forgotten
<1>8. CASE CloseLosing(s)
  <2>1. Lost \in 0..MaxLosses /\ (losses = MaxLosses => Lost = MaxLosses)
    BY DEF Lost
  <2>2. breaker' = (breaker \/ Lost = MaxLosses) /\ losses' = Lost
    BY <1>8 DEF CloseLosing
  <2>3. breaker' \in BOOLEAN /\ (breaker' <=> Lost = MaxLosses)  BY <2>1, <2>2
  <2>4. TypeOK'  BY <1>2, <1>8, <2>1, <2>2, <2>3 DEF CloseLosing
  <2>5. BreakerMatches'  BY <1>2, <2>2, <2>3
  <2>6. OnePerIndex' /\ BackedOrWarned'  BY <1>8 DEF CloseLosing
  <2> QED  BY <2>4, <2>5, <2>6
<1>9. CASE CloseWinning(s)
  <2>1. losses' = 0 /\ breaker' = FALSE  BY <1>9 DEF CloseWinning, Reset
  <2>2. losses' \in 0..MaxLosses /\ losses' # MaxLosses  BY <2>1
  <2>3. TypeOK' /\ BreakerMatches'  BY <1>2, <1>9, <2>1, <2>2 DEF CloseWinning
  <2>4. OnePerIndex' /\ BackedOrWarned'  BY <1>9 DEF CloseWinning
  <2> QED  BY <2>3, <2>4
<1> QED  BY <1>4, <1>5, <1>6, <1>7, <1>8, <1>9 DEF Outcome

LEMMA StutterIInv == ASSUME IInv, UNCHANGED vars PROVE IInv'
<1> USE DEF IInv, vars, scanVars, riskVars
<1>1. IsFiniteSet(pending') /\ PendingWithinLimit'  BY FewerPending
<1>2. TypeOK' /\ ScanOrder' /\ OnePerIndex' /\ SlotsByPriority' /\ BackedOrWarned'
  BY DEF TypeOK, ScanOrder, Before, OnePerIndex, SlotsByPriority, BackedOrWarned
<1>3. RefusedIsFull' /\ BreakerMatches'  BY DEF RefusedIsFull, SameType, BreakerMatches
<1> QED  BY <1>1, <1>2, <1>3

LEMMA NextIInv == ASSUME IInv, [Next]_vars PROVE IInv'
<1>1. CASE Scan \/ EndScan  BY <1>1, ScanIInv, EndScanIInv
<1>2. ASSUME NEW i \in Indices, Consider(i) PROVE IInv'
  BY <1>2, SkipIInv, SkipCorrelatedIInv, PlaceIInv DEF Consider
<1>3. ASSUME NEW s \in Symbols, Outcome(s) PROVE IInv'  BY <1>3, OutcomeIInv
<1>4. CASE UNCHANGED vars  BY <1>4, StutterIInv
<1> QED  BY <1>1, <1>2, <1>3, <1>4 DEF Next

LEMMA Invariance == Spec => []IInv
<1>1. Init => IInv  BY InitIInv
<1>2. IInv /\ [Next]_vars => IInv'  BY NextIInv
<1> QED  BY <1>1, <1>2, PTL DEF Spec

-----------------------------------------------------------------------------
(* The theorems.                                                           *)

\* Every variable keeps its type.
THEOREM TypeCorrect == Spec => []TypeOK
<1>1. IInv => TypeOK  BY DEF IInv
<1> QED  BY <1>1, Invariance, PTL

\* An index has at most one pending entry or active trade, whatever the order
\* of scans, fills, failed cancels and closes.
THEOREM OneEntryPerIndex == Spec => []OnePerIndex
<1>1. IInv => OnePerIndex  BY DEF IInv
<1> QED  BY <1>1, Invariance, PTL

\* The entry orders outstanding respect the direction limit, whatever the
\* limit and the number of underlyings.
THEOREM PendingLimited == Spec => []PendingWithinLimit
<1>1. IInv => PendingWithinLimit  BY DEF IInv
<1> QED  BY <1>1, Invariance, PTL

\* Slots under the limit are given by priority.
THEOREM PriorityRespected == Spec => []SlotsByPriority
<1>1. IInv => SlotsByPriority  BY DEF IInv
<1> QED  BY <1>1, Invariance, PTL

\* No tracked entry is without an alert unless the owner was warned.
THEOREM EntriesBacked == Spec => []BackedOrWarned
<1>1. IInv => BackedOrWarned  BY DEF IInv
<1> QED  BY <1>1, Invariance, PTL

\* No entry order is placed after max_consecutive_losses losses in a row.
THEOREM BreakerIsObeyed == Spec => BreakerStops
<1>1. ASSUME IInv, [Next]_vars, losses = MaxLosses
      PROVE  pending' \subseteq pending
  <2>1. breaker /\ ~scanning /\ candidates = {}
    BY <1>1 DEF IInv, BreakerMatches, ScanOrder
  <2>2. CASE Scan \/ EndScan \/ UNCHANGED vars  BY <2>2 DEF Scan, EndScan, vars
  <2>3. ASSUME NEW i \in Indices, Consider(i) PROVE FALSE
    <3>1. Turn(i)
      BY <2>3 DEF Consider, SkipBusy, SkipCorrelated, Declined, Failed, Place, Offered, Best
    <3> QED  BY <2>1, <3>1 DEF Turn, On
  <2>4. ASSUME NEW s \in Symbols, Outcome(s) PROVE pending' \subseteq pending
    BY <2>4 DEF Outcome, Activate, Opened, ActivateNotSaved, Lapse, Drop, CloseLosing,
                CloseWinning
  <2> QED  BY <1>1, <2>2, <2>3, <2>4 DEF Next
<1>2. IInv /\ [Next]_vars => [losses = MaxLosses => pending' \subseteq pending]_vars
  BY <1>1
<1> QED  BY <1>2, Invariance, PTL DEF Spec, BreakerStops

HIDE PortfolioAssumption

-----------------------------------------------------------------------------
(* Months.                                                                 *)

YearStart(y) == 365 * y + (y + 3) \div 4
DayOfYear(k, y) == DaysBefore[k] + (IF k > 2 /\ y % 4 = 0 THEN 1 ELSE 0)

LEMMA DaysBeforeIs ==
    /\ DaysBefore[1] = 0 /\ DaysBefore[2] = 31 /\ DaysBefore[3] = 59
    /\ DaysBefore[4] = 90 /\ DaysBefore[5] = 120 /\ DaysBefore[6] = 151
    /\ DaysBefore[7] = 181 /\ DaysBefore[8] = 212 /\ DaysBefore[9] = 243
    /\ DaysBefore[10] = 273 /\ DaysBefore[11] = 304 /\ DaysBefore[12] = 334
BY DEF DaysBefore

LEMMA MonthStartIs ==
    ASSUME NEW y \in Nat, NEW k \in 1..12
    PROVE  /\ 12 * y + (k - 1) \in Nat
           /\ MonthStart(12 * y + (k - 1)) = YearStart(y) + DayOfYear(k, y)
<1> DEFINE m == 12 * y + (k - 1)
<1>1. m \in Nat /\ m \div 12 = y /\ (m % 12) + 1 = k  OBVIOUS
<1> HIDE DEF m
<1>2. DaysBefore[k] \in Int
  <2>1. DaysBefore \in [1..12 -> Int]  BY DEF DaysBefore
  <2> QED  BY <2>1
<1>3. MonthStart(m) = 365 * y + (y + 3) \div 4 + DaysBefore[k]
                      + (IF k > 2 /\ y % 4 = 0 THEN 1 ELSE 0)
  BY <1>1 DEF MonthStart
<1> DEFINE a == 365 * y
           b == (y + 3) \div 4
           c == DaysBefore[k]
           e == IF k > 2 /\ y % 4 = 0 THEN 1 ELSE 0
<1>4. a \in Int /\ b \in Int /\ c \in Int /\ e \in Int  BY <1>2
<1>5. MonthStart(m) = a + b + c + e  BY <1>3
<1>6. YearStart(y) + DayOfYear(k, y) = (a + b) + (c + e)  BY DEF YearStart, DayOfYear
<1> HIDE DEF a, b, c, e
<1>7. MonthStart(m) = YearStart(y) + DayOfYear(k, y)
  BY <1>4, <1>5, <1>6
<1> QED  BY <1>1, <1>7 DEF m

LEMMA YearAndMonth ==
    ASSUME NEW m \in Nat
    PROVE  \E y \in Nat, k \in 1..12 : m = 12 * y + (k - 1)
<1>1. m \div 12 \in Nat /\ (m % 12) + 1 \in 1..12
      /\ m = 12 * (m \div 12) + (((m % 12) + 1) - 1)
  OBVIOUS
<1> QED  BY <1>1

Leap(y) == IF y % 4 = 0 THEN 1 ELSE 0

\* The twelve values, and the length of the year.
LEMMA DaysOfYear ==
    ASSUME NEW y \in Nat
    PROVE  /\ DayOfYear(1, y) = 0 /\ DayOfYear(2, y) = 31 /\ DayOfYear(3, y) = 59 + Leap(y)
           /\ DayOfYear(4, y) = 90 + Leap(y) /\ DayOfYear(5, y) = 120 + Leap(y)
           /\ DayOfYear(6, y) = 151 + Leap(y) /\ DayOfYear(7, y) = 181 + Leap(y)
           /\ DayOfYear(8, y) = 212 + Leap(y) /\ DayOfYear(9, y) = 243 + Leap(y)
           /\ DayOfYear(10, y) = 273 + Leap(y) /\ DayOfYear(11, y) = 304 + Leap(y)
           /\ DayOfYear(12, y) = 334 + Leap(y)
           /\ Leap(y) \in {0, 1} /\ YearStart(y) \in Nat
           /\ YearStart(y + 1) = YearStart(y) + 365 + Leap(y)
<1>1. Leap(y) \in {0, 1}  BY DEF Leap
<1>2. \A j \in 1..12 : DayOfYear(j, y) = DaysBefore[j] + (IF j > 2 THEN Leap(y) ELSE 0)
  BY DEF DayOfYear, Leap
<1>3. YearStart(y) \in Nat /\ YearStart(y + 1) = YearStart(y) + 365 + Leap(y)
  BY DEF YearStart, Leap
<1> QED  BY <1>1, <1>2, <1>3, DaysBeforeIs

OneOf(k) == \/ k = 1 \/ k = 2 \/ k = 3 \/ k = 4 \/ k = 5 \/ k = 6
            \/ k = 7 \/ k = 8 \/ k = 9 \/ k = 10 \/ k = 11 \/ k = 12

LEMMA OneOfTwelve ==
    ASSUME NEW k \in 1..12
    PROVE  OneOf(k)
BY DEF OneOf

LEMMA DayOfYearNat ==
    ASSUME NEW y \in Nat, NEW k \in 1..12
    PROVE  /\ DayOfYear(k, y) \in Nat /\ DayOfYear(k, y) <= 335 /\ YearStart(y) \in Nat
           /\ DayOfYear(k, y) <= 31 * (k - 1) /\ k - 1 <= DayOfYear(k, y)
<1>1. OneOf(k)  BY OneOfTwelve
<1>2. /\ DayOfYear(1, y) = 0 /\ DayOfYear(2, y) = 31 /\ DayOfYear(3, y) = 59 + Leap(y)
      /\ DayOfYear(4, y) = 90 + Leap(y) /\ DayOfYear(5, y) = 120 + Leap(y)
      /\ DayOfYear(6, y) = 151 + Leap(y) /\ DayOfYear(7, y) = 181 + Leap(y)
      /\ DayOfYear(8, y) = 212 + Leap(y) /\ DayOfYear(9, y) = 243 + Leap(y)
      /\ DayOfYear(10, y) = 273 + Leap(y) /\ DayOfYear(11, y) = 304 + Leap(y)
      /\ DayOfYear(12, y) = 334 + Leap(y)
      /\ (Leap(y) = 0 \/ Leap(y) = 1) /\ YearStart(y) \in Nat
  BY DaysOfYear
<1> QED  BY <1>1, <1>2 DEF OneOf

LEMMA DayOfYearNext ==
    ASSUME NEW y \in Nat, NEW k \in 1..11
    PROVE  /\ DayOfYear(k, y) + 28 <= DayOfYear(k + 1, y)
           /\ DayOfYear(k + 1, y) <= DayOfYear(k, y) + 31
<1>1. k = 1 \/ k = 2 \/ k = 3 \/ k = 4 \/ k = 5 \/ k = 6
      \/ k = 7 \/ k = 8 \/ k = 9 \/ k = 10 \/ k = 11
  OBVIOUS
<1>2. /\ DayOfYear(1, y) = 0 /\ DayOfYear(2, y) = 31 /\ DayOfYear(3, y) = 59 + Leap(y)
      /\ DayOfYear(4, y) = 90 + Leap(y) /\ DayOfYear(5, y) = 120 + Leap(y)
      /\ DayOfYear(6, y) = 151 + Leap(y) /\ DayOfYear(7, y) = 181 + Leap(y)
      /\ DayOfYear(8, y) = 212 + Leap(y) /\ DayOfYear(9, y) = 243 + Leap(y)
      /\ DayOfYear(10, y) = 273 + Leap(y) /\ DayOfYear(11, y) = 304 + Leap(y)
      /\ DayOfYear(12, y) = 334 + Leap(y)
      /\ (Leap(y) = 0 \/ Leap(y) = 1) /\ YearStart(y) \in Nat
  BY DaysOfYear
<1> QED  BY <1>1, <1>2

LEMMA DayOfYearRises ==
    ASSUME NEW y \in Nat, NEW k \in 1..12, NEW l \in 1..12, k <= l
    PROVE  DayOfYear(k, y) <= DayOfYear(l, y)
<1>1. OneOf(k) /\ OneOf(l)  BY OneOfTwelve
<1>2. /\ DayOfYear(1, y) = 0 /\ DayOfYear(2, y) = 31 /\ DayOfYear(3, y) = 59 + Leap(y)
      /\ DayOfYear(4, y) = 90 + Leap(y) /\ DayOfYear(5, y) = 120 + Leap(y)
      /\ DayOfYear(6, y) = 151 + Leap(y) /\ DayOfYear(7, y) = 181 + Leap(y)
      /\ DayOfYear(8, y) = 212 + Leap(y) /\ DayOfYear(9, y) = 243 + Leap(y)
      /\ DayOfYear(10, y) = 273 + Leap(y) /\ DayOfYear(11, y) = 304 + Leap(y)
      /\ DayOfYear(12, y) = 334 + Leap(y)
      /\ (Leap(y) = 0 \/ Leap(y) = 1) /\ YearStart(y) \in Nat
  BY DaysOfYear
<1> QED  BY <1>1, <1>2 DEF OneOf

\* A month has 28 to 31 days.
LEMMA MonthLength ==
    ASSUME NEW m \in Nat
    PROVE  /\ MonthStart(m) \in Nat /\ MonthStart(m + 1) \in Nat
           /\ MonthStart(m) + 28 <= MonthStart(m + 1)
           /\ MonthStart(m + 1) <= MonthStart(m) + 31
           /\ m <= MonthStart(m) /\ MonthStart(m) <= 31 * m
<1>1. PICK y \in Nat, k \in 1..12 : m = 12 * y + (k - 1)  BY YearAndMonth
<1>2. MonthStart(m) = YearStart(y) + DayOfYear(k, y)  BY <1>1, MonthStartIs
<1>3. /\ DayOfYear(k, y) \in Nat /\ YearStart(y) \in Nat
      /\ DayOfYear(k, y) <= 31 * (k - 1) /\ k - 1 <= DayOfYear(k, y)
  BY DayOfYearNat
<1>4. /\ MonthStart(m + 1) \in Nat
      /\ MonthStart(m) + 28 <= MonthStart(m + 1)
      /\ MonthStart(m + 1) <= MonthStart(m) + 31
  <2>1. CASE k < 12
    <3>1. k \in 1..11 /\ k + 1 \in 1..12 /\ m + 1 = 12 * y + ((k + 1) - 1)  BY <1>1, <2>1
    <3>2. MonthStart(m + 1) = YearStart(y) + DayOfYear(k + 1, y)  BY <3>1, MonthStartIs
    <3>3. DayOfYear(k + 1, y) \in Nat  BY <3>1, DayOfYearNat
    <3>4. /\ DayOfYear(k, y) + 28 <= DayOfYear(k + 1, y)
          /\ DayOfYear(k + 1, y) <= DayOfYear(k, y) + 31
      BY <3>1, DayOfYearNext
    <3> QED  BY <1>2, <1>3, <3>2, <3>3, <3>4
  <2>2. CASE k = 12
    <3>1. y + 1 \in Nat /\ 1 \in 1..12 /\ m + 1 = 12 * (y + 1) + (1 - 1)  BY <1>1, <2>2
    <3>2. MonthStart(m + 1) = YearStart(y + 1) + DayOfYear(1, y + 1)  BY <3>1, MonthStartIs
    <3>3. DayOfYear(1, y + 1) = 0  BY <3>1, DaysOfYear
    <3>4. /\ DayOfYear(12, y) = 334 + Leap(y) /\ Leap(y) \in {0, 1}
          /\ YearStart(y + 1) = YearStart(y) + 365 + Leap(y)
      BY DaysOfYear
    <3> QED  BY <1>2, <1>3, <2>2, <3>2, <3>3, <3>4
  <2> QED  BY <2>1, <2>2
<1>5. YearStart(y) >= 12 * y /\ YearStart(y) <= 372 * y
  BY DEF YearStart
<1> QED  BY <1>1, <1>2, <1>3, <1>4, <1>5

\* Months follow one another.
LEMMA MonthsInOrder ==
    ASSUME NEW m \in Nat, NEW n \in Nat, m < n
    PROVE  MonthStart(m + 1) <= MonthStart(n)
<1>1. PICK y \in Nat, k \in 1..12 : m + 1 = 12 * y + (k - 1)
  <2>1. m + 1 \in Nat  OBVIOUS
  <2> QED  BY <2>1, YearAndMonth
<1>2. PICK z \in Nat, l \in 1..12 : n = 12 * z + (l - 1)  BY YearAndMonth
<1>3. /\ MonthStart(m + 1) = YearStart(y) + DayOfYear(k, y)
      /\ MonthStart(n) = YearStart(z) + DayOfYear(l, z)
  BY <1>1, <1>2, MonthStartIs
<1>4. /\ DayOfYear(k, y) \in Nat /\ DayOfYear(k, y) <= 335
      /\ DayOfYear(l, z) \in Nat /\ YearStart(y) \in Nat /\ YearStart(z) \in Nat
  BY DayOfYearNat
<1>5. y < z \/ (y = z /\ k <= l)  BY <1>1, <1>2
<1>6. CASE y < z
  <2>1. YearStart(y) + 365 <= YearStart(z)  BY <1>6 DEF YearStart
  <2> QED  BY <1>3, <1>4, <2>1
<1>7. CASE y = z /\ k <= l
  <2>1. DayOfYear(k, y) <= DayOfYear(l, y)  BY <1>7, DayOfYearRises
  <2> QED  BY <1>3, <1>4, <1>7, <2>1
<1> QED  BY <1>5, <1>6, <1>7

InMonth(d, m) == MonthStart(m) <= d /\ d < MonthStart(m + 1)

\* Every day is in a month: its year is the 4 * d \div 1461st.
LEMMA DayHasMonth ==
    ASSUME NEW d \in Nat
    PROVE  \E m \in Nat : InMonth(d, m)
<1> DEFINE y == (4 * d) \div 1461
           r == d - YearStart(y)
<1>1. y \in Nat  OBVIOUS
<1>2. YearStart(y) <= d /\ d < YearStart(y + 1)
  BY DEF YearStart
<1> HIDE DEF y
<1>3. YearStart(y) \in Nat  BY <1>1, DaysOfYear
<1>4. r \in Nat  BY <1>2, <1>3
<1>5. \A k \in 1..12 : DayOfYear(k, y) \in Int
  <2> TAKE k \in 1..12
  <2>1. DayOfYear(k, y) \in Nat  BY <1>1, DayOfYearNat
  <2> QED  BY <2>1
<1>6. \A k \in 1..12 : MonthStart(12 * y + (k - 1)) = YearStart(y) + DayOfYear(k, y)
                       /\ 12 * y + (k - 1) \in Nat
  BY <1>1, MonthStartIs
<1>7. CASE r >= DayOfYear(12, y)
  <2> DEFINE m == 12 * y + (12 - 1)
  <2>1. 12 \in 1..12 /\ 1 \in 1..12 /\ y + 1 \in Nat  BY <1>1
  <2>2. MonthStart(m) <= d /\ m \in Nat  BY <1>3, <1>5, <1>6, <1>7, <2>1
  <2>3. m + 1 = 12 * (y + 1) + (1 - 1)  BY <1>1
  <2>4. MonthStart(m + 1) = YearStart(y + 1) + DayOfYear(1, y + 1)
    BY <2>1, <2>3, MonthStartIs
  <2>5. DayOfYear(1, y + 1) = 0 /\ YearStart(y + 1) \in Nat  BY <2>1, DaysOfYear
  <2>6. d < MonthStart(m + 1)  BY <1>2, <2>4, <2>5
  <2> HIDE DEF m
  <2> QED  BY <2>2, <2>6 DEF InMonth
<1>8. ASSUME NEW k \in 1..11, r >= DayOfYear(k, y), r < DayOfYear(k + 1, y)
      PROVE  \E m \in Nat : InMonth(d, m)
  <2> DEFINE m == 12 * y + (k - 1)
  <2>1. k \in 1..12 /\ k + 1 \in 1..12 /\ m + 1 = 12 * y + ((k + 1) - 1)  BY <1>1
  <2>2. m \in Nat /\ MonthStart(m) = YearStart(y) + DayOfYear(k, y)
        /\ MonthStart(m + 1) = YearStart(y) + DayOfYear(k + 1, y)
    BY <1>6, <2>1
  <2>3. DayOfYear(k, y) \in Int /\ DayOfYear(k + 1, y) \in Int  BY <1>5, <2>1
  <2>4. MonthStart(m) <= d /\ d < MonthStart(m + 1)  BY <1>3, <1>8, <2>2, <2>3
  <2> HIDE DEF m
  <2> QED  BY <2>2, <2>4 DEF InMonth
<1>9. CASE r < DayOfYear(12, y)
  <2>1. DayOfYear(1, y) = 0  BY <1>1, DaysOfYear
  <2> HIDE DEF r
  <2>2. PICK k \in 1..11 : r >= DayOfYear(k, y) /\ r < DayOfYear(k + 1, y)
    <3>1. /\ DayOfYear(1, y) <= r /\ r < DayOfYear(12, y)
          /\ \A k \in 1..12 : DayOfYear(k, y) \in Int
      BY <1>4, <1>5, <1>9, <2>1
    <3>2. SUFFICES ASSUME \A k \in 1..11 : DayOfYear(k, y) <= r => DayOfYear(k + 1, y) <= r
                   PROVE  FALSE
      BY <1>4, <3>1
    <3>3. DayOfYear(2, y) <= r  BY <3>1, <3>2
    <3>4. DayOfYear(3, y) <= r  BY <3>3, <3>2
    <3>5. DayOfYear(4, y) <= r  BY <3>4, <3>2
    <3>6. DayOfYear(5, y) <= r  BY <3>5, <3>2
    <3>7. DayOfYear(6, y) <= r  BY <3>6, <3>2
    <3>8. DayOfYear(7, y) <= r  BY <3>7, <3>2
    <3>9. DayOfYear(8, y) <= r  BY <3>8, <3>2
    <3>10. DayOfYear(9, y) <= r  BY <3>9, <3>2
    <3>11. DayOfYear(10, y) <= r  BY <3>10, <3>2
    <3>12. DayOfYear(11, y) <= r  BY <3>11, <3>2
    <3>13. DayOfYear(12, y) <= r  BY <3>12, <3>2
    <3> QED  BY <1>4, <3>1, <3>13
  <2> QED  BY <1>8, <2>2
<1>10. DayOfYear(12, y) \in Int  BY <1>5
<1> QED  BY <1>4, <1>7, <1>9, <1>10

LEMMA MonthOfIs ==
    ASSUME NEW d \in Nat
    PROVE  MonthOf(d) \in Nat /\ InMonth(d, MonthOf(d))
<1>1. PICK m \in Nat : InMonth(d, m)  BY DayHasMonth
<1>2. /\ MonthStart(m) \in Nat /\ MonthStart(m + 1) \in Nat
      /\ MonthStart(m + 1) <= MonthStart(m) + 31
      /\ m <= MonthStart(m) /\ MonthStart(m) <= 31 * m
  BY MonthLength
<1>3. m <= d /\ d < 31 * (m + 1)  BY <1>1, <1>2 DEF InMonth
<1>4. d \div 31 <= m /\ d \div 31 \in Nat  BY <1>3
<1>5. m \in (d \div 31)..d  BY <1>3, <1>4
<1>6. MonthOf(d) = CHOOSE n \in (d \div 31)..d : InMonth(d, n)  BY DEF MonthOf, InMonth
<1>7. MonthOf(d) \in (d \div 31)..d /\ InMonth(d, MonthOf(d))  BY <1>1, <1>5, <1>6
<1> QED  BY <1>4, <1>7

\* A day is in one month only.
LEMMA OneMonth ==
    ASSUME NEW d \in Nat, NEW m \in Nat, InMonth(d, m)
    PROVE  MonthOf(d) = m
<1> DEFINE n == MonthOf(d)
<1>1. n \in Nat /\ InMonth(d, n)  BY MonthOfIs
<1> HIDE DEF n
<1>2. /\ MonthStart(m) \in Nat /\ MonthStart(m + 1) \in Nat
      /\ MonthStart(n) \in Nat /\ MonthStart(n + 1) \in Nat
  BY <1>1, MonthLength
<1>3. ~(m < n)
  <2>1. m < n => MonthStart(m + 1) <= MonthStart(n)  BY <1>1, MonthsInOrder
  <2> QED  BY <1>1, <1>2, <2>1 DEF InMonth
<1>4. ~(n < m)
  <2>1. n < m => MonthStart(n + 1) <= MonthStart(m)  BY <1>1, MonthsInOrder
  <2> QED  BY <1>1, <1>2, <2>1 DEF InMonth
<1> QED  BY <1>1, <1>3, <1>4 DEF n

-----------------------------------------------------------------------------
(* Trading days.                                                           *)

LEMMA WalkNumbers ==
    /\ FirstDay \in Nat /\ LastDay \in Nat /\ MaxClosure = 4 /\ MaxGap = 45 /\ Horizon = 35
    /\ \A d : d \in Days <=> d \in Nat /\ d <= LastDay + 90
<1>1. MaxGap = 45 /\ MaxClosure = 4 /\ Horizon = 35  BY DEF MaxGap, MaxClosure, Horizon
<1> QED  BY <1>1, ExpiryCalendarAssumption DEF Days

Closed(x, d) == \A y \in (x + 1)..d : ~IsTradingDay(y)

LEMMA PrevIs ==
    ASSUME NEW d \in Days
    PROVE  /\ PrevTradingDay[d] \in Int
           /\ d - 4 <= PrevTradingDay[d] /\ PrevTradingDay[d] <= d
           /\ IsTradingDay(PrevTradingDay[d]) /\ Closed(PrevTradingDay[d], d)
<1>1. d \in Int  BY WalkNumbers
<1>2. PICK x \in (d - 4)..d : IsTradingDay(x)  BY ShortClosures, WalkNumbers
<1>3. x = d \/ x = d - 1 \/ x = d - 2 \/ x = d - 3 \/ x = d - 4  BY <1>1, <1>2
<1>4. \E z \in (d - 4)..d : IsTradingDay(z) /\ Closed(z, d)
  <2>1. CASE IsTradingDay(d)  BY <1>1, <2>1 DEF Closed
  <2>2. CASE ~IsTradingDay(d) /\ IsTradingDay(d - 1)
    <3>1. Closed(d - 1, d)  BY <1>1, <2>2 DEF Closed
    <3> QED  BY <1>1, <2>2, <3>1
  <2>3. CASE ~IsTradingDay(d) /\ ~IsTradingDay(d - 1) /\ IsTradingDay(d - 2)
    <3>1. \A y \in ((d - 2) + 1)..d : y = d \/ y = d - 1  BY <1>1
    <3>2. Closed(d - 2, d)  BY <2>3, <3>1 DEF Closed
    <3> QED  BY <1>1, <2>3, <3>2
  <2>4. CASE /\ ~IsTradingDay(d) /\ ~IsTradingDay(d - 1) /\ ~IsTradingDay(d - 2)
             /\ IsTradingDay(d - 3)
    <3>1. \A y \in ((d - 3) + 1)..d : y = d \/ y = d - 1 \/ y = d - 2  BY <1>1
    <3>2. Closed(d - 3, d)  BY <2>4, <3>1 DEF Closed
    <3> QED  BY <1>1, <2>4, <3>2
  <2>5. CASE /\ ~IsTradingDay(d) /\ ~IsTradingDay(d - 1) /\ ~IsTradingDay(d - 2)
             /\ ~IsTradingDay(d - 3)
    <3>1. IsTradingDay(d - 4)  BY <1>2, <1>3, <2>5
    <3>2. \A y \in ((d - 4) + 1)..d : y = d \/ y = d - 1 \/ y = d - 2 \/ y = d - 3  BY <1>1
    <3>3. Closed(d - 4, d)  BY <2>5, <3>2 DEF Closed
    <3> QED  BY <1>1, <3>1, <3>3
  <2> QED  BY <2>1, <2>2, <2>3, <2>4, <2>5
<1>5. PrevTradingDay[d] = CHOOSE z \in (d - 4)..d : IsTradingDay(z) /\ Closed(z, d)
  BY WalkNumbers DEF PrevTradingDay, Closed
<1> DEFINE p == PrevTradingDay[d]
<1>6. p \in (d - 4)..d /\ IsTradingDay(p) /\ Closed(p, d)
  <2> HIDE DEF p
  <2> QED  BY <1>4, <1>5 DEF p
<1> HIDE DEF p
<1>7. p \in Int /\ d - 4 <= p /\ p <= d  BY <1>1, <1>6
<1> QED  BY <1>6, <1>7 DEF p

\* A trading day moves nowhere.
LEMMA PrevOfTradingDay ==
    ASSUME NEW d \in Days, IsTradingDay(d)
    PROVE  PrevTradingDay[d] = d
<1> DEFINE p == PrevTradingDay[d]
<1>1. p \in Int /\ p <= d /\ Closed(p, d)  BY PrevIs
<1>2. d \in Int  BY WalkNumbers
<1> HIDE DEF p
<1>3. p < d => d \in (p + 1)..d  BY <1>1, <1>2
<1>4. ~(p < d)  BY <1>1, <1>3 DEF Closed
<1> QED  BY <1>1, <1>2, <1>4 DEF p

\* Later days do not move before earlier ones.
LEMMA PrevInOrder ==
    ASSUME NEW d \in Days, NEW e \in Days, d <= e
    PROVE  PrevTradingDay[d] <= PrevTradingDay[e]
<1> DEFINE p == PrevTradingDay[d]
           q == PrevTradingDay[e]
<1>1. /\ p \in Int /\ q \in Int /\ p <= d /\ IsTradingDay(p) /\ Closed(q, e)
  BY PrevIs
<1>2. d \in Int /\ e \in Int  BY WalkNumbers
<1> HIDE DEF p, q
<1>3. q < p => p \in (q + 1)..e  BY <1>1, <1>2
<1>4. ~(q < p)  BY <1>1, <1>3 DEF Closed
<1> QED  BY <1>1, <1>4 DEF p, q

-----------------------------------------------------------------------------
(* The nearest of the expiries.                                            *)

LEMMA LeastIs ==
    ASSUME NEW S \in SUBSET Int, NEW x \in S, \A y \in S : x <= y
    PROVE  Min(S) = x
<1>1. Min(S) \in S /\ \A y \in S : Min(S) <= y
  BY DEF Min
<1>2. Min(S) <= x /\ x <= Min(S) /\ Min(S) \in Int /\ x \in Int  BY <1>1
<1> QED  BY <1>2

Weekly(u) == u = "NIFTY" \/ u = "SENSEX"

\* A day of a weekly index is an expiry exactly if some scheduled day moves to it.
LEMMA WeeklyExpiry ==
    ASSUME NEW u, Weekly(u), NEW d \in Nat, d <= LastDay + 35
    PROVE  IsExpiryDay(u, d) <=>
             \E s \in Days : d <= s /\ s <= d + 4 /\ Scheduled(u, s) /\ PrevTradingDay[s] = d
<1>1. u # "BANKNIFTY"  BY DEF Weekly
<1>2. \A s \in d..(d + 6) : s \in Days /\ s \in Nat  BY WalkNumbers
<1>3. \A s : Scheduled(u, s) <=> Weekday(s) = WeeklyWeekday[u][s]  BY <1>1 DEF Scheduled
<1>4. ASSUME IsExpiryDay(u, d)
      PROVE  \E s \in Days : d <= s /\ s <= d + 4 /\ Scheduled(u, s) /\ PrevTradingDay[s] = d
  <2>1. PICK s \in d..(d + 6) : Scheduled(u, s) /\ PrevTradingDay[s] = d
    BY <1>1, <1>3, <1>4 DEF IsExpiryDay, IsAdjustedWeeklyExpiry
  <2>2. s \in Days /\ s \in Nat /\ d <= s  BY <1>2
  <2>3. s - 4 <= d  BY <2>1, <2>2, PrevIs
  <2> QED  BY <2>1, <2>2, <2>3
<1>5. ASSUME NEW s \in Days, d <= s, s <= d + 4, Scheduled(u, s), PrevTradingDay[s] = d
      PROVE  IsExpiryDay(u, d)
  <2>1. IsTradingDay(d)  BY <1>5, PrevIs
  <2>2. s \in d..(d + 6)  BY <1>5, WalkNumbers
  <2>3. IsAdjustedWeeklyExpiry(u, d)  BY <1>3, <1>5, <2>2 DEF IsAdjustedWeeklyExpiry
  <2> QED  BY <1>1, <2>1, <2>3 DEF IsExpiryDay
<1> QED  BY <1>4, <1>5

Ahead(u, d) == {e \in d..(d + Horizon - 1) : IsExpiryDay(u, e)}
DueAhead(u, d) == {e \in Expiries(u, d, d + MaxGap) : d <= e /\ e < d + Reach(u)}

\* What the forward search meets are the expiries of the rule.
LEMMA SearchMeetsRule ==
    ASSUME NEW u, Weekly(u), NEW d \in Nat, d <= LastDay
    PROVE  Ahead(u, d) = DueAhead(u, d)
<1>1. Reach(u) = 35  BY WalkNumbers DEF Reach, Weekly
<1>2. ASSUME NEW e \in Ahead(u, d) PROVE e \in DueAhead(u, d)
  <2>1. e \in Nat /\ d <= e /\ e < d + 35 /\ IsExpiryDay(u, e) /\ e <= LastDay + 35
    BY WalkNumbers DEF Ahead
  <2>2. PICK s \in Days : e <= s /\ s <= e + 4 /\ Scheduled(u, s) /\ PrevTradingDay[s] = e
    BY <2>1, WeeklyExpiry
  <2>3. s \in d..(d + 45)  BY <2>1, <2>2, WalkNumbers
  <2>4. e \in Expiries(u, d, d + MaxGap)  BY <2>2, <2>3, WalkNumbers DEF Expiries
  <2> QED  BY <1>1, <2>1, <2>4 DEF DueAhead
<1>3. ASSUME NEW e \in DueAhead(u, d) PROVE e \in Ahead(u, d)
  <2>1. d <= e /\ e < d + 35 /\ e \in Expiries(u, d, d + 45)
    BY <1>1, WalkNumbers DEF DueAhead
  <2>2. PICK s \in d..(d + 45) : Scheduled(u, s) /\ PrevTradingDay[s] = e
    BY <2>1 DEF Expiries
  <2>3. s \in Days /\ s \in Nat  BY <2>2, WalkNumbers
  <2>4. e \in Int /\ s - 4 <= e /\ e <= s  BY <2>2, <2>3, PrevIs
  <2>5. e \in Nat /\ e <= LastDay + 35 /\ s <= e + 4 /\ e \in d..(d + 35 - 1)
    BY <2>1, <2>3, <2>4, WalkNumbers
  <2>6. IsExpiryDay(u, e)  BY <2>2, <2>3, <2>4, <2>5, WeeklyExpiry
  <2> QED  BY <2>5, <2>6, WalkNumbers DEF Ahead
<1> QED  BY <1>2, <1>3

-----------------------------------------------------------------------------
(* The monthly expiries of BANKNIFTY.  Its rule changes only on the first  *)
(* of a month, so a month has one rule, one scheduled day and one expiry.  *)

LEMMA MonthAgainst ==
    ASSUME NEW d \in Nat, NEW m \in Nat, InMonth(d, m), NEW n \in Nat
    PROVE  d >= MonthStart(n) <=> m >= n
<1>1. /\ MonthStart(m) \in Nat /\ MonthStart(m + 1) \in Nat /\ MonthStart(n) \in Nat
      /\ MonthStart(n + 1) \in Nat /\ MonthStart(n) + 28 <= MonthStart(n + 1)
  BY MonthLength
<1>2. CASE m < n
  <2>1. MonthStart(m + 1) <= MonthStart(n)  BY <1>2, MonthsInOrder
  <2> QED  BY <1>1, <1>2, <2>1 DEF InMonth
<1>3. CASE m = n  BY <1>3 DEF InMonth
<1>4. CASE m > n
  <2>1. MonthStart(n + 1) <= MonthStart(m)  BY <1>4, MonthsInOrder
  <2> QED  BY <1>1, <1>4, <2>1 DEF InMonth
<1> QED  BY <1>2, <1>3, <1>4

MonthlyRules ==
    << <<BNF_MONTHLY_THU_TO_TUE, TUE>>, <<BNF_MONTHLY_WED_TO_THU, THU>>,
       <<BNF_MONTHLY_THU_TO_WED, WED>>, <<Ever, THU>> >>
RulesBegun(d) == {i \in 1..4 : d >= MonthlyRules[i][1]}

LEMMA MonthlyRulesAre ==
    /\ DOMAIN MonthlyRules = 1..4
    /\ MonthlyRules[1] = <<MonthStart(68), TUE>> /\ MonthlyRules[2] = <<MonthStart(60), THU>>
    /\ MonthlyRules[3] = <<MonthStart(50), WED>> /\ MonthlyRules[4] = <<0, THU>>
<1>1. /\ MonthStart(68) \in Nat /\ MonthStart(60) \in Nat /\ MonthStart(50) \in Nat
  BY MonthLength
<1>2. /\ 12 * (2025 - 2020) + 9 - 1 = 68 /\ 12 * (2025 - 2020) + 1 - 1 = 60
      /\ 12 * (2024 - 2020) + 3 - 1 = 50
  OBVIOUS
<1>3. /\ BNF_MONTHLY_THU_TO_TUE = MonthStart(68) + 1 - 1
      /\ BNF_MONTHLY_WED_TO_THU = MonthStart(60) + 1 - 1
      /\ BNF_MONTHLY_THU_TO_WED = MonthStart(50) + 1 - 1
  BY <1>2 DEF BNF_MONTHLY_THU_TO_TUE, BNF_MONTHLY_WED_TO_THU, BNF_MONTHLY_THU_TO_WED, Date
<1>4. /\ BNF_MONTHLY_THU_TO_TUE = MonthStart(68) /\ BNF_MONTHLY_WED_TO_THU = MonthStart(60)
      /\ BNF_MONTHLY_THU_TO_WED = MonthStart(50)
  BY <1>1, <1>3
<1> QED  BY <1>4 DEF MonthlyRules, Ever

LEMMA MonthlyRuleOf ==
    ASSUME NEW d \in Days
    PROVE  /\ BankNiftyMonthly[d] = MonthlyRules[Min(RulesBegun(d))][2]
           /\ BankNiftyMonthly[d] \in 1..3
<1>1. BankNiftyMonthly = RuleOn(MonthlyRules)  BY DEF BankNiftyMonthly, MonthlyRules
<1>2. BankNiftyMonthly[d] = MonthlyRules[Min(RulesBegun(d))][2]
  BY <1>1, MonthlyRulesAre DEF RuleOn, RulesBegun
<1>3. 4 \in RulesBegun(d) /\ RulesBegun(d) \in SUBSET (1..4)
  <2>1. MonthlyRules[4][1] = 0 /\ d \in Nat  BY MonthlyRulesAre, WalkNumbers
  <2> QED  BY <2>1 DEF RulesBegun
<1>4. Min(RulesBegun(d)) \in 1..4
  <2> DEFINE S == RulesBegun(d)
  <2> HIDE DEF S
  <2>1. S \in SUBSET (1..4) /\ S \in SUBSET Int /\ 4 \in S  BY <1>3 DEF S
  <2>2. \A y \in S : y = 1 \/ y = 2 \/ y = 3 \/ y = 4  BY <2>1
  <2>3. CASE 1 \in S
    <3>1. \A y \in S : 1 <= y  BY <2>2
    <3> QED  BY <2>1, <2>3, <3>1, LeastIs DEF S
  <2>4. CASE 1 \notin S /\ 2 \in S
    <3>1. \A y \in S : 2 <= y  BY <2>2, <2>4
    <3> QED  BY <2>1, <2>4, <3>1, LeastIs DEF S
  <2>5. CASE 1 \notin S /\ 2 \notin S /\ 3 \in S
    <3>1. \A y \in S : 3 <= y  BY <2>2, <2>5
    <3> QED  BY <2>1, <2>5, <3>1, LeastIs DEF S
  <2>6. CASE 1 \notin S /\ 2 \notin S /\ 3 \notin S
    <3>1. \A y \in S : 4 <= y  BY <2>2, <2>6
    <3> QED  BY <2>1, <3>1, LeastIs DEF S
  <2> QED  BY <2>3, <2>4, <2>5, <2>6
<1>5. \A i \in 1..4 : MonthlyRules[i][2] \in 1..3
  <2>1. \A i \in 1..4 : i = 1 \/ i = 2 \/ i = 3 \/ i = 4  OBVIOUS
  <2>2. TUE \in 1..3 /\ WED \in 1..3 /\ THU \in 1..3  BY DEF TUE, WED, THU
  <2> QED  BY <2>1, <2>2, MonthlyRulesAre
<1> QED  BY <1>2, <1>4, <1>5

LEMMA OneRulePerMonth ==
    ASSUME NEW d \in Days, NEW e \in Days, NEW m \in Nat, InMonth(d, m), InMonth(e, m)
    PROVE  BankNiftyMonthly[d] = BankNiftyMonthly[e]
<1>1. d \in Nat /\ e \in Nat  BY WalkNumbers
<1>2. \A n \in Nat : d >= MonthStart(n) <=> e >= MonthStart(n)
  <2> TAKE n \in Nat
  <2>1. d >= MonthStart(n) <=> m >= n  BY <1>1, MonthAgainst
  <2>2. e >= MonthStart(n) <=> m >= n  BY <1>1, MonthAgainst
  <2> QED  BY <2>1, <2>2
<1>3. \A i \in 1..4 : d >= MonthlyRules[i][1] <=> e >= MonthlyRules[i][1]
  <2>1. \A i \in 1..4 : i = 1 \/ i = 2 \/ i = 3 \/ i = 4  OBVIOUS
  <2>2. /\ d >= MonthStart(68) <=> e >= MonthStart(68)
        /\ d >= MonthStart(60) <=> e >= MonthStart(60)
        /\ d >= MonthStart(50) <=> e >= MonthStart(50)
        /\ d >= 0 <=> e >= 0
    BY <1>1, <1>2
  <2>3. /\ MonthlyRules[1][1] = MonthStart(68) /\ MonthlyRules[2][1] = MonthStart(60)
        /\ MonthlyRules[3][1] = MonthStart(50) /\ MonthlyRules[4][1] = 0
    BY MonthlyRulesAre
  <2> QED  BY <2>1, <2>2, <2>3
<1>4. RulesBegun(d) = RulesBegun(e)  BY <1>3 DEF RulesBegun
<1> QED  BY <1>4, MonthlyRuleOf

\* Of seven days in a row one has a given weekday.
LEMMA OneOfSeven ==
    ASSUME NEW b \in Nat, NEW wd \in 0..6
    PROVE  /\ \E d \in b..(b + 6) : Weekday(d) = wd
           /\ \A d \in b..(b + 6), e \in b..(b + 6) : Weekday(d) = Weekday(e) => d = e
<1>1. \A d \in b..(b + 6), e \in b..(b + 6) : Weekday(d) = Weekday(e) => d = e
  BY DEF Weekday
<1>2. \E d \in b..(b + 6) : Weekday(d) = wd
  <2> DEFINE r == (b + 2) % 7
  <2>1. r \in 0..6  OBVIOUS
  <2>2. CASE r <= wd
    <3>1. b + (wd - r) \in b..(b + 6) /\ Weekday(b + (wd - r)) = wd  BY <2>1, <2>2 DEF Weekday
    <3> QED  BY <3>1
  <2>3. CASE r > wd
    <3>1. b + (7 + wd - r) \in b..(b + 6) /\ Weekday(b + (7 + wd - r)) = wd
      BY <2>1, <2>3 DEF Weekday
    <3> QED  BY <3>1
  <2> QED  BY <2>1, <2>2, <2>3
<1> QED  BY <1>1, <1>2

\* The scheduled day of a month, and the days of the walk about it.
Due(m) ==
    CHOOSE d \in (MonthStart(m + 1) - 7)..(MonthStart(m + 1) - 1) :
        Weekday(d) = BankNiftyMonthly[MonthStart(m)]
Within(m) == m \in Nat /\ MonthStart(m + 1) <= LastDay + 90

LEMMA DueIs ==
    ASSUME NEW m, Within(m)
    PROVE  /\ Due(m) \in Days /\ Due(m) \in Nat /\ InMonth(Due(m), m)
           /\ MonthStart(m + 1) - 7 <= Due(m) /\ Due(m) <= MonthStart(m + 1) - 1
           /\ MonthStart(m) \in Days /\ InMonth(MonthStart(m), m)
           /\ Weekday(Due(m)) = BankNiftyMonthly[MonthStart(m)]
           /\ \A d \in Nat : /\ MonthStart(m + 1) - 7 <= d /\ d <= MonthStart(m + 1) - 1
                             /\ Weekday(d) = BankNiftyMonthly[MonthStart(m)]
                             => d = Due(m)
<1> DEFINE b == MonthStart(m + 1) - 7
           wd == BankNiftyMonthly[MonthStart(m)]
<1>1. /\ m \in Nat /\ MonthStart(m) \in Nat /\ MonthStart(m + 1) \in Nat
      /\ MonthStart(m) + 28 <= MonthStart(m + 1) /\ MonthStart(m + 1) <= LastDay + 90
  BY MonthLength DEF Within
<1>2. MonthStart(m) \in Days /\ InMonth(MonthStart(m), m)
  BY <1>1, WalkNumbers DEF InMonth
<1>3. wd \in 0..6 /\ b \in Nat /\ b + 6 = MonthStart(m + 1) - 1
  <2>1. wd \in 1..3  BY <1>2, MonthlyRuleOf
  <2> HIDE DEF wd
  <2> QED  BY <1>1, <2>1
<1>4. Due(m) = CHOOSE d \in b..(b + 6) : Weekday(d) = wd  BY <1>3 DEF Due
<1> HIDE DEF wd, b
<1>5. Due(m) \in b..(b + 6) /\ Weekday(Due(m)) = wd  BY <1>3, <1>4, OneOfSeven
<1>6. \A d \in b..(b + 6) : Weekday(d) = wd => d = Due(m)
  BY <1>3, <1>5, OneOfSeven
<1>7. Due(m) \in Nat /\ b <= Due(m) /\ Due(m) <= b + 6  BY <1>3, <1>5
<1>8. InMonth(Due(m), m)  BY <1>1, <1>3, <1>7 DEF InMonth, b
<1>9. Due(m) \in Days  BY <1>1, <1>3, <1>7, WalkNumbers
<1>10. \A d \in Nat : b <= d /\ d <= b + 6 => d \in b..(b + 6)  BY <1>3
<1> QED  BY <1>2, <1>3, <1>5, <1>6, <1>7, <1>8, <1>9, <1>10 DEF b, wd

\* The monthly expiry that the code computes from any day of a month.
LEMMA ComputedIs ==
    ASSUME NEW m, Within(m), NEW d \in Days, InMonth(d, m)
    PROVE  LastWeekdayOfMonth(m, BankNiftyMonthly[d]) = PrevTradingDay[Due(m)]
<1>1. MonthStart(m) \in Days /\ InMonth(MonthStart(m), m) /\ m \in Nat
  BY DueIs DEF Within
<1>2. BankNiftyMonthly[d] = BankNiftyMonthly[MonthStart(m)]  BY <1>1, OneRulePerMonth
<1> QED  BY <1>2 DEF LastWeekdayOfMonth, Due

\* A day is scheduled for an expiry exactly if it is that of its month.
LEMMA ScheduledIsDue ==
    ASSUME NEW m, Within(m), NEW d \in Days, InMonth(d, m)
    PROVE  Scheduled("BANKNIFTY", d) <=> d = Due(m)
<1>1. /\ m \in Nat /\ MonthStart(m) \in Nat /\ MonthStart(m + 1) \in Nat
      /\ MonthStart(m) \in Days /\ InMonth(MonthStart(m), m)
  BY MonthLength, DueIs DEF Within
<1>2. d \in Nat /\ d + 7 \in Nat /\ MonthOf(d) = m  BY <1>1, WalkNumbers, OneMonth
<1>3. BankNiftyMonthly[d] = BankNiftyMonthly[MonthStart(m)]  BY <1>1, OneRulePerMonth
<1>4. MonthOf(d + 7) # m <=> d + 7 >= MonthStart(m + 1)
  <2>1. CASE d + 7 >= MonthStart(m + 1)
    <3>1. MonthOf(d + 7) \in Nat /\ InMonth(d + 7, MonthOf(d + 7))  BY <1>2, MonthOfIs
    <3>2. MonthOf(d + 7) # m  BY <1>1, <1>2, <2>1, <3>1 DEF InMonth
    <3> QED  BY <2>1, <3>2
  <2>2. CASE ~(d + 7 >= MonthStart(m + 1))
    <3>1. InMonth(d + 7, m)  BY <1>1, <1>2, <2>2 DEF InMonth
    <3>2. MonthOf(d + 7) = m  BY <1>1, <1>2, <3>1, OneMonth
    <3> QED  BY <2>2, <3>2
  <2> QED  BY <2>1, <2>2
<1>5. Scheduled("BANKNIFTY", d) <=>
        Weekday(d) = BankNiftyMonthly[MonthStart(m)] /\ d + 7 >= MonthStart(m + 1)
  BY <1>2, <1>3, <1>4 DEF Scheduled
<1>6. MonthStart(m + 1) - 7 <= Due(m) /\ Due(m) \in Nat
      /\ Weekday(Due(m)) = BankNiftyMonthly[MonthStart(m)]
  BY DueIs
<1>7. CASE d = Due(m)
  <2>1. d + 7 >= MonthStart(m + 1)  BY <1>1, <1>6, <1>7
  <2> QED  BY <1>5, <1>6, <1>7, <2>1
<1>8. CASE Scheduled("BANKNIFTY", d)
  <2>1. MonthStart(m + 1) - 7 <= d /\ d <= MonthStart(m + 1) - 1
    BY <1>1, <1>2, <1>5, <1>8 DEF InMonth
  <2> QED  BY <1>2, <1>5, <1>8, <2>1, DueIs
<1> QED  BY <1>7, <1>8

Expiry(m) == PrevTradingDay[Due(m)]

LEMMA ExpiryIs ==
    ASSUME NEW m, Within(m)
    PROVE  /\ Expiry(m) \in Int /\ Expiry(m) <= Due(m) /\ Due(m) <= Expiry(m) + 4
           /\ MonthStart(m + 1) - 11 <= Expiry(m) /\ Expiry(m) <= MonthStart(m + 1) - 1
<1>1. /\ Due(m) \in Days /\ Due(m) \in Nat
      /\ MonthStart(m + 1) - 7 <= Due(m) /\ Due(m) <= MonthStart(m + 1) - 1
  BY DueIs
<1>2. Expiry(m) \in Int /\ Due(m) - 4 <= Expiry(m) /\ Expiry(m) <= Due(m)
  BY <1>1, PrevIs DEF Expiry
<1>3. MonthStart(m + 1) \in Nat  BY MonthLength DEF Within
<1> QED  BY <1>1, <1>2, <1>3

LEMMA ExpiriesInOrder ==
    ASSUME NEW m, Within(m), NEW n, Within(n), m < n
    PROVE  Expiry(m) <= Expiry(n)
<1>1. /\ m \in Nat /\ n \in Nat
      /\ MonthStart(m + 1) \in Nat /\ MonthStart(n) \in Nat
      /\ MonthStart(m + 1) <= MonthStart(n)
  BY MonthLength, MonthsInOrder DEF Within
<1>2. /\ Due(m) \in Days /\ Due(m) \in Nat /\ Due(m) <= MonthStart(m + 1) - 1  BY DueIs
<1>3. Due(n) \in Days /\ Due(n) \in Nat /\ InMonth(Due(n), n)  BY DueIs
<1>4. Due(m) <= Due(n)  BY <1>1, <1>2, <1>3 DEF InMonth
<1> QED  BY <1>2, <1>3, <1>4, PrevInOrder DEF Expiry

\* The months about a day of the walk.
LEMMA MonthWithin ==
    ASSUME NEW d \in Nat, d <= LastDay + 45
    PROVE  /\ Within(MonthOf(d)) /\ InMonth(d, MonthOf(d)) /\ MonthOf(d) \in Nat
           /\ d \in Days
           /\ d <= LastDay => Within(MonthOf(d) + 1)
<1> DEFINE m == MonthOf(d)
<1>1. m \in Nat /\ InMonth(d, m)  BY MonthOfIs
<1> HIDE DEF m
<1>2. m + 1 \in Nat  BY <1>1
<1>3. /\ MonthStart(m) \in Nat /\ MonthStart(m + 1) \in Nat /\ MonthStart((m + 1) + 1) \in Nat
      /\ MonthStart(m + 1) <= MonthStart(m) + 31
      /\ MonthStart((m + 1) + 1) <= MonthStart(m + 1) + 31
  BY <1>1, <1>2, MonthLength
<1>4. MonthStart(m) <= d  BY <1>1 DEF InMonth
<1>5. d \in Days  BY WalkNumbers
<1>6. Within(m)  BY <1>1, <1>3, <1>4, WalkNumbers DEF Within
<1>7. d <= LastDay => Within(m + 1)  BY <1>2, <1>3, <1>4, WalkNumbers DEF Within
<1> QED  BY <1>1, <1>5, <1>6, <1>7 DEF m

\* The expiries ahead of a day are those of its month and of later months.
LEMMA MonthsAhead ==
    ASSUME NEW d \in Nat, d <= LastDay, NEW e \in DueAhead("BANKNIFTY", d)
    PROVE  \E n \in Nat : Within(n) /\ n >= MonthOf(d) /\ e = Expiry(n) /\ d <= e
<1> DEFINE m == MonthOf(d)
<1>1. PICK s \in d..(d + 45) : Scheduled("BANKNIFTY", s) /\ PrevTradingDay[s] = e
  BY WalkNumbers DEF DueAhead, Expiries
<1>2. s \in Nat /\ s <= LastDay + 45 /\ d <= s /\ d <= e  BY <1>1, WalkNumbers DEF DueAhead
<1> DEFINE n == MonthOf(s)
<1>3. /\ n \in Nat /\ Within(n) /\ InMonth(s, n) /\ s \in Days
      /\ m \in Nat /\ InMonth(d, m)
  BY <1>2, MonthWithin, MonthOfIs
<1> HIDE DEF m, n
<1>4. s = Due(n)  BY <1>1, <1>3, ScheduledIsDue
<1>5. n >= m
  <2>1. MonthStart(n + 1) \in Nat /\ MonthStart(m) \in Nat  BY <1>3, MonthLength
  <2>2. n < m => MonthStart(n + 1) <= MonthStart(m)  BY <1>3, MonthsInOrder
  <2> QED  BY <1>2, <1>3, <2>1, <2>2 DEF InMonth
<1> QED  BY <1>1, <1>2, <1>3, <1>4, <1>5 DEF Expiry, m

LEMMA DueIsAhead ==
    ASSUME NEW d \in Nat, d <= LastDay, NEW n \in Nat, Within(n),
           d <= Expiry(n), Due(n) <= d + 44
    PROVE  Expiry(n) \in DueAhead("BANKNIFTY", d)
<1>1. /\ Due(n) \in Days /\ Due(n) \in Nat /\ InMonth(Due(n), n)  BY DueIs
<1>2. Expiry(n) \in Int /\ Expiry(n) <= Due(n)  BY ExpiryIs
<1>3. Scheduled("BANKNIFTY", Due(n))  BY <1>1, ScheduledIsDue
<1>4. Due(n) \in d..(d + 45)  BY <1>1, <1>2
<1>5. Expiry(n) \in Expiries("BANKNIFTY", d, d + MaxGap)
  BY <1>3, <1>4, WalkNumbers DEF Expiries, Expiry
<1>6. Expiry(n) < d + Reach("BANKNIFTY")  BY <1>1, <1>2, WalkNumbers DEF Reach
<1> QED  BY <1>5, <1>6 DEF DueAhead

\* What the code computes for BANKNIFTY is the nearest of its expiries.
LEMMA MonthlyIsNearest ==
    ASSUME NEW d \in Nat, d <= LastDay
    PROVE  /\ DueAhead("BANKNIFTY", d) # {}
           /\ MonthlyExpiry(d) = Min(DueAhead("BANKNIFTY", d))
<1> DEFINE m == MonthOf(d)
           S == DueAhead("BANKNIFTY", d)
           next == LastWeekdayOfMonth(m + 1, BankNiftyMonthly[MonthStart(m + 1)])
<1>1. /\ m \in Nat /\ m + 1 \in Nat /\ Within(m) /\ Within(m + 1) /\ InMonth(d, m) /\ d \in Days
  BY MonthWithin, WalkNumbers
<1>2. LastWeekdayOfMonth(m, BankNiftyMonthly[d]) = Expiry(m)
  BY <1>1, ComputedIs DEF Expiry
<1>3. next = Expiry(m + 1)
  <2>1. MonthStart(m + 1) \in Days /\ InMonth(MonthStart(m + 1), m + 1)  BY <1>1, DueIs
  <2> QED  BY <1>1, <2>1, ComputedIs DEF Expiry
<1>4. MonthlyExpiry(d) = IF Expiry(m) < d THEN next ELSE Expiry(m)
  BY <1>2 DEF MonthlyExpiry
<1> HIDE DEF next
<1>5. /\ MonthStart(m) \in Nat /\ MonthStart(m + 1) \in Nat /\ MonthStart((m + 1) + 1) \in Nat
      /\ MonthStart(m + 1) <= MonthStart(m) + 31
      /\ MonthStart(m + 1) + 28 <= MonthStart((m + 1) + 1)
      /\ MonthStart((m + 1) + 1) <= MonthStart(m + 1) + 31
      /\ MonthStart(m) <= d /\ d < MonthStart(m + 1)
  BY <1>1, MonthLength DEF InMonth
<1>6. /\ Expiry(m) \in Int /\ MonthStart(m + 1) - 11 <= Expiry(m)
      /\ Expiry(m + 1) \in Int /\ MonthStart((m + 1) + 1) - 11 <= Expiry(m + 1)
  BY <1>1, ExpiryIs
<1>7. /\ Due(m) \in Nat /\ Due(m) <= MonthStart(m + 1) - 1
      /\ Due(m + 1) \in Nat /\ Due(m + 1) <= MonthStart((m + 1) + 1) - 1
  BY <1>1, DueIs
<1>8. S \in SUBSET Int
  <2>1. \A e \in S : e \in Int
    <3> TAKE e \in S
    <3>1. \E n \in Nat : Within(n) /\ e = Expiry(n)  BY MonthsAhead
    <3> QED  BY <3>1, ExpiryIs
  <2> QED  BY <2>1
<1>9. \A e \in S : \E n \in Nat : Within(n) /\ n >= m /\ e = Expiry(n) /\ d <= e
  BY MonthsAhead
<1> HIDE DEF S, m
<1>10. CASE d <= Expiry(m)
  <2>1. Due(m) <= d + 44  BY <1>5, <1>7
  <2>2. Expiry(m) \in S  BY <1>1, <1>10, <2>1, DueIsAhead DEF S
  <2>3. ASSUME NEW e \in S PROVE Expiry(m) <= e
    <3>1. PICK n \in Nat : Within(n) /\ n >= m /\ e = Expiry(n)  BY <1>9
    <3>2. CASE n = m  BY <1>6, <3>1, <3>2
    <3>3. CASE n > m  BY <1>1, <3>1, <3>3, ExpiriesInOrder
    <3> QED  BY <1>1, <3>1, <3>2, <3>3
  <2>4. Min(S) = Expiry(m)  BY <1>8, <2>2, <2>3, LeastIs
  <2>5. MonthlyExpiry(d) = Expiry(m)  BY <1>4, <1>6, <1>10
  <2> QED  BY <2>2, <2>4, <2>5 DEF S
<1>11. CASE Expiry(m) < d
  <2>1. d <= Expiry(m + 1) /\ Due(m + 1) <= d + 44  BY <1>5, <1>6, <1>7, <1>11
  <2>2. Expiry(m + 1) \in S  BY <1>1, <2>1, DueIsAhead DEF S
  <2>3. ASSUME NEW e \in S PROVE Expiry(m + 1) <= e
    <3>1. PICK n \in Nat : Within(n) /\ n >= m /\ e = Expiry(n) /\ d <= e  BY <1>9
    <3>2. n # m  BY <1>6, <1>11, <3>1
    <3>3. CASE n = m + 1  BY <1>6, <3>1, <3>3
    <3>4. CASE n > m + 1  BY <1>1, <3>1, <3>4, ExpiriesInOrder
    <3> QED  BY <1>1, <3>1, <3>2, <3>3, <3>4
  <2>4. Min(S) = Expiry(m + 1)  BY <1>8, <2>2, <2>3, LeastIs
  <2>5. MonthlyExpiry(d) = Expiry(m + 1)  BY <1>3, <1>4, <1>11
  <2> QED  BY <2>2, <2>4, <2>5 DEF S
<1> QED  BY <1>6, <1>10, <1>11

-----------------------------------------------------------------------------
(* The walk.                                                               *)

WalkInv ==
    /\ today \in FirstDay..LastDay
    /\ expiring = ExpiringOn(today)
    /\ contract = [u \in Underlyings |-> ExpiryForDate(u, today)]
    /\ tradeable \subseteq IF onlyOnExpiry THEN expiring ELSE Underlyings

LEMMA TakenOn ==
    ASSUME NEW d, NEW T \in Taken(d)
    PROVE  T \subseteq IF onlyOnExpiry THEN ExpiringOn(d) ELSE Underlyings
BY DEF Taken

LEMMA WalkHolds == WalkSpec => []WalkInv
<1>1. WalkInit => WalkInv
  <2> SUFFICES ASSUME WalkInit PROVE WalkInv
    OBVIOUS
  <2>1. tradeable \subseteq IF onlyOnExpiry THEN expiring ELSE Underlyings
    BY TakenOn DEF WalkInit
  <2> QED  BY <2>1, WalkNumbers, ExpiryCalendarAssumption DEF WalkInit, WalkInv
<1>2. WalkInv /\ [NextDay]_walkVars => WalkInv'
  <2> SUFFICES ASSUME WalkInv, [NextDay]_walkVars PROVE WalkInv'
    OBVIOUS
  <2>1. CASE NextDay
    <3>1. /\ today' = today + 1 /\ today < LastDay /\ expiring' = ExpiringOn(today + 1)
          /\ contract' = [u \in Underlyings |-> ExpiryForDate(u, today + 1)]
          /\ tradeable' \in Taken(today + 1) /\ onlyOnExpiry' = onlyOnExpiry
      BY <2>1 DEF NextDay, Settle
    <3>2. today' \in FirstDay..LastDay  BY <3>1, WalkNumbers DEF WalkInv
    <3>3. tradeable' \subseteq IF onlyOnExpiry THEN ExpiringOn(today + 1) ELSE Underlyings
      BY <3>1, TakenOn
    <3> QED  BY <3>1, <3>2, <3>3 DEF WalkInv
  <2>2. CASE UNCHANGED walkVars  BY <2>2 DEF walkVars, WalkInv
  <2> QED  BY <2>1, <2>2
<1> QED  BY <1>1, <1>2, PTL DEF WalkSpec

LEMMA WalkFacts ==
    ASSUME WalkInv
    PROVE  /\ today \in Nat /\ today <= LastDay
           /\ \A u : u \in expiring <=> u \in Underlyings /\ IsExpiryDay(u, today)
           /\ \A u \in Underlyings : contract[u] = ExpiryForDate(u, today)
           /\ \A u \in tradeable : u \in Underlyings /\ (onlyOnExpiry => u \in expiring)
           /\ \A u \in Underlyings : Weekly(u) \/ u = "BANKNIFTY"
           /\ ~Weekly("BANKNIFTY")
BY WalkNumbers DEF WalkInv, ExpiringOn, Underlyings, Weekly

\* For every list of holidays with closures of four days at most: no holiday,
\* change of a rule or gap between two rules loses an expiry or invents one,
\* except for the monthly ones moved off the days of the week of the rules.
THEOREM NoExpiryLost == WalkSpec => []ExpiryRecognised
<1>1. WalkInv => ExpiryRecognised
  <2> DEFINE Found(u) == today \in Expiries(u, today, today + MaxClosure)
             onWeekday == Weekday(today) \in {BankNiftyMonthly[today], BankNiftyWeekly[today]}
  <2> SUFFICES ASSUME WalkInv, NEW u \in Underlyings
               PROVE  /\ u \in expiring => Found(u)
                      /\ Found(u) /\ (u = "BANKNIFTY" => onWeekday) => u \in expiring
    BY DEF ExpiryRecognised
  <2>1. today \in Nat /\ today <= LastDay  BY WalkFacts
  <2>2. u \in expiring <=> IsExpiryDay(u, today)  BY WalkFacts
  <2>3. \A s : s \in today..(today + MaxClosure) <=> s \in Days /\ today <= s /\ s <= today + 4
    BY <2>1, WalkNumbers
  <2>4. Found(u) <=> \E s \in Days : /\ today <= s /\ s <= today + 4
                                    /\ Scheduled(u, s) /\ PrevTradingDay[s] = today
    BY <2>3 DEF Expiries
  <2> HIDE DEF Found, onWeekday
  <2>5. CASE Weekly(u)
    <3>1. today <= LastDay + 35 /\ u # "BANKNIFTY"  BY <2>1, <2>5, WalkNumbers DEF Weekly
    <3> QED  BY <2>1, <2>2, <2>4, <2>5, <3>1, WeeklyExpiry
  <2>6. ASSUME u = "BANKNIFTY", u \in expiring PROVE Found(u)
    <3> DEFINE m == MonthOf(today)
    <3>1. Within(m) /\ InMonth(today, m) /\ today \in Days
      BY <2>1, MonthWithin, WalkNumbers
    <3>2. today = LastWeekdayOfMonth(m, BankNiftyMonthly[today])
      BY <2>2, <2>6 DEF IsExpiryDay, IsMonthlyExpiry
    <3> HIDE DEF m
    <3>3. today = PrevTradingDay[Due(m)]  BY <3>1, <3>2, ComputedIs
    <3>4. Due(m) \in Days /\ InMonth(Due(m), m)  BY <3>1, DueIs
    <3>5. Scheduled("BANKNIFTY", Due(m))  BY <3>1, <3>4, ScheduledIsDue
    <3>6. today <= Due(m) /\ Due(m) <= today + 4  BY <3>1, <3>3, ExpiryIs DEF Expiry
    <3> QED  BY <2>4, <2>6, <3>3, <3>4, <3>5, <3>6
  <2>7. ASSUME u = "BANKNIFTY", Found(u), onWeekday PROVE u \in expiring
    <3>1. PICK s \in Days : /\ today <= s /\ s <= today + 4
                            /\ Scheduled("BANKNIFTY", s) /\ PrevTradingDay[s] = today
      BY <2>4, <2>7
    <3>2. s \in Nat /\ s <= LastDay + 45  BY <2>1, <3>1, WalkNumbers
    <3> DEFINE n == MonthOf(s)
    <3>3. Within(n) /\ InMonth(s, n) /\ n \in Nat  BY <3>2, MonthWithin
    <3> HIDE DEF n
    <3>4. s = Due(n)  BY <3>1, <3>3, ScheduledIsDue
    \* The day scheduled is in the last week of its month, so today is in it too.
    <3>5. InMonth(today, n)
      <4>1. /\ MonthStart(n) \in Nat /\ MonthStart(n + 1) \in Nat
            /\ MonthStart(n) + 28 <= MonthStart(n + 1)
        BY <3>3, MonthLength
      <4>2. MonthStart(n + 1) - 7 <= s  BY <3>3, <3>4, DueIs
      <4> QED  BY <2>1, <3>1, <3>2, <3>3, <4>1, <4>2 DEF InMonth
    <3>6. today \in Days /\ MonthOf(today) = n  BY <2>1, <3>3, <3>5, OneMonth, WalkNumbers
    <3>7. today = LastWeekdayOfMonth(n, BankNiftyMonthly[today])
      BY <3>1, <3>3, <3>4, <3>5, <3>6, ComputedIs
    <3>8. IsTradingDay(today)  BY <3>1, PrevIs
    <3>9. IsMonthlyExpiry(today)  BY <2>7, <3>6, <3>7 DEF IsMonthlyExpiry, onWeekday
    <3> QED  BY <2>2, <2>7, <3>8, <3>9 DEF IsExpiryDay
  <2> QED  BY <2>5, <2>6, <2>7, WalkFacts
<1> QED  BY <1>1, WalkHolds, PTL

LEMMA ContractIs ==
    ASSUME WalkInv, NEW u \in Underlyings
    PROVE  contract[u] = IF DueAhead(u, today) = {} THEN today ELSE Min(DueAhead(u, today))
<1>1. today \in Nat /\ today <= LastDay /\ contract[u] = ExpiryForDate(u, today)
  BY WalkFacts
<1>2. CASE Weekly(u)
  <2>1. contract[u] = IF Ahead(u, today) = {} THEN today ELSE Min(Ahead(u, today))
    BY <1>1, <1>2 DEF ExpiryForDate, Ahead, Weekly
  <2> QED  BY <1>1, <1>2, <2>1, SearchMeetsRule
<1>3. CASE u = "BANKNIFTY"
  <2>1. contract[u] = MonthlyExpiry(today)  BY <1>1, <1>3 DEF ExpiryForDate
  <2> QED  BY <1>1, <1>3, <2>1, MonthlyIsNearest
<1> QED  BY <1>2, <1>3, WalkFacts

\* For every such list and on every day: the forward search over the
\* weekly expiries and the computation from the month of the monthly one give
\* the nearest expiry by the rule.
THEOREM NearestIsFound == WalkSpec => []NearestExpiry
<1>1. WalkInv => NearestExpiry  BY ContractIs DEF NearestExpiry, DueAhead
<1> QED  BY <1>1, WalkHolds, PTL

-----------------------------------------------------------------------------
(* Lot sizes.                                                              *)

\* The days from which a lot size or a rule of SENSEX holds.
LEMMA DatesAre ==
    /\ Date(2020, 1, 1) = 0 /\ Date(2021, 7, 1) = 547 /\ Date(2023, 5, 1) = 1216
    /\ Date(2023, 7, 14) = 1290 /\ Date(2024, 4, 26) = 1577 /\ Date(2024, 11, 21) = 1786
    /\ Date(2025, 1, 1) = 1827 /\ Date(2025, 9, 1) = 2070 /\ Date(2025, 9, 2) = 2071
    /\ Date(2025, 9, 4) = 2073
<1>1. Date(2020, 1, 1) = 0  BY DaysBeforeIs DEF Date, MonthStart
<1>2. Date(2021, 7, 1) = 547  BY DaysBeforeIs DEF Date, MonthStart
<1>3. Date(2023, 5, 1) = 1216  BY DaysBeforeIs DEF Date, MonthStart
<1>4. Date(2023, 7, 14) = 1290  BY DaysBeforeIs DEF Date, MonthStart
<1>5. Date(2024, 4, 26) = 1577  BY DaysBeforeIs DEF Date, MonthStart
<1>6. Date(2024, 11, 21) = 1786  BY DaysBeforeIs DEF Date, MonthStart
<1>7. Date(2025, 1, 1) = 1827  BY DaysBeforeIs DEF Date, MonthStart
<1>8. Date(2025, 9, 1) = 2070  BY DaysBeforeIs DEF Date, MonthStart
<1>9. Date(2025, 9, 2) = 2071  BY DaysBeforeIs DEF Date, MonthStart
<1>10. Date(2025, 9, 4) = 2073  BY DaysBeforeIs DEF Date, MonthStart
<1> QED  BY <1>1, <1>2, <1>3, <1>4, <1>5, <1>6, <1>7, <1>8, <1>9, <1>10

Begun(u, d) == {h \in LotSizeHistory[u] : h[1] <= d}

\* The table reads as five, five and two entries with a size each.
LEMMA SizesAre ==
    /\ LotSizeHistory["NIFTY"] =
         {<<0, 75>>, <<547, 50>>, <<1577, 25>>, <<1786, 75>>, <<2071, 65>>}
    /\ LotSizeHistory["BANKNIFTY"] =
         {<<0, 20>>, <<547, 25>>, <<1290, 15>>, <<1786, 35>>, <<2070, 30>>}
    /\ LotSizeHistory["SENSEX"] = {<<1216, 10>>, <<1786, 20>>}
BY DatesAre DEF LotSizeHistory

\* An entry that has begun is enough: the latest of them has a size.
LEMMA LatestHasSize ==
    ASSUME NEW u, NEW d \in Nat, NEW x \in Begun(u, d),
           \A g \in Begun(u, d) : g[1] <= x[1],
           \A g \in Begun(u, d) : g[2] > 0
    PROVE  LotSize(u, d) > 0
<1> DEFINE B == Begun(u, d)
           latest == CHOOSE h \in B : \A g \in B : g[1] <= h[1]
<1>1. B # {}  OBVIOUS
<1>2. latest \in B  OBVIOUS
<1>3. LotSize(u, d) = latest[2]  BY <1>1 DEF LotSize, Begun
<1> HIDE DEF latest
<1> QED  BY <1>2, <1>3

LEMMA SizeFromTheStart ==
    ASSUME NEW u, u = "NIFTY" \/ u = "BANKNIFTY", NEW d \in Nat
    PROVE  LotSize(u, d) > 0
<1>1. CASE u = "NIFTY"
  <2>1. \A h : h \in Begun(u, d) <=>
               /\ h[1] <= d
               /\ h \in {<<0, 75>>, <<547, 50>>, <<1577, 25>>, <<1786, 75>>, <<2071, 65>>}
    BY <1>1, SizesAre DEF Begun
  <2>2. \A g \in Begun(u, d) : g[2] > 0  BY <2>1
  <2>3. CASE d < 547
    <3>1. /\ <<0, 75>> \in Begun(u, d)
          /\ \A g \in Begun(u, d) : g[1] <= <<0, 75>>[1]
      BY <2>1, <2>3
    <3> QED  BY <2>2, <3>1, LatestHasSize
  <2>4. CASE 547 <= d /\ d < 1577
    <3>1. /\ <<547, 50>> \in Begun(u, d)
          /\ \A g \in Begun(u, d) : g[1] <= <<547, 50>>[1]
      BY <2>1, <2>4
    <3> QED  BY <2>2, <3>1, LatestHasSize
  <2>5. CASE 1577 <= d /\ d < 1786
    <3>1. /\ <<1577, 25>> \in Begun(u, d)
          /\ \A g \in Begun(u, d) : g[1] <= <<1577, 25>>[1]
      BY <2>1, <2>5
    <3> QED  BY <2>2, <3>1, LatestHasSize
  <2>6. CASE 1786 <= d /\ d < 2071
    <3>1. /\ <<1786, 75>> \in Begun(u, d)
          /\ \A g \in Begun(u, d) : g[1] <= <<1786, 75>>[1]
      BY <2>1, <2>6
    <3> QED  BY <2>2, <3>1, LatestHasSize
  <2>7. CASE 2071 <= d
    <3>1. /\ <<2071, 65>> \in Begun(u, d)
          /\ \A g \in Begun(u, d) : g[1] <= <<2071, 65>>[1]
      BY <2>1, <2>7
    <3> QED  BY <2>2, <3>1, LatestHasSize
  <2> QED  BY <2>3, <2>4, <2>5, <2>6, <2>7
<1>2. CASE u = "BANKNIFTY"
  <2>1. \A h : h \in Begun(u, d) <=>
               /\ h[1] <= d
               /\ h \in {<<0, 20>>, <<547, 25>>, <<1290, 15>>, <<1786, 35>>, <<2070, 30>>}
    BY <1>2, SizesAre DEF Begun
  <2>2. \A g \in Begun(u, d) : g[2] > 0  BY <2>1
  <2>3. CASE d < 547
    <3>1. /\ <<0, 20>> \in Begun(u, d)
          /\ \A g \in Begun(u, d) : g[1] <= <<0, 20>>[1]
      BY <2>1, <2>3
    <3> QED  BY <2>2, <3>1, LatestHasSize
  <2>4. CASE 547 <= d /\ d < 1290
    <3>1. /\ <<547, 25>> \in Begun(u, d)
          /\ \A g \in Begun(u, d) : g[1] <= <<547, 25>>[1]
      BY <2>1, <2>4
    <3> QED  BY <2>2, <3>1, LatestHasSize
  <2>5. CASE 1290 <= d /\ d < 1786
    <3>1. /\ <<1290, 15>> \in Begun(u, d)
          /\ \A g \in Begun(u, d) : g[1] <= <<1290, 15>>[1]
      BY <2>1, <2>5
    <3> QED  BY <2>2, <3>1, LatestHasSize
  <2>6. CASE 1786 <= d /\ d < 2070
    <3>1. /\ <<1786, 35>> \in Begun(u, d)
          /\ \A g \in Begun(u, d) : g[1] <= <<1786, 35>>[1]
      BY <2>1, <2>6
    <3> QED  BY <2>2, <3>1, LatestHasSize
  <2>7. CASE 2070 <= d
    <3>1. /\ <<2070, 30>> \in Begun(u, d)
          /\ \A g \in Begun(u, d) : g[1] <= <<2070, 30>>[1]
      BY <2>1, <2>7
    <3> QED  BY <2>2, <3>1, LatestHasSize
  <2> QED  BY <2>3, <2>4, <2>5, <2>6, <2>7
<1> QED  BY <1>1, <1>2

LEMMA SizeFromTheLaunch ==
    ASSUME NEW d \in Nat, d >= 1216
    PROVE  LotSize("SENSEX", d) > 0
<1>1. \A h : h \in Begun("SENSEX", d) <=>
             h[1] <= d /\ h \in {<<1216, 10>>, <<1786, 20>>}
  BY SizesAre DEF Begun
<1>2. \A g \in Begun("SENSEX", d) : g[2] > 0  BY <1>1
<1>3. CASE d < 1786
  <2>1. /\ <<1216, 10>> \in Begun("SENSEX", d)
        /\ \A g \in Begun("SENSEX", d) : g[1] <= <<1216, 10>>[1]
    BY <1>1, <1>3
  <2> QED  BY <1>2, <2>1, LatestHasSize
<1>4. CASE 1786 <= d
  <2>1. /\ <<1786, 20>> \in Begun("SENSEX", d)
        /\ \A g \in Begun("SENSEX", d) : g[1] <= <<1786, 20>>[1]
    BY <1>1, <1>4
  <2> QED  BY <1>2, <2>1, LatestHasSize
<1> QED  BY <1>3, <1>4

-----------------------------------------------------------------------------
(* The contracts of the indices that are taken on.                         *)

LEMMA LeastExists ==
    ASSUME NEW S, S \in SUBSET Nat, S # {}
    PROVE  \E x \in S : \A y \in S : x <= y
<1> DEFINE R == OpToRel(<, Nat)
<1>1. IsWellFoundedOn(R, Nat)  BY ONLY NatLessThanWellFounded
<1>2. \A x, y \in Nat : x < y => <<x, y>> \in R  BY DEF OpToRel
<1> HIDE DEF R
<1>3. \E x \in S : \A y \in S : ~(<<y, x>> \in R)  BY <1>1, WFMin
<1>4. \A y \in S : y \in Nat  OBVIOUS
<1>5. \A x \in S, y \in S : ~(<<y, x>> \in R) => x <= y  BY <1>2, <1>4
<1> QED  BY <1>3, <1>5

LEMMA NiftyRule ==
    ASSUME NEW s \in Days
    PROVE  NiftyWeekday[s] = IF s >= 2071 THEN 1 ELSE 3
<1> DEFINE rules == << <<2071, TUE>>, <<0, THU>> >>
           R == {i \in DOMAIN rules : s >= rules[i][1]}
<1>1. s \in Nat  BY WalkNumbers
<1>2. NiftyWeekday = RuleOn(rules)  BY DatesAre DEF NiftyWeekday, NIFTY_THU_TO_TUE, Ever
<1>3. NiftyWeekday[s] = rules[Min(R)][2]  BY <1>2 DEF RuleOn
<1>4. DOMAIN rules = 1..2 /\ rules[1] = <<2071, TUE>> /\ rules[2] = <<0, THU>>
  OBVIOUS
<1> HIDE DEF rules
<1>5. \A i \in 1..2 : i = 1 \/ i = 2  OBVIOUS
<1>6. \A i : i \in R <=> (i = 1 /\ s >= 2071) \/ i = 2  BY <1>1, <1>4, <1>5
<1> HIDE DEF R
<1>7. R \in SUBSET Int  BY <1>6
<1>8. CASE s >= 2071
  <2>1. 1 \in R /\ \A i \in R : 1 <= i  BY <1>1, <1>6, <1>8
  <2>2. Min(R) = 1  BY <1>7, <2>1, LeastIs
  <2> QED  BY <1>3, <1>4, <1>8, <2>2 DEF TUE
<1>9. CASE s < 2071
  <2>1. 2 \in R /\ \A i \in R : 2 <= i  BY <1>1, <1>6, <1>9
  <2>2. Min(R) = 2  BY <1>7, <2>1, LeastIs
  <2> QED  BY <1>1, <1>3, <1>4, <1>9, <2>2 DEF THU
<1> QED  BY <1>1, <1>8, <1>9

LEMMA SensexRule ==
    ASSUME NEW s \in Days
    PROVE  /\ s >= 2073 => SensexWeekday[s] = 3
           /\ s >= 1827 /\ s < 2073 => SensexWeekday[s] = 1
           /\ s >= 1216 /\ s < 1827 => SensexWeekday[s] = 4
           /\ s < 1216 => SensexWeekday[s] = 7
<1> DEFINE rules == << <<2073, THU>>, <<1827, TUE>>, <<1216, FRI>>, <<0, NoWeekly>> >>
           R == {i \in DOMAIN rules : s >= rules[i][1]}
<1>1. s \in Nat  BY WalkNumbers
<1>2. SensexWeekday = RuleOn(rules)
  BY DatesAre
     DEF SensexWeekday, SNX_WEEKLY_TUE_TO_THU, SNX_WEEKLY_FRI_TO_TUE, SNX_WEEKLY_LAUNCHED, Ever
<1>3. SensexWeekday[s] = rules[Min(R)][2]  BY <1>2 DEF RuleOn
<1>4. /\ DOMAIN rules = 1..4
      /\ rules[1] = <<2073, THU>> /\ rules[2] = <<1827, TUE>>
      /\ rules[3] = <<1216, FRI>> /\ rules[4] = <<0, NoWeekly>>
  OBVIOUS
<1> HIDE DEF rules
<1>5. \A i \in 1..4 : i = 1 \/ i = 2 \/ i = 3 \/ i = 4  OBVIOUS
<1>6. \A i : i \in R <=> \/ i = 1 /\ s >= 2073
                         \/ i = 2 /\ s >= 1827
                         \/ i = 3 /\ s >= 1216
                         \/ i = 4
  BY <1>1, <1>4, <1>5
<1> HIDE DEF R
<1>7. R \in SUBSET Int  BY <1>6
<1>8. CASE s >= 2073
  <2>1. 1 \in R /\ \A i \in R : 1 <= i  BY <1>1, <1>6, <1>8
  <2>2. Min(R) = 1  BY <1>7, <2>1, LeastIs
  <2> QED  BY <1>1, <1>3, <1>4, <1>8, <2>2 DEF THU
<1>9. CASE s >= 1827 /\ s < 2073
  <2>1. 2 \in R /\ \A i \in R : 2 <= i  BY <1>1, <1>6, <1>9
  <2>2. Min(R) = 2  BY <1>7, <2>1, LeastIs
  <2> QED  BY <1>1, <1>3, <1>4, <1>9, <2>2 DEF TUE
<1>10. CASE s >= 1216 /\ s < 1827
  <2>1. 3 \in R /\ \A i \in R : 3 <= i  BY <1>1, <1>6, <1>10
  <2>2. Min(R) = 3  BY <1>7, <2>1, LeastIs
  <2> QED  BY <1>1, <1>3, <1>4, <1>10, <2>2 DEF FRI
<1>11. CASE s < 1216
  <2>1. 4 \in R /\ \A i \in R : 4 <= i  BY <1>1, <1>6, <1>11
  <2>2. Min(R) = 4  BY <1>7, <2>1, LeastIs
  <2> QED  BY <1>1, <1>3, <1>4, <1>11, <2>2 DEF NoWeekly
<1> QED  BY <1>1, <1>8, <1>9, <1>10, <1>11

\* Before the launch SENSEX has no weekly expiry, and the first one, a Friday,
\* is four days after it, a Monday: moved back over the longest closure it is
\* not before the launch.
LEMMA LaunchedOn ==
    ASSUME NEW s \in Days, s < 1220
    PROVE  Weekday(s) # SensexWeekday[s]
<1>1. s \in Nat  BY WalkNumbers
<1>2. CASE s >= 1216
  <2>1. SensexWeekday[s] = 4  BY <1>1, <1>2, SensexRule
  <2>2. s = 1216 \/ s = 1217 \/ s = 1218 \/ s = 1219  BY <1>1, <1>2
  <2> QED  BY <2>1, <2>2 DEF Weekday
<1>3. CASE s < 1216
  <2>1. SensexWeekday[s] = 7  BY <1>1, <1>3, SensexRule
  <2> QED  BY <1>1, <2>1 DEF Weekday
<1> QED  BY <1>1, <1>2, <1>3

\* A week that one rule governs has a scheduled day; a week in which the rule
\* changes is followed by one that it does not change in.
LEMMA WeeklyComes ==
    ASSUME NEW u, Weekly(u), NEW b \in Nat, b + 12 <= LastDay + 90,
           u = "SENSEX" => b >= 1216
    PROVE  \E s \in Days : b <= s /\ s <= b + 12 /\ Scheduled(u, s)
<1>1. \A s : Scheduled(u, s) <=> Weekday(s) = WeeklyWeekday[u][s]
  BY DEF Scheduled, Weekly
<1>2. ASSUME NEW c \in Nat, b <= c, c <= b + 6, NEW wd \in 0..6,
             \A s \in Days : c <= s /\ s <= c + 6 => WeeklyWeekday[u][s] = wd
      PROVE  \E s \in Days : b <= s /\ s <= b + 12 /\ Scheduled(u, s)
  <2>1. PICK s \in c..(c + 6) : Weekday(s) = wd
    <3>1. c \in Nat /\ wd \in 0..6  BY <1>2
    <3> QED  BY ONLY <3>1, OneOfSeven
  <2>2. s \in Days /\ b <= s /\ s <= b + 12 /\ c <= s /\ s <= c + 6
    BY <1>2, <2>1, WalkNumbers
  <2> QED  BY <1>1, <1>2, <2>1, <2>2
<1>3. CASE u = "NIFTY"
  <2>1. \A s \in Days : s \in Nat /\ WeeklyWeekday[u][s] = IF s >= 2071 THEN 1 ELSE 3
    BY <1>3, NiftyRule, WalkNumbers DEF WeeklyWeekday
  <2>2. CASE b + 6 < 2071
    <3>1. \A s \in Days : b <= s /\ s <= b + 6 => WeeklyWeekday[u][s] = 3
      BY <2>1, <2>2
    <3> QED  BY <1>2, <3>1
  <2>3. CASE b < 2071 /\ 2071 <= b + 6
    <3>1. \A s \in Days : 2071 <= s /\ s <= 2071 + 6 => WeeklyWeekday[u][s] = 1
      BY <2>1
    <3> QED  BY <1>2, <2>3, <3>1
  <2>4. CASE 2071 <= b
    <3>1. \A s \in Days : b <= s /\ s <= b + 6 => WeeklyWeekday[u][s] = 1
      BY <2>1, <2>4
    <3> QED  BY <1>2, <3>1
  <2> QED  BY <2>2, <2>3, <2>4
<1>4. CASE u = "SENSEX"
  <2>1. \A s \in Days :
          /\ s \in Nat
          /\ s >= 2073 => WeeklyWeekday[u][s] = 3
          /\ s >= 1827 /\ s < 2073 => WeeklyWeekday[u][s] = 1
          /\ s >= 1216 /\ s < 1827 => WeeklyWeekday[u][s] = 4
    BY <1>4, SensexRule, WalkNumbers DEF WeeklyWeekday
  <2>2. CASE b + 6 < 1827
    <3>1. \A s \in Days : b <= s /\ s <= b + 6 => WeeklyWeekday[u][s] = 4
      BY <1>4, <2>1, <2>2
    <3> QED  BY <1>2, <3>1
  <2>3. CASE b < 1827 /\ 1827 <= b + 6
    <3>1. \A s \in Days : 1827 <= s /\ s <= 1827 + 6 => WeeklyWeekday[u][s] = 1
      BY <2>1
    <3> QED  BY <1>2, <2>3, <3>1
  <2>4. CASE 1827 <= b /\ b + 6 < 2073
    <3>1. \A s \in Days : b <= s /\ s <= b + 6 => WeeklyWeekday[u][s] = 1
      BY <2>1, <2>4
    <3> QED  BY <1>2, <3>1
  <2>5. CASE b < 2073 /\ 2073 <= b + 6
    <3>1. \A s \in Days : 2073 <= s /\ s <= 2073 + 6 => WeeklyWeekday[u][s] = 3
      BY <2>1
    <3> QED  BY <1>2, <2>5, <3>1
  <2>6. CASE 2073 <= b
    <3>1. \A s \in Days : b <= s /\ s <= b + 6 => WeeklyWeekday[u][s] = 3
      BY <2>1, <2>6
    <3> QED  BY <1>2, <3>1
  <2> QED  BY <2>2, <2>3, <2>4, <2>5, <2>6
<1> QED  BY <1>3, <1>4 DEF Weekly

\* From its launch on an index always has an expiry ahead.
LEMMA ExpiryComes ==
    ASSUME NEW u \in Underlyings, NEW d \in Nat, d <= LastDay,
           u = "SENSEX" => d >= 1216
    PROVE  DueAhead(u, d) # {}
<1>1. CASE u = "BANKNIFTY"  BY <1>1, MonthlyIsNearest
<1>2. CASE Weekly(u)
  <2>1. d + 4 \in Nat /\ (d + 4) + 12 <= LastDay + 90 /\ (u = "SENSEX" => d + 4 >= 1216)
    BY WalkNumbers
  <2>2. PICK s \in Days : d + 4 <= s /\ s <= (d + 4) + 12 /\ Scheduled(u, s)
    BY <1>2, <2>1, WeeklyComes
  <2>3. PrevTradingDay[s] \in Int /\ d <= PrevTradingDay[s] /\ PrevTradingDay[s] <= d + 16
    BY <2>2, PrevIs, WalkNumbers
  <2>4. s \in d..(d + 45)  BY <2>2, WalkNumbers
  <2>5. PrevTradingDay[s] \in Expiries(u, d, d + MaxGap)
    BY <2>2, <2>4, WalkNumbers DEF Expiries
  <2>6. Reach(u) = 35  BY <1>2, WalkNumbers DEF Reach, Weekly
  <2>7. PrevTradingDay[s] \in DueAhead(u, d)  BY <2>3, <2>5, <2>6 DEF DueAhead
  <2> QED  BY <2>7
<1> QED  BY <1>1, <1>2 DEF Underlyings, Weekly

\* The nearest of the expiries ahead is one of them.
LEMMA NearestIsDue ==
    ASSUME NEW u \in Underlyings, NEW d \in Nat, d <= LastDay, DueAhead(u, d) # {}
    PROVE  Min(DueAhead(u, d)) \in DueAhead(u, d)
<1> DEFINE S == DueAhead(u, d)
<1>1. S \in SUBSET Nat
  <2>1. ASSUME NEW e \in S PROVE e \in Nat
    <3>1. PICK s \in d..(d + MaxGap) : PrevTradingDay[s] = e
      BY DEF DueAhead, Expiries
    <3>2. s \in Days /\ d <= e  BY WalkNumbers DEF DueAhead
    <3>3. e \in Int  BY <3>1, <3>2, PrevIs
    <3> QED  BY <3>2, <3>3
  <2> QED  BY <2>1
<1> HIDE DEF S
<1>2. PICK x \in S : \A y \in S : x <= y  BY <1>1, LeastExists DEF S
<1>3. Min(S) = x  BY <1>1, <1>2, LeastIs
<1> QED  BY <1>2, <1>3 DEF S

\* For every such list: on any day the contract of what is taken on is an expiry
\* of the index that is still ahead, and it can be sized; under
\* trade_only_on_expiry it expires that very day.
THEOREM ContractsAreReal == WalkSpec => []TradesRealContracts
<1>1. ASSUME WalkInv, NEW u \in tradeable, onlyOnExpiry
      PROVE  contract[u] = today /\ (u = "SENSEX" => today >= 1216)
  <2>1. /\ today \in Nat /\ today <= LastDay /\ contract[u] = ExpiryForDate(u, today)
        /\ IsExpiryDay(u, today) /\ u \in Underlyings
    BY <1>1, WalkFacts
  <2>2. contract[u] = today
    <3>1. CASE Weekly(u)
      <4>1. contract[u] = IF Ahead(u, today) = {} THEN today ELSE Min(Ahead(u, today))
        BY <2>1, <3>1 DEF ExpiryForDate, Ahead, Weekly
      <4>2. today \in Ahead(u, today)  BY <2>1, WalkNumbers DEF Ahead
      <4>3. Ahead(u, today) \in SUBSET Int /\ \A e \in Ahead(u, today) : today <= e
        BY <2>1, WalkNumbers DEF Ahead
      <4>4. Min(Ahead(u, today)) = today  BY <4>2, <4>3, LeastIs
      <4> QED  BY <4>1, <4>4
    <3>2. CASE u = "BANKNIFTY"
      <4>1. contract[u] = MonthlyExpiry(today)  BY <2>1, <3>2 DEF ExpiryForDate
      <4>2. today = LastWeekdayOfMonth(MonthOf(today), BankNiftyMonthly[today])
        BY <2>1, <3>2 DEF IsExpiryDay, IsMonthlyExpiry
      <4>3. ~(today < today)  BY <2>1
      <4> QED  BY <4>1, <4>2, <4>3 DEF MonthlyExpiry
    <3> QED  BY <1>1, <2>1, <3>1, <3>2, WalkFacts
  <2>3. CASE u = "SENSEX"
    <3>1. Weekly(u) /\ today <= LastDay + 35  BY <2>1, <2>3, WalkNumbers DEF Weekly
    <3>2. PICK s \in Days : s <= today + 4 /\ Scheduled(u, s)
      BY <2>1, <3>1, WeeklyExpiry
    <3>3. Weekday(s) = SensexWeekday[s]  BY <2>3, <3>2 DEF Scheduled, WeeklyWeekday
    <3>4. ~(s < 1220) /\ s \in Nat  BY <3>3, LaunchedOn, WalkNumbers
    <3>5. today >= 1216  BY <2>1, <3>2, <3>4
    <3> QED  BY <2>2, <3>5
  <2> QED  BY <2>2, <2>3
<1>2. ASSUME WalkInv, NEW u \in tradeable, u = "SENSEX" => today >= 1216
      PROVE  /\ contract[u] >= today /\ contract[u] \in Expiries(u, today, today + MaxGap)
             /\ LotSize(u, today) > 0
  <2>1. today \in Nat /\ today <= LastDay /\ u \in Underlyings  BY <1>2, WalkFacts
  <2>2. DueAhead(u, today) # {}  BY <1>2, <2>1, ExpiryComes
  <2>3. contract[u] \in DueAhead(u, today)  BY <1>2, <2>1, <2>2, ContractIs, NearestIsDue
  <2>4. contract[u] >= today /\ contract[u] \in Expiries(u, today, today + MaxGap)
    BY <2>3 DEF DueAhead
  <2>5. LotSize(u, today) > 0
    BY <1>2, <2>1, SizeFromTheStart, SizeFromTheLaunch DEF Underlyings
  <2> QED  BY <2>4, <2>5
<1>3. WalkInv => TradesRealContracts
  <2> SUFFICES ASSUME WalkInv, NEW u \in tradeable
               PROVE  /\ onlyOnExpiry => contract[u] = today
                      /\ onlyOnExpiry \/ Launched(u) =>
                           /\ contract[u] >= today
                           /\ contract[u] \in Expiries(u, today, today + MaxGap)
                           /\ LotSize(u, today) > 0
    BY DEF TradesRealContracts
  <2>1. Launched(u) => (u = "SENSEX" => today >= 1216)
    BY DatesAre DEF Launched, SNX_WEEKLY_LAUNCHED
  <2> QED  BY <1>1, <1>2, <2>1
<1> QED  BY <1>3, WalkHolds, PTL

=============================================================================
