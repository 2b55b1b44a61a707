------------------------- MODULE BrokerClientProofs -------------------------
(***************************************************************************)
(* Proofs about the client of the broker, for every number of threads,     *)
(* budget, window and number of retries: the limiter keeps the budget of   *)
(* every window, and the answer of a call tells what the broker did.       *)
(*                                                                         *)
(* The limiter's list holds the calls of the last window in order of age,  *)
(* behind those that it has not pruned yet.                                *)
(***************************************************************************)
EXTENDS BrokerClient, SequenceTheorems, FiniteSetTheorems, TLAPS

\* Ages never rise along the list.
InOrder(s) == \A i \in 1..Len(s), j \in 1..Len(s) : i <= j => s[i] >= s[j]

\* The k-th call is the first that is still in the window.
First(s, k) ==
    /\ \A i \in 1..(k - 1) : s[i] >= Window
    /\ k <= Len(s) => s[k] < Window

\* No effect before an answer, one with it, and what the caller was told.
Effects(r) == IF r.at = "ok" \/ (r.at = "idle" /\ r.told) THEN 1 ELSE 0
CallSane(r) == r \in Calls /\ (~r.lost => r.effects = Effects(r))

CallsSane ==
    /\ call \in [Callers -> Calls]
    /\ \A c \in Callers : CallSane(call[c])

\* The budget holds; a thread that sleeps holds the lock, and wakes when the
\* oldest call has left the window.
LimiterSane ==
    /\ stamps \in Seq(0..Window) /\ InOrder(stamps)
    /\ recent = InWindow(stamps) /\ Len(recent) <= MaxRps
    /\ \A c \in Callers : At(c, "throttled") =>
         /\ lock = c /\ Len(stamps) \in 1..MaxRps
         /\ stamps[1] + call[c].sleep >= Window

Inv ==
    /\ client \in {"none", "good", "stale"} /\ lock \in Callers \cup {Free}
    /\ CallsSane /\ LimiterSane

USE BrokerClientAssumption

-----------------------------------------------------------------------------
(* Lemmas about the operators.                                             *)

LEMMA Constants ==
    /\ Window \in Nat /\ Window > 0 /\ MaxRps \in Nat /\ MaxRps > 0
    /\ MaxRetries \in Nat /\ MaxRetries > 0
OBVIOUS

LEMMA MinOfTwo ==
    ASSUME NEW a \in Nat, NEW b \in Nat
    PROVE  Min({a, b}) = IF a <= b THEN a ELSE b
<1>1. \E x \in {a, b} : \A y \in {a, b} : x <= y  OBVIOUS
<1>2. Min({a, b}) \in {a, b} /\ \A y \in {a, b} : Min({a, b}) <= y
  BY <1>1 DEF Min
<1> QED  BY <1>2

LEMMA SeqFacts ==
    ASSUME NEW s \in Seq(0..Window)
    PROVE  /\ Len(s) \in Nat /\ DOMAIN s = 1..Len(s)
           /\ \A i \in 1..Len(s) : s[i] \in 0..Window /\ s[i] \in Nat
BY LenProperties, ElementOfSeq

\* What is out of the window is a prefix: as long as it has members.
LEMMA FirstExists ==
    ASSUME NEW s \in Seq(0..Window), InOrder(s)
    PROVE  \E k \in 1..(Len(s) + 1) : First(s, k)
<1> DEFINE n == Len(s)
           Out == {i \in 1..n : s[i] >= Window}
           d == Cardinality(Out)
<1>1. n \in Nat /\ \A i \in 1..n : s[i] \in Nat  BY SeqFacts
<1>2. /\ \A m \in Nat : IsFiniteSet(1..m) /\ Cardinality(1..m) = m
  <2> SUFFICES ASSUME NEW m \in Nat PROVE IsFiniteSet(1..m) /\ Cardinality(1..m) = m
    OBVIOUS
  <2>1. /\ IsFiniteSet(1..m)
        /\ Cardinality(1..m) = IF 1 > m THEN 0 ELSE m - 1 + 1
    <3>1. 1 \in Int /\ m \in Int  OBVIOUS
    <3> QED  BY <3>1, FS_Interval
  <2> QED  BY <2>1
<1>3. Out \subseteq 1..n /\ IsFiniteSet(Out) /\ d \in Nat /\ d <= n
  <2>1. Out \subseteq 1..n /\ IsFiniteSet(1..n) /\ Cardinality(1..n) = n  BY <1>1, <1>2
  <2> QED  BY <2>1, FS_Subset, FS_CardinalityType
<1>4. \A i \in Out : 1..i \subseteq Out
  <2> SUFFICES ASSUME NEW i \in Out, NEW j \in 1..i PROVE j \in Out
    OBVIOUS
  <2>1. i \in 1..n /\ j \in 1..n /\ j <= i /\ s[i] >= Window  BY <1>1
  <2>2. s[j] >= s[i]  BY <2>1 DEF InOrder
  <2>3. s[i] \in Nat /\ s[j] \in Nat  BY <1>1, <2>1
  <2> QED  BY <2>1, <2>2, <2>3
<1>5. \A i \in Nat : 1..i \subseteq Out => i <= d
  <2> SUFFICES ASSUME NEW i \in Nat, 1..i \subseteq Out PROVE i <= d
    OBVIOUS
  <2>1. Cardinality(1..i) <= Cardinality(Out)  BY <1>3, FS_Subset
  <2> QED  BY <1>2, <2>1
<1>6. \A i \in 1..n : i \notin Out => d <= i - 1
  <2> SUFFICES ASSUME NEW i \in 1..n, i \notin Out PROVE d <= i - 1
    OBVIOUS
  <2>1. Out \subseteq 1..(i - 1)
    <3> SUFFICES ASSUME NEW j \in Out, ~(j \in 1..(i - 1)) PROVE FALSE
      OBVIOUS
    <3>1. i \in 1..j  BY <1>3
    <3> QED  BY <1>4, <3>1
  <2>2. i - 1 \in Nat  BY <1>1
  <2>3. Cardinality(Out) <= Cardinality(1..(i - 1))  BY <1>2, <2>1, <2>2, FS_Subset
  <2> QED  BY <1>2, <2>2, <2>3
<1>7. \A i \in 1..n : i \in Out <=> s[i] >= Window  OBVIOUS
<1> HIDE DEF d, Out
<1>8. \A i \in 1..d : s[i] >= Window
  <2> SUFFICES ASSUME NEW i \in 1..d PROVE s[i] >= Window
    OBVIOUS
  <2>1. i \in 1..n  BY <1>1, <1>3
  <2>2. i \in Out  BY <1>3, <1>6, <2>1
  <2> QED  BY <1>7, <2>1, <2>2
<1>9. d + 1 <= n => s[d + 1] < Window
  <2> SUFFICES ASSUME d + 1 <= n PROVE s[d + 1] < Window
    OBVIOUS
  <2>1. d + 1 \in 1..n /\ d + 1 \in Nat  BY <1>1, <1>3
  <2>2. d + 1 \notin Out
    <3>1. d + 1 \in Out => d + 1 <= d  BY <1>4, <1>5, <2>1
    <3> QED  BY <1>3, <3>1
  <2>3. s[d + 1] \in Nat  BY <1>1, <2>1
  <2> QED  BY <1>7, <2>1, <2>2, <2>3
<1>10. First(s, d + 1)
  <2>1. (d + 1) - 1 = d  BY <1>3
  <2> QED  BY <1>8, <1>9, <2>1 DEF First
<1>11. d + 1 \in 1..(Len(s) + 1)  BY <1>1, <1>3
<1> QED  BY <1>10, <1>11

\* There is one such place, where the pruned list begins.
LEMMA InWindowIs ==
    ASSUME NEW s \in Seq(0..Window), NEW k \in 1..(Len(s) + 1), First(s, k)
    PROVE  /\ InWindow(s) = SubSeq(s, k, Len(s))
           /\ InWindow(s) \in Seq(0..Window) /\ Len(InWindow(s)) = Len(s) - k + 1
           /\ \A i \in 1..(Len(s) - k + 1) : InWindow(s)[i] = s[k + i - 1]
<1>1. Len(s) \in Nat /\ \A i \in 1..Len(s) : s[i] \in 0..Window /\ s[i] \in Nat
  BY SeqFacts
<1>2. ASSUME NEW m \in 1..(Len(s) + 1), First(s, m) PROVE m = k
  <2>1. CASE m < k
    <3>1. m \in 1..(k - 1) /\ m <= Len(s) /\ s[m] \in Nat  BY <1>1, <2>1
    <3> QED  BY <1>2, <3>1 DEF First
  <2>2. CASE k < m
    <3>1. k \in 1..(m - 1) /\ k <= Len(s) /\ s[k] \in Nat  BY <1>1, <2>2
    <3> QED  BY <1>2, <3>1 DEF First
  <2> QED  BY <1>1, <2>1, <2>2
<1>3. (CHOOSE m \in 1..(Len(s) + 1) : First(s, m)) = k  BY <1>2
<1>4. InWindow(s) = SubSeq(s, k, Len(s))  BY <1>3 DEF InWindow, First
<1>5. \A i \in k..Len(s) : s[i] \in 0..Window  BY <1>1
<1>6. /\ SubSeq(s, k, Len(s)) \in Seq(0..Window)
      /\ Len(SubSeq(s, k, Len(s))) = IF k <= Len(s) THEN Len(s) - k + 1 ELSE 0
      /\ \A i \in 1..(Len(s) - k + 1) : SubSeq(s, k, Len(s))[i] = s[k + i - 1]
  BY <1>1, <1>5, SubSeqProperties
<1>7. Len(SubSeq(s, k, Len(s))) = Len(s) - k + 1  BY <1>1, <1>6
<1> QED  BY <1>4, <1>6, <1>7

\* What is left is in order, and all of it is in the window; pruned again, it
\* stays.
LEMMA InWindowProperties ==
    ASSUME NEW s \in Seq(0..Window), InOrder(s)
    PROVE  /\ InWindow(s) \in Seq(0..Window) /\ InOrder(InWindow(s))
           /\ \A i \in 1..Len(InWindow(s)) : InWindow(s)[i] < Window
           /\ Len(s) >= 1 /\ s[1] >= Window => Len(InWindow(s)) <= Len(s) - 1
           /\ Len(InWindow(s)) <= Len(s)
<1> DEFINE w == InWindow(s)
<1>1. Len(s) \in Nat /\ \A i \in 1..Len(s) : s[i] \in 0..Window /\ s[i] \in Nat
  BY SeqFacts
<1>2. PICK k \in 1..(Len(s) + 1) : First(s, k)  BY FirstExists
<1>3. /\ w \in Seq(0..Window) /\ Len(w) = Len(s) - k + 1
      /\ \A i \in 1..(Len(s) - k + 1) : w[i] = s[k + i - 1]
  BY <1>2, InWindowIs
<1> HIDE DEF w
<1>4. ASSUME NEW i \in 1..Len(w)
      PROVE  /\ w[i] = s[k + i - 1] /\ k + i - 1 \in 1..Len(s) /\ k <= k + i - 1
             /\ k \in 1..Len(s)
  BY <1>1, <1>3, <1>4
<1>5. InOrder(w)
  <2> SUFFICES ASSUME NEW i \in 1..Len(w), NEW j \in 1..Len(w), i <= j
               PROVE  w[i] >= w[j]
    BY DEF InOrder
  <2>1. k + i - 1 <= k + j - 1  BY <1>1, <1>3
  <2> QED  BY <1>4, <2>1 DEF InOrder
<1>6. ASSUME NEW i \in 1..Len(w) PROVE w[i] < Window
  <2>1. /\ w[i] = s[k + i - 1] /\ k + i - 1 \in 1..Len(s) /\ k <= k + i - 1
        /\ k \in 1..Len(s)
    BY <1>4, <1>6
  <2>2. s[k] < Window /\ s[k] >= s[k + i - 1]  BY <1>2, <2>1 DEF First, InOrder
  <2>3. s[k] \in Nat /\ s[k + i - 1] \in Nat  BY <1>1, <2>1
  <2> QED  BY <2>1, <2>2, <2>3, SMTT(30)
<1>7. Len(s) >= 1 /\ s[1] >= Window => Len(w) <= Len(s) - 1
  <2> SUFFICES ASSUME Len(s) >= 1, s[1] >= Window PROVE k # 1
    BY <1>1, <1>3
  <2>1. s[1] \in Nat  BY <1>1
  <2> QED  BY <1>1, <1>2, <2>1 DEF First
<1> QED  BY <1>1, <1>3, <1>5, <1>6, <1>7 DEF w

LEMMA AllInWindow ==
    ASSUME NEW s \in Seq(0..Window), \A i \in 1..Len(s) : s[i] < Window
    PROVE  InWindow(s) = s
<1>1. Len(s) \in Nat /\ 1 \in 1..(Len(s) + 1)  BY SeqFacts
<1>2. First(s, 1)  BY <1>1 DEF First
<1> QED  BY <1>1, <1>2, InWindowIs, SubSeqFull

\* A call that is let through joins those of the window.
LEMMA AppendZero ==
    ASSUME NEW w \in Seq(0..Window), InOrder(w), \A i \in 1..Len(w) : w[i] < Window
    PROVE  /\ Append(w, 0) \in Seq(0..Window) /\ InOrder(Append(w, 0))
           /\ InWindow(Append(w, 0)) = Append(w, 0)
           /\ Len(Append(w, 0)) = Len(w) + 1
<1> DEFINE a == Append(w, 0)
<1>1. Len(w) \in Nat /\ \A i \in 1..Len(w) : w[i] \in Nat  BY SeqFacts
<1>2. /\ a \in Seq(0..Window) /\ Len(a) = Len(w) + 1
      /\ \A i \in 1..Len(w) : a[i] = w[i]
      /\ a[Len(w) + 1] = 0
  <2>1. 0 \in 0..Window  OBVIOUS
  <2> QED  BY <2>1, AppendProperties
<1> HIDE DEF a
<1>3. \A i \in 1..Len(a) : \/ i \in 1..Len(w) /\ a[i] = w[i]
                           \/ i = Len(w) + 1 /\ a[i] = 0
  BY <1>1, <1>2
<1>4. InOrder(a)
  <2> SUFFICES ASSUME NEW i \in 1..Len(a), NEW j \in 1..Len(a), i <= j
               PROVE  a[i] >= a[j]
    BY DEF InOrder
  <2>1. CASE j \in 1..Len(w)
    <3>1. i \in 1..Len(w)  BY <1>1, <2>1
    <3> QED  BY <1>2, <2>1, <3>1 DEF InOrder
  <2>2. CASE j = Len(w) + 1
    <3>1. a[i] \in Nat  BY <1>1, <1>3
    <3> QED  BY <1>2, <2>2, <3>1
  <2> QED  BY <1>3, <2>1, <2>2
<1>5. \A i \in 1..Len(a) : a[i] < Window  BY <1>3, Constants
<1> QED  BY <1>2, <1>4, <1>5, AllInWindow DEF a

\* All grow older by a tick, up to the window.
LEMMA OlderProperties ==
    ASSUME NEW s \in Seq(0..Window)
    PROVE  /\ Older(s) \in Seq(0..Window) /\ Len(Older(s)) = Len(s)
           /\ \A i \in 1..Len(s) :
                Older(s)[i] = IF s[i] + 1 <= Window THEN s[i] + 1 ELSE Window
           /\ InOrder(s) => InOrder(Older(s))
<1>1. /\ Len(s) \in Nat /\ DOMAIN s = 1..Len(s)
      /\ \A i \in 1..Len(s) : s[i] \in 0..Window /\ s[i] \in Nat
  BY SeqFacts
<1>2. \A i \in 1..Len(s) :
        Min({s[i] + 1, Window}) = IF s[i] + 1 <= Window THEN s[i] + 1 ELSE Window
  BY <1>1, MinOfTwo
<1>3. Older(s) = [i \in 1..Len(s) |-> IF s[i] + 1 <= Window THEN s[i] + 1 ELSE Window]
  BY <1>1, <1>2 DEF Older
<1>4. /\ Older(s) \in [1..Len(s) -> 0..Window]
      /\ \A i \in 1..Len(s) :
            Older(s)[i] = IF s[i] + 1 <= Window THEN s[i] + 1 ELSE Window
  BY <1>1, <1>3
<1>5. Older(s) \in Seq(0..Window) /\ Len(Older(s)) = Len(s)  BY <1>1, <1>4
<1>6. InOrder(s) => InOrder(Older(s))
  <2> SUFFICES ASSUME InOrder(s), NEW i \in 1..Len(s), NEW j \in 1..Len(s), i <= j
               PROVE  Older(s)[i] >= Older(s)[j]
    BY <1>5 DEF InOrder
  <2>1. s[i] >= s[j] /\ s[i] \in Nat /\ s[j] \in Nat  BY <1>1 DEF InOrder
  <2> QED  BY <1>4, <2>1, SMTT(30)
<1> QED  BY <1>4, <1>5, <1>6

\* It makes no difference whether the list was pruned before the tick.
LEMMA OlderInWindow ==
    ASSUME NEW s \in Seq(0..Window), InOrder(s)
    PROVE  InWindow(Older(InWindow(s))) = InWindow(Older(s))
<1> DEFINE w == InWindow(s)
           o == Older(s)
           ow == Older(w)
           n == Len(s)
<1>1. n \in Nat /\ \A i \in 1..n : s[i] \in 0..Window /\ s[i] \in Nat  BY SeqFacts
<1>2. PICK k \in 1..(n + 1) : First(s, k)  BY FirstExists
<1>3. /\ w \in Seq(0..Window) /\ Len(w) = n - k + 1
      /\ \A i \in 1..(n - k + 1) : w[i] = s[k + i - 1]
  BY <1>2, InWindowIs
<1>4. /\ o \in Seq(0..Window) /\ Len(o) = n /\ InOrder(o)
      /\ \A i \in 1..n : o[i] = IF s[i] + 1 <= Window THEN s[i] + 1 ELSE Window
  BY OlderProperties
<1>5. /\ ow \in Seq(0..Window) /\ Len(ow) = n - k + 1
      /\ \A i \in 1..(n - k + 1) :
            ow[i] = IF w[i] + 1 <= Window THEN w[i] + 1 ELSE Window
  BY <1>3, OlderProperties
<1> HIDE DEF w, o, ow, n
<1>6. PICK m \in 1..(n + 1) : First(o, m)  BY <1>4, FirstExists
<1>7. /\ InWindow(o) \in Seq(0..Window) /\ Len(InWindow(o)) = n - m + 1
      /\ \A i \in 1..(n - m + 1) : InWindow(o)[i] = o[m + i - 1]
  BY <1>4, <1>6, InWindowIs
<1>8. k <= m
  <2> SUFFICES ASSUME m < k PROVE FALSE
    BY <1>1
  <2>1. m \in 1..(k - 1) /\ m \in 1..n  BY <1>1
  <2>2. s[m] >= Window /\ o[m] < Window  BY <1>2, <1>4, <1>6, <2>1 DEF First
  <2>3. s[m] \in Nat  BY <1>1, <2>1
  <2> QED  BY <1>4, <2>1, <2>2, <2>3, SMTT(30)
<1>9. \A i \in 1..(n - k + 1) : ow[i] = o[k + i - 1]
  <2> SUFFICES ASSUME NEW i \in 1..(n - k + 1) PROVE ow[i] = o[k + i - 1]
    OBVIOUS
  <2>1. k + i - 1 \in 1..n  BY <1>1
  <2>2. w[i] = s[k + i - 1]  BY <1>3
  <2>3. ow[i] = IF w[i] + 1 <= Window THEN w[i] + 1 ELSE Window  BY <1>5
  <2> QED  BY <1>4, <2>1, <2>2, <2>3
<1> DEFINE j == m - k + 1
<1>10. j \in 1..(Len(ow) + 1)  BY <1>1, <1>5, <1>8
<1>11. First(ow, j)
  <2>1. ASSUME NEW i \in 1..(j - 1) PROVE ow[i] >= Window
    <3>1. i \in 1..(n - k + 1) /\ k + i - 1 \in 1..(m - 1)  BY <1>1, <1>8, <2>1
    <3> QED  BY <1>6, <1>9, <3>1 DEF First
  <2>2. ASSUME j <= Len(ow) PROVE ow[j] < Window
    <3>1. j \in 1..(n - k + 1) /\ k + j - 1 = m /\ m <= n
      BY <1>1, <1>5, <1>8, <2>2
    <3> QED  BY <1>4, <1>6, <1>9, <3>1 DEF First
  <2> QED  BY <2>1, <2>2 DEF First
<1>12. /\ InWindow(ow) \in Seq(0..Window) /\ Len(InWindow(ow)) = Len(ow) - j + 1
       /\ \A i \in 1..(Len(ow) - j + 1) : InWindow(ow)[i] = ow[j + i - 1]
  BY <1>5, <1>10, <1>11, InWindowIs
<1>13. Len(ow) - j + 1 = n - m + 1  BY <1>1, <1>5
<1>14. ASSUME NEW i \in 1..(n - m + 1) PROVE InWindow(ow)[i] = InWindow(o)[i]
  <2>1. j + i - 1 \in 1..(n - k + 1) /\ k + (j + i - 1) - 1 = m + i - 1
    BY <1>1, <1>8, <1>14
  <2>2. InWindow(ow)[i] = ow[j + i - 1]  BY <1>12, <1>13, <1>14
  <2> QED  BY <1>7, <1>9, <1>14, <2>1, <2>2
<1> HIDE DEF j
<1>15. InWindow(ow) = InWindow(o)
  BY <1>7, <1>12, <1>13, <1>14, SeqEqual
<1> QED  BY <1>15 DEF o, ow, w

-----------------------------------------------------------------------------
(* The calls.                                                              *)

\* One call takes another state; the others stay.
LEMMA CallReplaced ==
    ASSUME CallsSane, NEW c \in Callers, NEW r, CallSane(r),
           call' = [call EXCEPT ![c] = r]
    PROVE  CallsSane' /\ \A d \in Callers : call'[d] = IF d = c THEN r ELSE call[d]
BY DEF CallsSane, CallSane, Effects

\* What the limiter knows is not touched by a call that neither begins nor
\* ends a sleep.
LEMMA LimiterUntouched ==
    ASSUME LimiterSane, UNCHANGED limiterVars,
           \A c \in Callers : (At(c, "throttled"))' =>
               At(c, "throttled") /\ call'[c].sleep = call[c].sleep
    PROVE  LimiterSane'
BY DEF LimiterSane, limiterVars, InOrder, InWindow, At

\* The call goes on to a place where it does not sleep.
LEMMA CallMoves ==
    ASSUME Inv, NEW c \in Callers, NEW r, CallSane(r), r.at # "throttled",
           call' = [call EXCEPT ![c] = r],
           client' \in {"none", "good", "stale"}, UNCHANGED limiterVars
    PROVE  Inv'
<1>1. CallsSane' /\ \A d \in Callers : call'[d] = IF d = c THEN r ELSE call[d]
  BY CallReplaced DEF Inv
<1>2. LimiterSane'
  <2>1. LimiterSane  BY DEF Inv
  <2>2. \A d \in Callers : (At(d, "throttled"))' =>
            At(d, "throttled") /\ call'[d].sleep = call[d].sleep
    BY <1>1 DEF At
  <2> QED  BY <2>1, <2>2, LimiterUntouched
<1> QED  BY <1>1, <1>2 DEF Inv, limiterVars

LEMMA NoCallSane ==
    /\ CallSane(NoCall)
    /\ \A k \in Kinds, b \in {"good", "stale"} :
         CallSane([NoCall EXCEPT !.at = "gate", !.kind = k, !.bound = b])
    /\ \A k \in Kinds : CallSane([NoCall EXCEPT !.at = "gate", !.kind = k])
<1>1. 0 \in 0..Window /\ 0 \in 0..MaxRetries /\ 0 \in Nat  BY Constants
<1>2. NoCall \in Calls  BY <1>1 DEF NoCall, Calls, Kinds
<1>3. NoCall.effects = 0 /\ NoCall.at = "idle" /\ ~NoCall.told  BY DEF NoCall
<1>4. ASSUME NEW k \in Kinds, NEW b \in {"good", "stale"}
      PROVE  CallSane([NoCall EXCEPT !.at = "gate", !.kind = k, !.bound = b])
  <2> DEFINE r == [NoCall EXCEPT !.at = "gate", !.kind = k, !.bound = b]
  <2>1. r \in Calls /\ r.at = "gate" /\ r.effects = 0  BY <1>2, <1>3 DEF Calls
  <2> HIDE DEF r
  <2>2. CallSane(r)  BY <2>1 DEF CallSane, Effects
  <2> QED  BY <2>2 DEF r
<1>5. ASSUME NEW k \in Kinds
      PROVE  CallSane([NoCall EXCEPT !.at = "gate", !.kind = k])
  <2> DEFINE r == [NoCall EXCEPT !.at = "gate", !.kind = k]
  <2>1. r \in Calls /\ r.at = "gate" /\ r.effects = 0  BY <1>2, <1>3 DEF Calls
  <2> HIDE DEF r
  <2>2. CallSane(r)  BY <2>1 DEF CallSane, Effects
  <2> QED  BY <2>2 DEF r
<1>6. CallSane(NoCall)  BY <1>2, <1>3 DEF CallSane, Effects
<1> QED  BY <1>4, <1>5, <1>6

LEMMA BeginInv ==
    ASSUME Inv, NEW c \in Callers, NEW k \in Kinds, Begin(c, k) \/ BeginAuthenticates(c, k)
    PROVE  Inv'
<1>1. CASE Begin(c, k)
  <2> DEFINE r == [NoCall EXCEPT !.at = "gate", !.kind = k, !.bound = client]
  <2>1. client \in {"good", "stale"}  BY <1>1 DEF Begin, Inv
  <2>2. CallSane(r) /\ r.at = "gate"  BY <2>1, NoCallSane DEF NoCall
  <2>3. call' = [call EXCEPT ![c] = r] /\ UNCHANGED limiterVars /\ client' = client
    BY <1>1 DEF Begin
  <2> HIDE DEF r
  <2> QED  BY <2>1, <2>2, <2>3, CallMoves
<1>2. CASE BeginAuthenticates(c, k)
  <2> DEFINE r == [NoCall EXCEPT !.at = "gate", !.kind = k]
  <2>1. CallSane(r) /\ r.at = "gate"  BY NoCallSane DEF NoCall
  <2>2. call' = [call EXCEPT ![c] = r] /\ UNCHANGED limiterVars /\ client' = "good"
    BY <1>2 DEF BeginAuthenticates
  <2> HIDE DEF r
  <2> QED  BY <2>1, <2>2, CallMoves
<1> QED  BY <1>1, <1>2

\* The call ends; its effects are those of its answer.
LEMMA ReturnsInv ==
    ASSUME Inv, NEW c \in Callers, NEW answer \in BOOLEAN, Returns(c, answer),
           answer => At(c, "ok"),
           ~answer => call[c].at \in {"raise", "auth", "retry"},
           UNCHANGED <<client, limiterVars>>
    PROVE  Inv'
<1> DEFINE r == [call[c] EXCEPT !.at = "idle", !.bound = "good", !.attempt = 0,
                                !.told = answer]
<1>1. call[c] \in Calls /\ (~call[c].lost => call[c].effects = Effects(call[c]))
  BY DEF Inv, CallsSane, CallSane
<1>2. r \in Calls /\ r.at = "idle" /\ r.told = answer /\ r.lost = call[c].lost
      /\ r.effects = call[c].effects
  <2>1. 0 \in 0..MaxRetries  BY Constants
  <2>2. r \in Calls  BY <1>1, <2>1 DEF Calls
  <2>3. r.at = "idle" /\ r.lost = call[c].lost /\ r.effects = call[c].effects
    BY <1>1 DEF Calls
  <2>4. r.told = answer  BY <1>1 DEF Calls
  <2> QED  BY <2>2, <2>3, <2>4
<1>3. call' = [call EXCEPT ![c] = r]  BY DEF Returns
<1>4. ~r.lost => r.effects = Effects(r)  BY <1>1, <1>2 DEF Effects, At
<1> HIDE DEF r
<1>5. CallSane(r)  BY <1>2, <1>4 DEF CallSane
<1>6. client' \in {"none", "good", "stale"} /\ UNCHANGED limiterVars  BY DEF Inv
<1> QED  BY <1>2, <1>3, <1>5, <1>6, CallMoves

\* The broker answers: an effect goes with "ok", or with a lost answer.
LEMMA AnswerInv ==
    ASSUME Inv, NEW c \in Callers, NEW next \in {"auth", "ok", "retry", "raise"},
           NEW done \in {0, 1}, NEW gone \in BOOLEAN, Answer(c, next, done, gone),
           gone \/ done = IF next = "ok" THEN 1 ELSE 0
    PROVE  Inv'
<1> DEFINE r == [call[c] EXCEPT !.at = next, !.effects = @ + done, !.lost = @ \/ gone]
<1>1. /\ call[c] \in Calls /\ (~call[c].lost => call[c].effects = Effects(call[c]))
      /\ call[c].at = "send" /\ call \in [Callers -> Calls]
  BY DEF Inv, CallsSane, CallSane, Answer, At
<1>2. /\ r \in Calls /\ r.at = next /\ r.effects = call[c].effects + done
      /\ ~r.lost => ~call[c].lost /\ ~gone
  <2>1. call[c].effects + done \in Nat /\ (call[c].lost \/ gone) \in BOOLEAN
    BY <1>1 DEF Calls
  <2>2. r \in Calls  BY <1>1, <2>1 DEF Calls
  <2>3. r.at = next /\ r.effects = call[c].effects + done  BY <1>1 DEF Calls
  <2>4. ~r.lost => ~call[c].lost /\ ~gone  BY <1>1 DEF Calls
  <2> QED  BY <2>2, <2>3, <2>4
<1>3. call' = [call EXCEPT ![c] = r]  BY <1>1 DEF Answer
<1>4. ~r.lost => r.effects = Effects(r)  BY <1>1, <1>2 DEF Effects
<1> HIDE DEF r
<1>5. CallSane(r)  BY <1>2, <1>4 DEF CallSane
<1>6. client' \in {"none", "good", "stale"} /\ UNCHANGED limiterVars  BY DEF Inv, Answer
<1> QED  BY <1>2, <1>3, <1>5, <1>6, CallMoves

LEMMA ApiInv == ASSUME Inv, NEW c \in Callers, Api(c) PROVE Inv'
<1>1. CASE Unauthorized(c)  BY <1>1, AnswerInv DEF Unauthorized
<1>2. CASE Accepted(c)  BY <1>2, AnswerInv DEF Accepted
<1>3. CASE AnswerLost(c)  BY <1>3, AnswerInv DEF AnswerLost
<1>4. CASE Outage(c)  BY <1>4, AnswerInv DEF Outage
<1>5. CASE Refused(c)
  <2>1. PICK class \in {"auth", "retry", "raise"} : Answer(c, class, 0, FALSE)
    BY <1>5 DEF Refused
  <2> QED  BY <2>1, AnswerInv
<1> QED  BY <1>1, <1>2, <1>3, <1>4, <1>5 DEF Api

\* The call is made again; it has had no effect that was not reported lost.
LEMMA AgainInv ==
    ASSUME Inv, NEW c \in Callers, Again(c), call[c].at \in {"auth", "retry"},
           call[c].attempt < MaxRetries,
           client' \in {"none", "good", "stale"}, UNCHANGED limiterVars
    PROVE  Inv'
<1> DEFINE r == [call[c] EXCEPT !.at = "gate", !.attempt = @ + 1]
<1>1. /\ call[c] \in Calls /\ (~call[c].lost => call[c].effects = Effects(call[c]))
      /\ call \in [Callers -> Calls] /\ call[c].attempt \in 0..MaxRetries
  BY DEF Inv, CallsSane, CallSane, Calls
<1>2. call[c].attempt + 1 \in 0..MaxRetries  BY <1>1, Constants
<1>3. /\ r \in Calls /\ r.at = "gate" /\ r.lost = call[c].lost
      /\ r.effects = call[c].effects
  BY <1>1, <1>2 DEF Calls
<1>4. call' = [call EXCEPT ![c] = r]  BY <1>1 DEF Again
<1>5. ~r.lost => r.effects = Effects(r)  BY <1>1, <1>3 DEF Effects
<1> HIDE DEF r
<1>6. CallSane(r)  BY <1>3, <1>5 DEF CallSane
<1> QED  BY <1>3, <1>4, <1>6, CallMoves

LEMMA SafeCallInv == ASSUME Inv, NEW c \in Callers, SafeCall(c) PROVE Inv'
<1>1. CASE Success(c)  BY <1>1, ReturnsInv DEF Success, At
<1>2. CASE Reauthenticate(c)
  BY <1>2, AgainInv, Constants DEF Reauthenticate, FirstAttempt, At
<1>3. CASE ReauthenticationFails(c)
  BY <1>3, ReturnsInv DEF ReauthenticationFails, ToldNothing, At
<1>4. CASE Raises(c)  BY <1>4, ReturnsInv DEF Raises, ToldNothing, At
<1>5. CASE Retry(c)  BY <1>5, AgainInv DEF Retry, At, Inv
<1>6. CASE Exhausted(c)  BY <1>6, ReturnsInv DEF Exhausted, ToldNothing, At
<1> QED  BY <1>1, <1>2, <1>3, <1>4, <1>5, <1>6 DEF SafeCall

-----------------------------------------------------------------------------
(* The limiter.                                                            *)

\* A call changes its place, and its sleep, before the broker is asked.
LEMMA GoesSane ==
    ASSUME CallsSane, NEW c \in Callers, call[c].at \in {"gate", "throttled"},
           NEW place \in {"send", "throttled"}, NEW n \in 0..Window,
           call' = [call EXCEPT ![c] = [@ EXCEPT !.at = place, !.sleep = n]]
    PROVE  /\ CallsSane'
           /\ \A d \in Callers : d # c => call'[d] = call[d]
           /\ call'[c].at = place /\ call'[c].sleep = n
<1> DEFINE r == [call[c] EXCEPT !.at = place, !.sleep = n]
<1>1. call[c] \in Calls /\ (~call[c].lost => call[c].effects = Effects(call[c]))
  BY DEF CallsSane, CallSane
<1>2. /\ r \in Calls /\ r.at = place /\ r.sleep = n /\ r.lost = call[c].lost
      /\ r.effects = call[c].effects
  BY <1>1 DEF Calls
<1>3. ~r.lost => r.effects = Effects(r)  BY <1>1, <1>2 DEF Effects
<1>4. call' = [call EXCEPT ![c] = r]  OBVIOUS
<1> HIDE DEF r
<1>5. CallSane(r)  BY <1>2, <1>3 DEF CallSane
<1> QED  BY <1>2, <1>4, <1>5, CallReplaced

\* A call joins the window if there is room, and no other thread sleeps.
LEMMA LetThroughSane ==
    ASSUME Inv, NEW c \in Callers, call[c].at \in {"gate", "throttled"}, LetThrough(c),
           Len(InWindow(stamps)) < MaxRps,
           \A d \in Callers \ {c} : ~At(d, "throttled")
    PROVE  CallsSane' /\ LimiterSane'
<1> DEFINE w == InWindow(stamps)
<1>1. stamps \in Seq(0..Window) /\ InOrder(stamps) /\ recent = w
  BY DEF Inv, LimiterSane
<1>2. /\ w \in Seq(0..Window) /\ InOrder(w) /\ \A i \in 1..Len(w) : w[i] < Window
      /\ Len(w) \in Nat
  BY <1>1, InWindowProperties, SeqFacts
<1>3. /\ Append(w, 0) \in Seq(0..Window) /\ InOrder(Append(w, 0))
      /\ InWindow(Append(w, 0)) = Append(w, 0) /\ Len(Append(w, 0)) = Len(w) + 1
  BY <1>2, AppendZero
<1>4. stamps' = Append(w, 0) /\ recent' = Append(w, 0)  BY <1>1 DEF LetThrough
<1>5. call[c] \in Calls /\ call \in [Callers -> Calls] /\ CallsSane
  BY DEF Inv, CallsSane
<1>6. /\ CallsSane' /\ call'[c].at = "send"
      /\ \A d \in Callers : d # c => call'[d] = call[d]
  <2>1. call[c].sleep \in 0..Window  BY <1>5 DEF Calls
  <2>2. call' = [call EXCEPT ![c] = [@ EXCEPT !.at = "send", !.sleep = call[c].sleep]]
    BY <1>5 DEF LetThrough, Goes, Calls
  <2> QED  BY <1>5, <2>1, <2>2, GoesSane
<1> HIDE DEF w
<1>7. Len(recent') <= MaxRps  BY <1>2, <1>3, <1>4, Constants DEF w
<1>8. \A d \in Callers : ~(At(d, "throttled"))'  BY <1>6 DEF At
<1>9. recent' = InWindow(stamps')  BY <1>3, <1>4
<1>10. stamps' \in Seq(0..Window) /\ InOrder(stamps')  BY <1>3, <1>4
<1> QED  BY <1>6, <1>7, <1>8, <1>9, <1>10 DEF LimiterSane, InOrder

LEMMA LimiterInv == ASSUME Inv, NEW c \in Callers, Limiter(c) PROVE Inv'
<1>0. /\ stamps \in Seq(0..Window) /\ InOrder(stamps) /\ recent = InWindow(stamps)
      /\ Len(recent) <= MaxRps /\ call \in [Callers -> Calls] /\ CallsSane
      /\ client \in {"none", "good", "stale"} /\ lock \in Callers \cup {Free}
  BY DEF Inv, LimiterSane, CallsSane
<1>1. CASE Acquire(c)
  <2>1. \A d \in Callers : ~At(d, "throttled")
    BY <1>1 DEF Inv, LimiterSane, Acquire, HasLock
  <2>2. CallsSane' /\ LimiterSane'
    BY <1>1, <2>1, LetThroughSane DEF Acquire, At
  <2> QED  BY <1>0, <1>1, <2>2 DEF Inv, Acquire
<1>2. CASE Throttle(c)
  <2> DEFINE w == InWindow(stamps)
  <2>1. /\ w \in Seq(0..Window) /\ InOrder(w) /\ Len(w) \in Nat
        /\ \A i \in 1..Len(w) : w[i] < Window /\ w[i] \in 0..Window
        /\ InWindow(w) = w
    BY <1>0, InWindowProperties, AllInWindow, SeqFacts
  <2>2. /\ Len(w) >= MaxRps /\ Len(w) <= MaxRps /\ stamps' = w /\ recent' = w
        /\ lock' = c /\ client' = client /\ call[c].at = "gate"
    BY <1>0, <1>2 DEF Throttle, At
  <2>3. Len(w) \in 1..MaxRps /\ w[1] \in 0..Window  BY <2>1, <2>2, Constants
  <2> DEFINE n == Window - w[1]
  <2>4. n \in 0..Window /\ w[1] + n >= Window  BY <2>3, Constants
  <2>5. call' = [call EXCEPT ![c] = [@ EXCEPT !.at = "throttled", !.sleep = n]]
    BY <1>0, <1>2, <2>2 DEF Throttle
  <2> HIDE DEF n, w
  <2>6. /\ CallsSane' /\ call'[c].at = "throttled" /\ call'[c].sleep = n
        /\ \A d \in Callers : d # c => call'[d] = call[d]
    BY <1>0, <2>2, <2>4, <2>5, GoesSane
  <2>7. \A d \in Callers : ~At(d, "throttled")
    BY <1>2 DEF Inv, LimiterSane, Throttle, HasLock
  <2>8. \A d \in Callers : (At(d, "throttled"))' => d = c  BY <2>6, <2>7 DEF At
  <2>9. stamps'[1] + call'[c].sleep >= Window  BY <2>2, <2>4, <2>6
  <2>10. LimiterSane'
    BY <2>1, <2>2, <2>3, <2>8, <2>9 DEF LimiterSane, InOrder
  <2> QED  BY <1>0, <2>2, <2>6, <2>10 DEF Inv
<1>3. CASE WakeUp(c)
  <2>1. /\ lock = c /\ Len(stamps) \in 1..MaxRps /\ call[c].sleep = 0
        /\ stamps[1] + call[c].sleep >= Window /\ At(c, "throttled")
        /\ \A d \in Callers \ {c} : ~At(d, "throttled")
    BY <1>3 DEF Inv, LimiterSane, WakeUp
  <2>2. stamps[1] \in Nat  BY <1>0, <2>1, SeqFacts
  <2>3. stamps[1] >= Window  BY <2>1, <2>2, Constants
  <2>4. Len(InWindow(stamps)) <= Len(stamps) - 1
    BY <1>0, <2>1, <2>3, InWindowProperties, SMTT(30)
  <2>5. Len(InWindow(stamps)) \in Nat  BY <1>0, InWindowProperties, SeqFacts
  <2>6. Len(InWindow(stamps)) < MaxRps  BY <2>1, <2>4, <2>5, Constants
  <2>7. CallsSane' /\ LimiterSane'
    BY <1>3, <2>1, <2>6, LetThroughSane DEF WakeUp, At
  <2> QED  BY <1>0, <1>3, <2>7 DEF Inv, WakeUp
<1> QED  BY <1>1, <1>2, <1>3 DEF Limiter

-----------------------------------------------------------------------------
(* Time.                                                                   *)

LEMMA TickInv == ASSUME Inv, Tick PROVE Inv'
<1>0. /\ stamps \in Seq(0..Window) /\ InOrder(stamps) /\ recent = InWindow(stamps)
      /\ Len(recent) <= MaxRps /\ call \in [Callers -> Calls] /\ CallsSane
      /\ client \in {"none", "good", "stale"} /\ lock \in Callers \cup {Free}
  BY DEF Inv, LimiterSane, CallsSane
<1>1. /\ stamps' = Older(stamps) /\ recent' = InWindow(Older(recent))
      /\ client' = client /\ lock' = lock
      /\ \A c \in Callers : call'[c] = [call[c] EXCEPT !.sleep = IF @ > 0 THEN @ - 1 ELSE 0]
  BY DEF Tick
<1>2. /\ stamps' \in Seq(0..Window) /\ Len(stamps') = Len(stamps) /\ InOrder(stamps')
      /\ \A i \in 1..Len(stamps) :
            stamps'[i] = IF stamps[i] + 1 <= Window THEN stamps[i] + 1 ELSE Window
  <2>1. InOrder(Older(stamps))  BY <1>0, OlderProperties
  <2> QED  BY <1>0, <1>1, <2>1, OlderProperties DEF InOrder
<1>3. recent' = InWindow(stamps')  BY <1>0, <1>1, OlderInWindow
<1>4. Len(recent') <= MaxRps
  <2>1. recent \in Seq(0..Window) /\ InOrder(recent)  BY <1>0, InWindowProperties
  <2>2. /\ Older(recent) \in Seq(0..Window) /\ InOrder(Older(recent))
        /\ Len(Older(recent)) = Len(recent)
    BY <2>1, OlderProperties
  <2>3. Len(InWindow(Older(recent))) <= Len(Older(recent))
        /\ InWindow(Older(recent)) \in Seq(0..Window)
    BY <2>2, InWindowProperties
  <2>4. Len(InWindow(Older(recent))) \in Nat /\ Len(recent) \in Nat
    BY <2>1, <2>3, SeqFacts
  <2> QED  BY <1>0, <1>1, <2>2, <2>3, <2>4, Constants
<1>5. ASSUME NEW c \in Callers
      PROVE  /\ call'[c] \in Calls /\ call'[c].at = call[c].at
             /\ CallSane(call'[c])
             /\ call'[c].sleep = IF call[c].sleep > 0 THEN call[c].sleep - 1 ELSE 0
  <2> DEFINE r == [call[c] EXCEPT !.sleep = IF @ > 0 THEN @ - 1 ELSE 0]
  <2>1. call[c] \in Calls /\ (~call[c].lost => call[c].effects = Effects(call[c]))
        /\ call[c].sleep \in 0..Window
    BY <1>0 DEF CallsSane, CallSane, Calls
  <2>2. (IF call[c].sleep > 0 THEN call[c].sleep - 1 ELSE 0) \in 0..Window
    BY <2>1, Constants
  <2>3. /\ r \in Calls /\ r.at = call[c].at /\ r.lost = call[c].lost
        /\ r.effects = call[c].effects /\ r.told = call[c].told
        /\ r.sleep = IF call[c].sleep > 0 THEN call[c].sleep - 1 ELSE 0
    BY <2>1, <2>2 DEF Calls
  <2>4. call'[c] = r  BY <1>1
  <2> HIDE DEF r
  <2>5. CallSane(r)  BY <2>1, <2>3 DEF CallSane, Effects
  <2> QED  BY <2>3, <2>4, <2>5
<1>6. call' \in [Callers -> Calls]
  <2>1. call' = [c \in Callers |-> call'[c]]  BY DEF Tick
  <2> QED  BY <1>5, <2>1
<1>7. CallsSane'  BY <1>5, <1>6 DEF CallsSane
<1>8. ASSUME NEW c \in Callers, (At(c, "throttled"))'
      PROVE  /\ lock' = c /\ Len(stamps') \in 1..MaxRps
             /\ stamps'[1] + call'[c].sleep >= Window
  <2>1. /\ lock = c /\ Len(stamps) \in 1..MaxRps
        /\ stamps[1] + call[c].sleep >= Window
    BY <1>5, <1>8 DEF Inv, LimiterSane, At
  <2>2. 1 \in 1..Len(stamps) /\ stamps[1] \in Nat /\ call[c].sleep \in Nat
    BY <1>0, <2>1, SeqFacts DEF Calls
  <2> DEFINE a == stamps'[1]
             z == call'[c].sleep
  <2>3. /\ a = IF stamps[1] + 1 <= Window THEN stamps[1] + 1 ELSE Window
        /\ z = IF call[c].sleep > 0 THEN call[c].sleep - 1 ELSE 0
    BY <1>2, <1>5, <2>2
  <2> HIDE DEF a, z
  <2>4. a + z >= Window  BY <2>1, <2>2, <2>3, Constants, SMTT(30)
  <2> QED  BY <1>1, <1>2, <2>1, <2>4 DEF a, z
<1>9. LimiterSane'  BY <1>2, <1>3, <1>4, <1>8 DEF LimiterSane
<1> QED  BY <1>0, <1>1, <1>7, <1>9 DEF Inv

LEMMA ExpireInv == ASSUME Inv, Expire PROVE Inv'
<1>0. call \in [Callers -> Calls] /\ CallsSane /\ LimiterSane
      /\ lock \in Callers \cup {Free}
  BY DEF Inv, CallsSane
<1>1. /\ client' = "stale" /\ UNCHANGED limiterVars
      /\ \A c \in Callers :
            call'[c] = [call[c] EXCEPT !.bound = IF At(c, "idle") THEN @ ELSE "stale"]
  BY DEF Expire
<1>2. ASSUME NEW c \in Callers
      PROVE  /\ call'[c] \in Calls /\ CallSane(call'[c])
             /\ call'[c].at = call[c].at /\ call'[c].sleep = call[c].sleep
  <2>1. call[c] \in Calls /\ (~call[c].lost => call[c].effects = Effects(call[c]))
    BY <1>0 DEF CallsSane, CallSane
  <2> QED  BY <1>1, <2>1, ZenonT(30) DEF Calls, CallSane, Effects
<1>3. call' \in [Callers -> Calls]
  <2>1. call' = [c \in Callers |-> call'[c]]  BY DEF Expire
  <2> QED  BY <1>2, <2>1
<1>4. CallsSane'  BY <1>2, <1>3 DEF CallsSane
<1>5. LimiterSane'  BY <1>0, <1>1, <1>2, LimiterUntouched DEF At
<1> QED  BY <1>0, <1>1, <1>4, <1>5 DEF Inv, limiterVars

-----------------------------------------------------------------------------
(* The invariant, and what it says of the client.                          *)

LEMMA InitInv == ASSUME Init PROVE Inv
<1>1. CallsSane  BY NoCallSane DEF Init, CallsSane, CallSane
<1>2. LimiterSane
  <2>1. stamps = <<>> /\ recent = <<>> /\ Len(stamps) = 0 /\ stamps \in Seq(0..Window)
    BY EmptySeq DEF Init
  <2>2. InWindow(stamps) = stamps
    <3>1. \A i \in 1..Len(stamps) : stamps[i] < Window  BY <2>1
    <3> QED  BY <2>1, <3>1, AllInWindow
  <2>3. \A c \in Callers : ~At(c, "throttled")  BY DEF Init, At, NoCall
  <2> QED  BY <2>1, <2>2, <2>3, Constants DEF LimiterSane, InOrder
<1> QED  BY <1>1, <1>2 DEF Init, Inv

LEMMA StepInv == ASSUME Inv, [Next]_vars PROVE Inv'
<1>1. ASSUME NEW c \in Callers, NEW k \in Kinds, Begin(c, k) \/ BeginAuthenticates(c, k)
      PROVE  Inv'
  BY <1>1, BeginInv
<1>2. ASSUME NEW c \in Callers, Limiter(c) \/ Api(c) \/ SafeCall(c) PROVE Inv'
  BY <1>2, LimiterInv, ApiInv, SafeCallInv
<1>3. CASE Tick  BY <1>3, TickInv
<1>4. CASE Expire  BY <1>4, ExpireInv
<1>5. CASE UNCHANGED vars
  <2>1. CallsSane'  BY <1>5 DEF Inv, CallsSane, CallSane, Effects, vars
  <2>2. LimiterSane'  BY <1>5, LimiterUntouched DEF Inv, vars, At
  <2> QED  BY <1>5, <2>1, <2>2 DEF Inv, vars, limiterVars
<1> QED  BY <1>1, <1>2, <1>3, <1>4, <1>5 DEF Next

\* The inductive invariant of the client: the limiter's list is the calls of its
\* window, and each call knows what effect it has had.
THEOREM InvHolds == Spec => []Inv
<1>1. Init => Inv  BY InitInv
<1>2. Inv /\ [Next]_vars => Inv'  BY StepInv
<1> QED  BY <1>1, <1>2, PTL DEF Spec

\* However many threads fetch and retry, no window of a second has more calls
\* than max_rps.
THEOREM RateIsKept == Spec => []RateHolds
<1>1. ASSUME Inv PROVE RateHolds
  <2>1. recent \in Seq(0..Window)
    BY <1>1, InWindowProperties DEF Inv, LimiterSane
  <2> QED  BY <1>1, <2>1 DEF Inv, LimiterSane, CallsSane, RateHolds, TypeOK
<1> QED  BY <1>1, InvHolds, PTL

\* A call that answered placed, or cancelled, exactly one order, and one that
\* returned None none, unless an answer was lost on the way.
THEOREM AnswersTell == Spec => []AnswerTells
<1>1. Inv => AnswerTells
  BY DEF Inv, CallsSane, CallSane, Effects, AnswerTells, At
<1> QED  BY <1>1, InvHolds, PTL
=============================================================================
