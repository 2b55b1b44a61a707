-------------------------- MODULE CandleFeedProofs --------------------------
(***************************************************************************)
(* Proofs about the candles, for every number of polls to a bar, session,  *)
(* length of the history and number of restarts: no bar built from prices  *)
(* is before an older one, and the data-gap breaker is on exactly for a    *)
(* gap that a poll has seen.                                               *)
(*                                                                         *)
(* Nothing on file or in the history is later than the clock, so that a    *)
(* bar built from prices always goes behind those restored or downloaded.  *)
(***************************************************************************)
EXTENDS CandleFeed, FiniteSetTheorems, SequenceTheorems, TLAPS

\* Every two bars of the history are as OwnBarsInOrder has them.
Together(s) == \A i \in 1..Len(s), j \in 1..Len(s) : i < j => MayPrecede(s[i], s[j])

\* A history of bars that have begun by bar c.
History(s, c) ==
    /\ s \in Seq(BarRecs) /\ Len(s) <= MaxBars
    /\ \A i \in 1..Len(s) : s[i].dt <= c

\* What was saved had closed before bar c; so had what was not downloaded.
Past(s, c) == \A i \in 1..Len(s) : s[i].dt < c
Settled(s, c) == \A i \in 1..Len(s) : s[i].src # "file" => s[i].dt < c

\* A file of bars that have begun by bar c.
File(file, c) ==
    /\ file \in [Bars -> 0..Final]
    /\ \A b \in Bars : file[b] # 0 => b <= c

\* The forming candle is not older than any bar of the history, and of the
\* interval of none but one that was downloaded.
Candles == [dt : Bars \cup {None}, ticks : 0..Polls]
FormingLast ==
    /\ forming \in Candles
    /\ forming # NoCandle =>
         /\ forming.dt \in Bars /\ forming.ticks > 0 /\ forming.dt <= Current
         /\ \A i \in 1..Len(bars) : bars[i].dt <= forming.dt
         /\ Settled(bars, forming.dt)

\* An option that is not tracked yet has nothing.
Untracked == ~tracked => bars = <<>> /\ forming = NoCandle /\ ~broken /\ ~closedBar

\* The breaker is on for a gap that is still there.
BrokenGap ==
    broken => bars # <<>> /\ forming # NoCandle /\ forming.dt > LastOf(bars).dt + 1

\* A bar that waits for its scan was closed by the prices of the poll before,
\* and the breaker is on if they came too late; unless a pass was cut short.
JustClosed ==
    closedBar =>
        /\ phase \in {"spot", "scan", "raised"} /\ bars # <<>>
        /\ ~held => /\ now > 0 /\ LastOf(bars).dt < Bar(now - 1)
                    /\ ~broken => Bar(now - 1) <= LastOf(bars).dt + 2

Phases == {"start", "spot", "scan", "raised", "ltp"}
Rest ==
    /\ now \in 0..EndOfDay /\ phase \in Phases
    /\ lastCandle \in Bars \cup {None} /\ scanned \in Bars \cup {None}
    /\ tracked \in BOOLEAN /\ broken \in BOOLEAN /\ closedBar \in BOOLEAN
    /\ held \in BOOLEAN /\ restarts \in 0..MaxRestarts

Candled ==
    /\ History(bars, Current) /\ Together(bars) /\ Settled(bars, Current)
    /\ History(cache, Current) /\ Past(cache, Current)

Inv ==
    /\ Rest /\ File(spotFile, Current) /\ File(optFile, Current) /\ Candled
    /\ FormingLast /\ Untracked /\ BrokenGap /\ JustClosed /\ GapHalts

USE CandleFeedAssumption

-----------------------------------------------------------------------------
(* The clock.                                                              *)

LEMMA Constants ==
    /\ Polls \in Nat /\ Polls > 0 /\ LastBar \in Nat /\ None \in Nat /\ None = LastBar + 1
    /\ MaxBars \in Nat /\ MaxBars > 0 /\ Final \in Nat /\ Final = Polls + 1
    /\ None \notin Bars
BY DEF None, Final, Bars

LEMMA BarIs ==
    ASSUME NEW n \in Nat
    PROVE  Bar(n) \in Nat /\ Bar(n) * Polls <= n /\ n < Bar(n) * Polls + Polls
BY Constants DEF Bar

\* The bar of a poll is the only one whose interval the poll is in.
LEMMA Between ==
    ASSUME NEW q \in Nat, NEW r \in Nat, NEW n \in Nat,
           q * Polls <= n, n < r * Polls + Polls
    PROVE  q <= r
<1> SUFFICES ASSUME q > r PROVE FALSE  OBVIOUS
<1> DEFINE d == q - r - 1
<1>1. d \in Nat /\ q = r + 1 + d  OBVIOUS
<1> HIDE DEF d
<1>2. q * Polls = r * Polls + Polls + d * Polls  BY <1>1, Constants
<1>3. d * Polls \in Nat /\ r * Polls \in Nat /\ q * Polls \in Nat  BY <1>1, Constants
<1> DEFINE x == r * Polls
           y == q * Polls
           z == d * Polls
<1>4. x \in Nat /\ y \in Nat /\ z \in Nat /\ y = x + Polls + z /\ y <= n /\ n < x + Polls
  BY <1>2, <1>3
<1> HIDE DEF x, y, z
<1> QED  BY <1>4, Constants

LEMMA BarGrows ==
    ASSUME NEW m \in Nat, NEW n \in Nat, m <= n
    PROVE  Bar(m) <= Bar(n)
<1> DEFINE q == Bar(m)
           r == Bar(n)
           x == q * Polls
           y == r * Polls
<1>1. q \in Nat /\ r \in Nat /\ x <= m /\ n < y + Polls  BY BarIs
<1>2. x \in Nat /\ y \in Nat  BY <1>1, Constants
<1>3. x <= n  BY <1>1, <1>2
<1> HIDE DEF q, r
<1>4. q <= r  BY <1>1, <1>3, Between
<1> QED  BY <1>4 DEF q, r

LEMMA BarOfSession ==
    ASSUME NEW n \in 0..EndOfDay
    PROVE  n \in Nat /\ Bar(n) \in Bars
<1>1. n \in Nat /\ n < LastBar * Polls + Polls
  <2>1. (LastBar + 1) * Polls = LastBar * Polls + Polls  BY Constants
  <2>2. LastBar * Polls \in Nat  BY Constants
  <2> QED  BY <2>1, <2>2, Constants DEF EndOfDay
<1> DEFINE q == Bar(n)
<1>2. q \in Nat /\ q * Polls <= n  BY <1>1, BarIs
<1> HIDE DEF q
<1>3. q <= LastBar  BY <1>1, <1>2, Between, Constants
<1>4. q \in Bars  BY <1>2, <1>3 DEF Bars
<1> QED  BY <1>1, <1>4 DEF q

LEMMA MinOfTwo ==
    ASSUME NEW a \in Nat, NEW b \in Nat
    PROVE  Min({a, b}) = IF a <= b THEN a ELSE b
<1>1. \E x \in {a, b} : \A y \in {a, b} : x <= y  OBVIOUS
<1>2. Min({a, b}) \in {a, b} /\ \A y \in {a, b} : Min({a, b}) <= y
  BY <1>1 DEF Min
<1> QED  BY <1>2

\* A bar has been seen of as soon as its interval has begun.
LEMMA SeenIs ==
    ASSUME NEW b \in Bars, NEW n \in Nat
    PROVE  Seen(b, n) \in 0..Final /\ (Seen(b, n) # 0 => b <= Bar(n))
<1>0. b \in Nat /\ b * Polls \in Nat  BY Constants DEF Bars
<1>1. CASE n < b * Polls  BY <1>1, Constants DEF Seen
<1>2. CASE ~(n < b * Polls)
  <2>1. n - b * Polls + 1 \in Nat  BY <1>0, <1>2
  <2>2. Seen(b, n) \in 0..Final  BY <1>2, <2>1, MinOfTwo, Constants DEF Seen
  <2>3. Bar(n) \in Nat /\ n < Bar(n) * Polls + Polls  BY BarIs
  <2>4. b * Polls <= n  BY <1>0, <1>2
  <2>5. b <= Bar(n)  BY <1>0, <2>3, <2>4, Between
  <2> QED  BY <2>2, <2>5
<1> QED  BY <1>1, <1>2

-----------------------------------------------------------------------------
(* The candle files.                                                       *)

LEMMA FileKept ==
    ASSUME NEW file, NEW c \in Nat, NEW d \in Nat, c <= d, File(file, c)
    PROVE  File(file, d)
<1>1. \A b \in Bars : b \in Nat  BY DEF Bars
<1> QED  BY <1>1 DEF File

LEMMA MergeIs ==
    ASSUME NEW file, now \in Nat, File(file, Current)
    PROVE  File(Merge(file), Current)
<1>1. \A b \in Bars : Merge(file)[b] = IF file[b] = 0 THEN Seen(b, now) ELSE file[b]
  BY DEF Merge
<1>2. \A b \in Bars : file[b] \in 0..Final /\ (file[b] # 0 => b <= Current)
  BY DEF File
<1>3. \A b \in Bars : Seen(b, now) \in 0..Final /\ (Seen(b, now) # 0 => b <= Current)
  BY SeenIs DEF Current
<1>4. \A b \in Bars : Merge(file)[b] \in 0..Final /\ (Merge(file)[b] # 0 => b <= Current)
  BY <1>1, <1>2, <1>3
<1>5. Merge(file) \in [Bars -> 0..Final]  BY <1>1, <1>4 DEF Merge
<1> QED  BY <1>4, <1>5 DEF File

LEMMA FetchedIs ==
    ASSUME NEW file, now \in Nat, File(file, Current), NEW f \in Download(file)
    PROVE  File(f, Current)
BY MergeIs DEF Download

-----------------------------------------------------------------------------
(* The rows of a file in the order of their dates: the rank of a number in *)
(* a finite set is the count of smaller ones.                              *)

Rank(T, x) == Cardinality({y \in T : y < x})

LEMMA RankIs ==
    ASSUME NEW T \in SUBSET Nat, IsFiniteSet(T), NEW x \in T
    PROVE  Rank(T, x) \in 0..(Cardinality(T) - 1)
<1> DEFINE A == {y \in T : y < x}
           B == T \ {x}
<1>1. IsFiniteSet(B) /\ Cardinality(B) = Cardinality(T) - 1  BY FS_RemoveElement
<1>2. A \in SUBSET B  OBVIOUS
<1>3. IsFiniteSet(A) /\ Cardinality(A) <= Cardinality(B)  BY <1>1, <1>2, FS_Subset
<1>4. Cardinality(A) \in Nat /\ Cardinality(T) \in Nat  BY <1>3, FS_CardinalityType
<1> HIDE DEF A, B
<1>5. Cardinality(A) \in 0..(Cardinality(T) - 1)  BY <1>1, <1>3, <1>4
<1> QED  BY <1>5 DEF Rank, A

LEMMA RankRises ==
    ASSUME NEW T \in SUBSET Nat, IsFiniteSet(T), NEW x \in T, NEW y \in T, x < y
    PROVE  Rank(T, x) < Rank(T, y)
<1> DEFINE A == {z \in T : z < x}
           B == {z \in T : z < y}
           C == A \cup {x}
<1>1. A \in SUBSET T /\ B \in SUBSET T  OBVIOUS
<1>2. IsFiniteSet(A) /\ IsFiniteSet(B)  BY <1>1, FS_Subset
<1>3. x \notin A /\ C \in SUBSET B
  <2>1. \A z \in T : z \in Nat  OBVIOUS
  <2>2. \A z \in A : z \in B  BY <2>1
  <2>3. x \notin A /\ x \in B  BY <2>1
  <2> QED  BY <2>2, <2>3
<1> HIDE DEF A, B
<1>4. Cardinality(C) = Cardinality(A) + 1  BY <1>2, <1>3, FS_AddElement
<1>5. Cardinality(C) <= Cardinality(B)  BY <1>2, <1>3, FS_Subset
<1>6. Cardinality(A) \in Nat /\ Cardinality(B) \in Nat  BY <1>2, FS_CardinalityType
<1> HIDE DEF C
<1>7. Cardinality(A) < Cardinality(B)  BY <1>4, <1>5, <1>6
<1> QED  BY <1>7 DEF Rank, A, B

\* Every rank is taken: else two members would share one.
LEMMA RankTaken ==
    ASSUME NEW T \in SUBSET Nat, IsFiniteSet(T), NEW i \in 1..Cardinality(T)
    PROVE  \E x \in T : Rank(T, x) = i - 1
<1> SUFFICES ASSUME \A x \in T : Rank(T, x) # i - 1 PROVE FALSE
  OBVIOUS
<1> DEFINE n == Cardinality(T)
           R == (0..(n - 1)) \ {i - 1}
           f == [x \in T |-> Rank(T, x)]
<1>1. n \in Nat  BY FS_CardinalityType
<1>2. IsFiniteSet(0..(n - 1)) /\ Cardinality(0..(n - 1)) = n
  <2>1. 0 \in Int /\ n - 1 \in Int  BY <1>1
  <2>2. /\ IsFiniteSet(0..(n - 1))
        /\ Cardinality(0..(n - 1)) = (IF 0 > n - 1 THEN 0 ELSE (n - 1) - 0 + 1)
    BY <2>1, FS_Interval
  <2> HIDE DEF n
  <2> QED  BY <1>1, <2>2
<1>3. i - 1 \in 0..(n - 1)  BY <1>1
<1>4. IsFiniteSet(R) /\ Cardinality(R) = n - 1
  <2> DEFINE I == 0..(n - 1)
             z == i - 1
  <2>1. IsFiniteSet(I) /\ Cardinality(I) = n /\ z \in I /\ R = I \ {z}  BY <1>2, <1>3
  <2> HIDE DEF I, z, R
  <2> QED  BY <2>1, FS_RemoveElement
<1>5. \A x \in T : Rank(T, x) \in R  BY RankIs
<1>6. f \in [T -> R]  BY <1>5
<1>7. Cardinality(R) < Cardinality(T)  BY <1>1, <1>4
<1>8. \A x \in T : f[x] = Rank(T, x)  OBVIOUS
<1> HIDE DEF R, f, n
<1>a. \E x, y \in T : x # y /\ f[x] = f[y]
  <2>1. IsFiniteSet(T)  OBVIOUS
  <2> QED  BY ONLY <2>1, <1>4, <1>6, <1>7, FS_PigeonHole
<1>9. PICK x \in T, y \in T : x # y /\ f[x] = f[y]  BY <1>a
<1>10. Rank(T, x) = Rank(T, y) /\ x \in Nat /\ y \in Nat  BY <1>8, <1>9
<1>11. Rank(T, x) \in Nat /\ Rank(T, y) \in Nat  BY RankIs
<1>12. CASE x < y  BY <1>10, <1>11, <1>12, RankRises
<1>13. CASE y < x  BY <1>10, <1>11, <1>13, RankRises
<1> QED  BY <1>9, <1>10, <1>12, <1>13

\* The i-th member of a set of numbers.
LEMMA NthIs ==
    ASSUME NEW T \in SUBSET Nat, IsFiniteSet(T), NEW i \in 1..Cardinality(T)
    PROVE  Nth(T, i) \in T /\ Rank(T, Nth(T, i)) = i - 1
<1>1. \E x \in T : Rank(T, x) = i - 1  BY RankTaken
<1>2. \E x \in T : Cardinality({y \in T : y < x}) = i - 1  BY <1>1 DEF Rank
<1>3. Nth(T, i) \in T /\ Cardinality({y \in T : y < Nth(T, i)}) = i - 1
  BY <1>2 DEF Nth
<1> QED  BY <1>3 DEF Rank

LEMMA NthRises ==
    ASSUME NEW T \in SUBSET Nat, IsFiniteSet(T),
           NEW i \in 1..Cardinality(T), NEW j \in 1..Cardinality(T), i < j
    PROVE  Nth(T, i) < Nth(T, j)
<1> DEFINE a == Nth(T, i)
           b == Nth(T, j)
<1>1. a \in T /\ b \in T /\ Rank(T, a) = i - 1 /\ Rank(T, b) = j - 1  BY NthIs
<1> HIDE DEF a, b
<1>2. a \in Nat /\ b \in Nat /\ Cardinality(T) \in Nat  BY <1>1, FS_CardinalityType
<1>3. ASSUME b < a PROVE Rank(T, b) < Rank(T, a)  BY <1>1, <1>3, RankRises
<1>4. a # b /\ ~(b < a)  BY <1>1, <1>2, <1>3
<1> QED  BY <1>2, <1>4 DEF a, b

-----------------------------------------------------------------------------
(* Bars and histories.                                                     *)

FileRec(b, k, s) == [FileBar(b, k) EXCEPT !.src = s]
FeedRec(b, k, s) == [FeedBar(b, k) EXCEPT !.src = s]

LEMMA BarRecsAre ==
    \A r : r \in BarRecs <=>
        \/ \E b \in Bars, k \in 1..Final, s \in {"file", "cache"} : r = FileRec(b, k, s)
        \/ \E b \in Bars, k \in 1..Polls, s \in {"feed", "cache"} : r = FeedRec(b, k, s)
<1>1. BarRecs = {FileRec(b, k, s) : b \in Bars, k \in 1..Final, s \in {"file", "cache"}}
        \cup {FeedRec(b, k, s) : b \in Bars, k \in 1..Polls, s \in {"feed", "cache"}}
  BY DEF BarRecs, FileRec, FeedRec
<1> QED  BY <1>1

LEMMA FileBarType ==
    ASSUME NEW b \in Bars, NEW k \in 1..Final
    PROVE  /\ FileBar(b, k) \in BarRecs
           /\ FileBar(b, k).dt = b /\ FileBar(b, k).src = "file"
<1>1. FileBar(b, k) = FileRec(b, k, "file")  BY DEF FileBar, FileRec
<1>2. FileBar(b, k).dt = b /\ FileBar(b, k).src = "file"  BY DEF FileBar
<1> QED  BY <1>1, <1>2, BarRecsAre

LEMMA FeedBarType ==
    ASSUME NEW b \in Bars, NEW k \in 1..Polls
    PROVE  /\ FeedBar(b, k) \in BarRecs
           /\ FeedBar(b, k).dt = b /\ FeedBar(b, k).src = "feed"
<1>1. FeedBar(b, k) = FeedRec(b, k, "feed")  BY DEF FeedBar, FeedRec
<1>2. FeedBar(b, k).dt = b /\ FeedBar(b, k).src = "feed"  BY DEF FeedBar
<1> QED  BY <1>1, <1>2, BarRecsAre

LEMMA RestoredBar ==
    ASSUME NEW r \in BarRecs
    PROVE  /\ [r EXCEPT !.src = "cache"] \in BarRecs /\ r.dt \in Bars
           /\ [r EXCEPT !.src = "cache"].dt = r.dt
           /\ [r EXCEPT !.src = "cache"].src = "cache"
<1>1. ASSUME NEW b \in Bars, NEW k \in 1..Final, NEW s \in {"file", "cache"},
             r = FileRec(b, k, s)
      PROVE  /\ [r EXCEPT !.src = "cache"] = FileRec(b, k, "cache") /\ r.dt = b
             /\ [r EXCEPT !.src = "cache"].dt = b
             /\ [r EXCEPT !.src = "cache"].src = "cache"
  <2>1. r = [dt |-> b, ticks |-> k, src |-> s]
    BY <1>1 DEF FileRec, FileBar
  <2>2. FileRec(b, k, "cache") = [dt |-> b, ticks |-> k, src |-> "cache"]
    BY DEF FileRec, FileBar
  <2> QED  BY <2>1, <2>2
<1>2. ASSUME NEW b \in Bars, NEW k \in 1..Polls, NEW s \in {"feed", "cache"},
             r = FeedRec(b, k, s)
      PROVE  /\ [r EXCEPT !.src = "cache"] = FeedRec(b, k, "cache") /\ r.dt = b
             /\ [r EXCEPT !.src = "cache"].dt = b
             /\ [r EXCEPT !.src = "cache"].src = "cache"
  <2>1. r = [dt |-> b, ticks |-> k, src |-> s, healthy |-> k >= MinTicks]
    BY <1>2 DEF FeedRec, FeedBar
  <2>2. FeedRec(b, k, "cache") =
                    [dt |-> b, ticks |-> k, src |-> "cache", healthy |-> k >= MinTicks]
    BY DEF FeedRec, FeedBar
  <2> QED  BY <2>1, <2>2
<1> QED  BY <1>1, <1>2, BarRecsAre

LEMMA HistoryFacts ==
    ASSUME NEW s, NEW c \in Nat, History(s, c)
    PROVE  /\ Len(s) \in Nat /\ DOMAIN s = 1..Len(s) /\ (s # <<>> => Len(s) > 0)
           /\ \A i \in 1..Len(s) : s[i] \in BarRecs /\ s[i].dt \in Bars /\ s[i].dt \in Nat
<1>1. s \in Seq(BarRecs)  BY DEF History
<1>2. /\ Len(s) \in Nat /\ DOMAIN s = 1..Len(s) /\ (s # <<>> => Len(s) > 0)
      /\ \A i \in 1..Len(s) : s[i] \in BarRecs
  BY <1>1, LenProperties, ElementOfSeq, EmptySeq
<1>3. \A i \in 1..Len(s) : s[i].dt \in Bars  BY <1>2, RestoredBar
<1> QED  BY <1>2, <1>3 DEF Bars

LEMMA HistoryKept ==
    ASSUME NEW s, NEW c \in Nat, NEW d \in Nat, c <= d, History(s, c)
    PROVE  History(s, d)
<1>1. \A i \in 1..Len(s) : s[i].dt \in Nat /\ s[i].dt <= c
  BY HistoryFacts DEF History
<1> QED  BY <1>1 DEF History

LEMMA EmptyHistory == ASSUME NEW c \in Nat PROVE History(<<>>, c)
<1>1. <<>> \in Seq(BarRecs) /\ Len(<<>>) = 0  BY EmptySeq
<1> QED  BY <1>1, Constants DEF History

\* The restored bars are those of the cache, one of each date.
LEMMA RestoredIs ==
    ASSUME NEW c \in Nat, History(cache, c), Past(cache, c)
    PROVE  /\ Restored \in Seq(BarRecs)
           /\ \A k \in 1..Len(Restored) : Restored[k].dt < c /\ Restored[k].src = "cache"
           /\ \A k \in 1..Len(Restored), l \in 1..Len(Restored) :
                k < l => Restored[k].dt # Restored[l].dt
<1> DEFINE T == FirstOfDate
           n == Cardinality(T)
           rows == Restored
<1>1. /\ Len(cache) \in Nat /\ DOMAIN cache = 1..Len(cache)
      /\ \A i \in 1..Len(cache) : cache[i] \in BarRecs
  BY HistoryFacts
<1>2. /\ T \in SUBSET (1..Len(cache)) /\ T \in SUBSET Nat
      /\ \A i \in T : \A j \in 1..(i - 1) : cache[j].dt # cache[i].dt
  BY <1>1 DEF FirstOfDate
<1>3. IsFiniteSet(T) /\ n \in Nat
  <2>1. IsFiniteSet(1..Len(cache))  BY <1>1, FS_Interval
  <2>2. IsFiniteSet(T)  BY <1>2, <2>1, FS_Subset
  <2> QED  BY <2>2, FS_CardinalityType
<1>4. rows = [k \in 1..n |-> [cache[Nth(T, k)] EXCEPT !.src = "cache"]]
  BY DEF Restored
<1> HIDE DEF T, rows
<1>5. \A k \in 1..n : Nth(T, k) \in T  BY <1>2, <1>3, NthIs
<1>6. \A k \in 1..n, l \in 1..n : k < l => Nth(T, k) < Nth(T, l)
  BY <1>2, <1>3, NthRises
<1> HIDE DEF n
<1>7. ASSUME NEW k \in 1..n
      PROVE  /\ [cache[Nth(T, k)] EXCEPT !.src = "cache"] \in BarRecs
             /\ rows[k].dt = cache[Nth(T, k)].dt /\ rows[k].src = "cache"
             /\ rows[k].dt < c
  <2>1. Nth(T, k) \in 1..Len(cache)  BY <1>2, <1>5
  <2>2. cache[Nth(T, k)] \in BarRecs /\ cache[Nth(T, k)].dt < c  BY <1>1, <2>1 DEF Past
  <2> QED  BY <1>4, <2>2, RestoredBar
<1>8. rows \in Seq(BarRecs) /\ Len(rows) = n
  <2>1. rows \in [1..n -> BarRecs]  BY <1>4, <1>7
  <2> QED  BY <1>3, <1>4, <2>1
<1>9. ASSUME NEW k \in 1..n, NEW l \in 1..n, k < l
      PROVE  rows[k].dt # rows[l].dt
  <2> DEFINE a == Nth(T, k)
             b == Nth(T, l)
  <2>1. a \in T /\ b \in T /\ a < b  BY <1>5, <1>6, <1>9
  <2>2. rows[k].dt = cache[a].dt /\ rows[l].dt = cache[b].dt  BY <1>7
  <2> HIDE DEF a, b
  <2>3. a \in 1..(b - 1)
    <3>1. a \in 1..Len(cache) /\ b \in 1..Len(cache)  BY <1>2, <2>1
    <3> QED  BY <1>1, <2>1, <3>1
  <2> QED  BY <1>2, <2>1, <2>2, <2>3
<1> QED  BY <1>7, <1>8, <1>9 DEF rows

\* The rows that warm_up_from_df takes from the file, by their dates.
LEMMA NewRowsAre ==
    ASSUME NEW file, NEW c \in Nat, File(file, c), NEW s
    PROVE  /\ NewRows(file, s) \in Seq(BarRecs)
           /\ \A i \in 1..Len(NewRows(file, s)) :
                /\ NewRows(file, s)[i].dt <= c /\ NewRows(file, s)[i].src = "file"
                /\ NewRows(file, s)[i].dt \notin Dates(s)
           /\ \A i \in 1..Len(NewRows(file, s)), j \in 1..Len(NewRows(file, s)) :
                i < j => NewRows(file, s)[i].dt < NewRows(file, s)[j].dt
<1> DEFINE new == Missing(file, s)
           n == Cardinality(new)
           rows == NewRows(file, s)
<1>1. /\ new \in SUBSET Nat /\ IsFiniteSet(new)
      /\ \A b \in new : /\ b \in Bars /\ b \in Nat /\ b <= c
                        /\ b \notin Dates(s) /\ file[b] \in 1..Final
  <2>1. \A b \in new : b \in Rows(file) /\ b \notin Dates(s)  BY DEF Missing, Latest
  <2>2. \A b \in Rows(file) : b \in Bars /\ b \in Nat /\ b <= c /\ file[b] \in 1..Final
    BY Constants DEF File, Rows, Bars
  <2>3. new \in SUBSET Bars  BY <2>1, <2>2
  <2>4. IsFiniteSet(Bars)  BY FS_Interval, Constants DEF Bars
  <2>5. IsFiniteSet(new)  BY <2>3, <2>4, FS_Subset
  <2> QED  BY <2>1, <2>2, <2>5
<1>2. n \in Nat  BY <1>1, FS_CardinalityType
<1>3. rows = [i \in 1..n |-> FileBar(Nth(new, i), file[Nth(new, i)])]  BY DEF NewRows
<1> HIDE DEF new, rows
<1>4. \A i \in 1..n : Nth(new, i) \in new  BY <1>1, NthIs
<1>5. \A i \in 1..n, j \in 1..n : i < j => Nth(new, i) < Nth(new, j)
  BY <1>1, NthRises
<1> HIDE DEF n
<1>6. ASSUME NEW i \in 1..n
      PROVE  /\ FileBar(Nth(new, i), file[Nth(new, i)]) \in BarRecs
             /\ rows[i].dt = Nth(new, i) /\ rows[i].src = "file"
  <2> DEFINE b == Nth(new, i)
  <2>1. b \in Bars /\ file[b] \in 1..Final  BY <1>1, <1>4
  <2>2. rows[i] = FileBar(b, file[b])  BY <1>3
  <2> HIDE DEF b
  <2>3. FileBar(b, file[b]) \in BarRecs /\ rows[i].dt = b /\ rows[i].src = "file"
    BY <2>1, <2>2, FileBarType
  <2> QED  BY <2>3 DEF b
<1>7. rows \in Seq(BarRecs) /\ Len(rows) = n
  <2>1. rows \in [1..n -> BarRecs]  BY <1>3, <1>6
  <2> QED  BY <1>2, <1>3, <2>1
<1>8. \A i \in 1..n : rows[i].dt <= c /\ rows[i].src = "file" /\ rows[i].dt \notin Dates(s)
  BY <1>1, <1>4, <1>6
<1>9. \A i \in 1..n, j \in 1..n : i < j => rows[i].dt < rows[j].dt
  BY <1>5, <1>6
<1> QED  BY <1>7, <1>8, <1>9 DEF rows

\* A history that is too long loses its oldest bars.
LEMMA KeepIs ==
    ASSUME NEW c \in Nat, NEW s \in Seq(BarRecs), Together(s),
           \A i \in 1..Len(s) : s[i].dt <= c
    PROVE  /\ History(Keep(s), c) /\ Together(Keep(s))
           /\ \A i \in 1..Len(Keep(s)) : \E j \in 1..Len(s) : Keep(s)[i] = s[j]
           /\ s # <<>> => Keep(s) # <<>> /\ LastOf(Keep(s)) = LastOf(s)
<1>1. /\ Len(s) \in Nat /\ (s # <<>> => Len(s) > 0)
      /\ \A i \in 1..Len(s) : s[i] \in BarRecs
  BY LenProperties, ElementOfSeq, EmptySeq
<1>2. CASE Len(s) <= MaxBars
  <2>1. Keep(s) = s  BY <1>1, <1>2, Constants DEF Keep
  <2> QED  BY <1>2, <2>1 DEF History
<1>3. CASE Len(s) > MaxBars
  <2> DEFINE n == Len(s)
             m == n - MaxBars + 1
             k == SubSeq(s, m, n)
  <2>1. /\ n \in Nat /\ m \in Int /\ m >= 1 /\ m <= n /\ n - m + 1 = MaxBars
        /\ \A i \in m..n : s[i] \in BarRecs
    BY <1>1, <1>3, Constants
  <2>2. Keep(s) = k  BY <1>3 DEF Keep
  <2> HIDE DEF m
  <2>3. /\ k \in Seq(BarRecs) /\ Len(k) = (IF m <= n THEN n - m + 1 ELSE 0)
        /\ \A i \in 1..(n - m + 1) : k[i] = s[m + i - 1]
    BY <2>1, SubSeqProperties
  <2>4. Len(k) = MaxBars /\ \A i \in 1..MaxBars : k[i] = s[m + i - 1]
    BY <2>1, <2>3
  <2> HIDE DEF k, n
  <2>5. \A i \in 1..MaxBars : m + i - 1 \in 1..n  BY <2>1, Constants
  <2>6. Together(k)
    <3> SUFFICES ASSUME NEW i \in 1..MaxBars, NEW j \in 1..MaxBars, i < j
                 PROVE  MayPrecede(k[i], k[j])
      BY <2>4 DEF Together
    <3> DEFINE a == m + i - 1
               b == m + j - 1
    <3>1. a \in 1..n /\ b \in 1..n /\ a < b
      BY <2>1, <2>5
    <3>2. k[i] = s[a] /\ k[j] = s[b]  BY <2>4
    <3> HIDE DEF a, b
    <3>3. MayPrecede(s[a], s[b])  BY <3>1 DEF Together, n
    <3> QED  BY <3>2, <3>3
  <2>7. \A i \in 1..MaxBars : k[i].dt <= c  BY <2>4, <2>5 DEF n
  <2>8. History(k, c)  BY <2>3, <2>4, <2>7, Constants DEF History
  <2>9. m + MaxBars - 1 = n /\ MaxBars \in 1..MaxBars  BY <2>1, Constants
  <2>10. k[MaxBars] = s[n]  BY <2>4, <2>9
  <2>11. LastOf(k) = LastOf(s)  BY <2>4, <2>10 DEF LastOf, n
  <2>12. k # <<>>  BY <2>4, EmptySeq, Constants
  <2>13. \A i \in 1..Len(k) : \E j \in 1..Len(s) : k[i] = s[j]
    <3>1. ASSUME NEW i \in 1..Len(k) PROVE m + i - 1 \in 1..n /\ k[i] = s[m + i - 1]
      BY <2>4, <2>5
    <3> QED  BY <3>1 DEF n
  <2> QED  BY <2>2, <2>6, <2>8, <2>11, <2>12, <2>13
<1> QED  BY <1>1, <1>2, <1>3, Constants

\* Downloaded bars go behind the restored ones whose dates they do not share.
LEMMA WarmedUpIs ==
    ASSUME NEW c \in Nat, NEW s \in Seq(BarRecs), NEW new \in Seq(BarRecs),
           \A i \in 1..Len(s) : s[i].dt < c /\ s[i].src = "cache",
           \A i \in 1..Len(s), j \in 1..Len(s) : i < j => s[i].dt # s[j].dt,
           \A i \in 1..Len(new) :
               new[i].dt <= c /\ new[i].src = "file" /\ new[i].dt \notin Dates(s),
           \A i \in 1..Len(new), j \in 1..Len(new) : i < j => new[i].dt < new[j].dt
    PROVE  /\ History(WarmedUp(s, new), c) /\ Together(WarmedUp(s, new))
           /\ Settled(WarmedUp(s, new), c)
<1> DEFINE u == s \o new
<1>1. /\ Len(s) \in Nat /\ Len(new) \in Nat /\ DOMAIN s = 1..Len(s)
      /\ \A i \in 1..Len(s) : s[i] \in BarRecs
      /\ \A i \in 1..Len(new) : new[i] \in BarRecs
  BY LenProperties, ElementOfSeq
<1>a. /\ \A i \in 1..Len(s) : s[i].dt \in Bars
      /\ \A i \in 1..Len(new) : new[i].dt \in Bars
  BY <1>1, RestoredBar
<1>b. /\ \A i \in 1..Len(s) : s[i].dt \in Nat /\ s[i].dt \in Dates(s)
      /\ \A i \in 1..Len(new) : new[i].dt \in Nat
  <2>1. \A i \in 1..Len(s) : s[i].dt \in Dates(s)  BY <1>1 DEF Dates
  <2>2. \A x \in Bars : x \in Nat  BY DEF Bars
  <2> QED  BY <1>a, <2>1, <2>2
<1>2. /\ u \in Seq(BarRecs) /\ Len(u) = Len(s) + Len(new)
      /\ \A i \in 1..(Len(s) + Len(new)) :
            u[i] = IF i <= Len(s) THEN s[i] ELSE new[i - Len(s)]
  BY <1>1, ConcatProperties
<1> HIDE DEF u
<1>3. ASSUME NEW i \in 1..Len(u)
      PROVE  \/ i \in 1..Len(s) /\ u[i] = s[i]
             \/ i > Len(s) /\ i - Len(s) \in 1..Len(new) /\ u[i] = new[i - Len(s)]
  BY <1>1, <1>2
<1>4. Together(u)
  <2> SUFFICES ASSUME NEW i \in 1..Len(u), NEW j \in 1..Len(u), i < j
               PROVE  MayPrecede(u[i], u[j])
    BY DEF Together
  <2>1. CASE i \in 1..Len(s) /\ j \in 1..Len(s)
    <3>1. u[i] = s[i] /\ u[j] = s[j]  BY <1>1, <1>3, <2>1
    <3>2. u[i].dt # u[j].dt /\ u[i].src = "cache" /\ u[j].src = "cache"  BY <2>1, <3>1
    <3> QED  BY <3>2 DEF MayPrecede
  <2>2. CASE i \in 1..Len(s) /\ j > Len(s)
    <3>1. u[i] = s[i]  BY <1>1, <1>3, <2>2
    <3>2. j - Len(s) \in 1..Len(new) /\ u[j] = new[j - Len(s)]  BY <1>1, <1>3, <2>2
    <3>3. u[i].dt # u[j].dt /\ u[i].src = "cache" /\ u[j].src = "file"
      BY <1>b, <2>2, <3>1, <3>2
    <3> QED  BY <3>3 DEF MayPrecede
  <2>3. CASE i > Len(s) /\ j > Len(s)
    <3>0. i \notin 1..Len(s) /\ j \notin 1..Len(s)  BY <1>1, <2>3
    <3> DEFINE x == i - Len(s)
               y == j - Len(s)
    <3>1. x \in 1..Len(new) /\ u[i] = new[x]  BY <1>3, <3>0
    <3>2. y \in 1..Len(new) /\ u[j] = new[y]  BY <1>3, <3>0
    <3>3. x < y  BY <1>1, <2>3
    <3> HIDE DEF x, y
    <3>4. new[x].dt < new[y].dt /\ new[x].dt \in Nat /\ new[y].dt \in Nat
      BY <1>b, <3>1, <3>2, <3>3
    <3>5. u[i].dt < u[j].dt /\ u[i].dt \in Nat /\ u[j].dt \in Nat
      BY ONLY <3>1, <3>2, <3>4
    <3>6. u[i].dt # u[j].dt /\ u[i].dt <= u[j].dt  BY ONLY <3>5
    <3> QED  BY <3>6 DEF MayPrecede
  <2> QED  BY <1>1, <1>2, <2>1, <2>2, <2>3
<1>5. ASSUME NEW i \in 1..Len(u)
      PROVE  u[i].dt <= c /\ (u[i].src # "file" => u[i].dt < c)
  <2>1. CASE i \in 1..Len(s) /\ u[i] = s[i]  BY <1>b, <2>1
  <2>2. CASE i > Len(s) /\ i - Len(s) \in 1..Len(new) /\ u[i] = new[i - Len(s)]
    BY <2>2
  <2> QED  BY <1>3, <2>1, <2>2
<1>6. /\ History(Keep(u), c) /\ Together(Keep(u))
      /\ \A i \in 1..Len(Keep(u)) : \E j \in 1..Len(u) : Keep(u)[i] = u[j]
  BY <1>2, <1>4, <1>5, KeepIs
<1>7. Settled(Keep(u), c)
  <2>1. ASSUME NEW i \in 1..Len(Keep(u)), Keep(u)[i].src # "file"
        PROVE  Keep(u)[i].dt < c
    <3>1. PICK j \in 1..Len(u) : Keep(u)[i] = u[j]  BY <1>6
    <3> QED  BY <1>5, <2>1, <3>1
  <2> QED  BY <2>1 DEF Settled
<1> QED  BY <1>6, <1>7 DEF WarmedUp, u

\* A closed bar goes behind a history that ends no later than it, and that has
\* no other bar of its interval than a downloaded one.
LEMMA AppendIs ==
    ASSUME NEW c \in Nat, NEW s, History(s, c), Together(s), NEW r \in BarRecs, r.dt <= c,
           r.src = "feed", \A i \in 1..Len(s) : s[i].dt <= r.dt, Settled(s, r.dt)
    PROVE  /\ History(Keep(Append(s, r)), r.dt) /\ Together(Keep(Append(s, r)))
           /\ Keep(Append(s, r)) # <<>> /\ LastOf(Keep(Append(s, r))) = r
<1> DEFINE u == Append(s, r)
<1>1. s \in Seq(BarRecs) /\ Len(s) \in Nat  BY LenProperties DEF History
<1>2. /\ u \in Seq(BarRecs) /\ Len(u) = Len(s) + 1 /\ u[Len(s) + 1] = r
      /\ \A i \in 1..Len(s) : u[i] = s[i]
  BY <1>1
<1> HIDE DEF u
<1>a. r.dt \in Bars  BY RestoredBar
<1>3. r.dt \in Nat /\ \A i \in 1..Len(s) : s[i].dt \in Nat
  BY <1>a, HistoryFacts DEF Bars
<1>4. ASSUME NEW i \in 1..Len(u) PROVE u[i] = r \/ (i \in 1..Len(s) /\ u[i] = s[i])
  BY <1>1, <1>2
<1>5. Together(u)
  <2> SUFFICES ASSUME NEW i \in 1..Len(u), NEW j \in 1..Len(u), i < j
               PROVE  MayPrecede(u[i], u[j])
    BY DEF Together
  <2>1. CASE i \in 1..Len(s) /\ j \in 1..Len(s)
    BY <1>2, <2>1 DEF Together
  <2>2. CASE i \in 1..Len(s) /\ j = Len(s) + 1
    <3>1. u[i] = s[i] /\ u[j] = r  BY <1>2, <2>2
    <3>2. s[i].dt <= r.dt /\ (s[i].dt = r.dt => s[i].src = "file")
      BY <1>3, <2>2 DEF Settled
    <3> QED  BY <3>1, <3>2 DEF MayPrecede
  <2>3. i \in 1..Len(s) /\ (j \in 1..Len(s) \/ j = Len(s) + 1)
    <3> DEFINE n == Len(s)
    <3>1. n \in Nat /\ i \in 1..(n + 1) /\ j \in 1..(n + 1)  BY <1>1, <1>2
    <3> HIDE DEF n
    <3>2. i \in 1..n /\ (j \in 1..n \/ j = n + 1)  BY <3>1
    <3> QED  BY <3>2 DEF n
  <2> QED  BY <2>1, <2>2, <2>3
<1>6. \A i \in 1..Len(u) : u[i].dt <= r.dt  BY <1>3, <1>4
<1>7. u # <<>> /\ LastOf(u) = r
  <2>1. u # <<>>  BY <1>1, <1>2, EmptySeq
  <2> QED  BY <1>2, <2>1 DEF LastOf
<1>8. /\ History(Keep(u), r.dt) /\ Together(Keep(u))
      /\ Keep(u) # <<>> /\ LastOf(Keep(u)) = LastOf(u)
  BY <1>2, <1>3, <1>5, <1>6, <1>7, KeepIs
<1> QED  BY <1>7, <1>8 DEF u

\* The largest of finitely many numbers is the one of the highest rank.
LEMMA MaxIs ==
    ASSUME NEW T \in SUBSET Nat, IsFiniteSet(T), T # {}
    PROVE  Max(T) \in T
<1>1. Cardinality(T) \in Nat /\ Cardinality(T) # 0  BY FS_CardinalityType, FS_EmptySet
<1> DEFINE n == Cardinality(T)
<1>2. n \in 1..Cardinality(T)  BY <1>1
<1>3. PICK x \in T : Rank(T, x) = n - 1  BY <1>2, RankTaken
<1>4. ASSUME NEW y \in T PROVE x >= y
  <2>1. Rank(T, y) \in 0..(n - 1) /\ x \in Nat /\ y \in Nat  BY RankIs
  <2>2. ASSUME x < y PROVE Rank(T, x) < Rank(T, y)  BY <2>2, RankRises
  <2> QED  BY <1>1, <1>3, <2>1, <2>2
<1>5. \E z \in T : \A y \in T : z >= y  BY <1>3, <1>4
<1> QED  BY <1>5 DEF Max

LEMMA ConfirmedType ==
    ASSUME NEW file
    PROVE  Confirmed(file) \in Bars \cup {None}
<1> DEFINE R == Rows(file)
           S == R \ {Max(R)}
<1>1. CASE Cardinality(R) < 2  BY <1>1 DEF Confirmed
<1>2. CASE ~(Cardinality(R) < 2)
  <2>1. R \in SUBSET Bars /\ R \in SUBSET Nat  BY DEF Rows, Bars
  <2>2. IsFiniteSet(Bars)  BY FS_Interval, Constants DEF Bars
  <2>3. IsFiniteSet(R)  BY <2>1, <2>2, FS_Subset
  <2>4. Cardinality(R) \in Nat  BY <2>3, FS_CardinalityType
  <2>5. S \in SUBSET Nat /\ S \in SUBSET R  BY <2>1
  <2> HIDE DEF R
  <2>6. IsFiniteSet(S) /\ Cardinality(S) >= Cardinality(R) - 1
    BY <2>3, <2>4, FS_RemoveElement
  <2> HIDE DEF S
  <2>7. IsFiniteSet(S) /\ Cardinality(S) \in Nat  BY <2>6, FS_CardinalityType
  <2>8. S # {}  BY <1>2, <2>4, <2>6, <2>7, FS_EmptySet
  <2>9. Max(S) \in S  BY <2>5, <2>7, <2>8, MaxIs
  <2>10. Max(S) \in Bars  BY <2>1, <2>5, <2>9
  <2>11. Confirmed(file) = Max(S)  BY <1>2 DEF Confirmed, R, S
  <2> QED  BY <2>10, <2>11
<1> QED  BY <1>1, <1>2

-----------------------------------------------------------------------------
(* The steps.                                                              *)

LEMMA CurrentIs ==
    ASSUME now \in 0..EndOfDay
    PROVE  now \in Nat /\ Current \in Bars /\ Current \in Nat
<1>1. Current \in Bars  BY BarOfSession DEF Current
<1> QED  BY <1>1, BarOfSession DEF Bars

\* The passing of time disturbs neither history nor cache.
LEMMA CandledKept ==
    ASSUME NEW b, NEW c \in Nat, NEW d \in Nat, c <= d, History(b, c)
    PROVE  /\ History(b, d) /\ (Past(b, c) => Past(b, d))
           /\ (Settled(b, c) => Settled(b, d))
<1>1. \A i \in 1..Len(b) : b[i].dt \in Nat  BY HistoryFacts
<1>2. Past(b, c) => Past(b, d)  BY <1>1 DEF Past
<1>3. Settled(b, c) => Settled(b, d)  BY <1>1 DEF Settled
<1> QED  BY <1>2, <1>3, HistoryKept

\* The option enters the universe with the bars of both files, of which no two
\* are of the same interval.
LEMMA TrackIs ==
    ASSUME Inv, Track
    PROVE  /\ File(optFile', Current) /\ tracked' = TRUE
           /\ History(bars', Current) /\ Together(bars') /\ Settled(bars', Current)
           /\ UNCHANGED <<forming, cache, broken>>
<1>1. /\ now \in 0..EndOfDay /\ File(optFile, Current)
      /\ History(cache, Current) /\ Past(cache, Current)
  BY DEF Inv, Rest, Candled
<1>2. now \in Nat /\ Current \in Nat  BY <1>1, CurrentIs
<1> DEFINE file == optFile'
           new == NewRows(file, Restored)
<1>3. file \in Download(optFile) /\ bars' = WarmedUp(Restored, new)
  BY DEF Track, Fetched
<1> HIDE DEF file
<1>4. File(file, Current)  BY <1>1, <1>2, <1>3, FetchedIs
<1>5. /\ Restored \in Seq(BarRecs)
      /\ \A k \in 1..Len(Restored) : Restored[k].dt < Current /\ Restored[k].src = "cache"
      /\ \A k \in 1..Len(Restored), l \in 1..Len(Restored) :
            k < l => Restored[k].dt # Restored[l].dt
  BY <1>1, <1>2, RestoredIs
<1>6. /\ new \in Seq(BarRecs)
      /\ \A i \in 1..Len(new) : /\ new[i].dt <= Current /\ new[i].src = "file"
                               /\ new[i].dt \notin Dates(Restored)
      /\ \A i \in 1..Len(new), j \in 1..Len(new) : i < j => new[i].dt < new[j].dt
  BY <1>2, <1>4, NewRowsAre
<1> HIDE DEF new
<1>7. /\ History(WarmedUp(Restored, new), Current) /\ Together(WarmedUp(Restored, new))
      /\ Settled(WarmedUp(Restored, new), Current)
  BY <1>2, <1>5, <1>6, WarmedUpIs
<1> QED  BY <1>3, <1>4, <1>7 DEF Track, file

LEMMA UniverseIs ==
    ASSUME Inv, UpdateUniverse
    PROVE  /\ File(spotFile', Current) /\ File(optFile', Current)
           /\ History(bars', Current) /\ Together(bars') /\ Settled(bars', Current)
           /\ tracked' \in BOOLEAN
           /\ UNCHANGED <<forming, cache, broken>>
           /\ UNCHANGED <<tracked, bars>> \/ (~tracked /\ tracked' = TRUE)
<1>1. /\ now \in 0..EndOfDay /\ tracked \in BOOLEAN /\ File(spotFile, Current)
      /\ File(optFile, Current)
      /\ History(bars, Current) /\ Together(bars) /\ Settled(bars, Current)
  BY DEF Inv, Rest, Candled
<1>2. now \in Nat  BY <1>1, CurrentIs
<1>3. File(spotFile', Current)
  <2>1. spotFile' \in Download(spotFile)  BY DEF UpdateUniverse, Refreshed
  <2> QED  BY <1>1, <1>2, <2>1, FetchedIs
<1>4. CASE ~tracked /\ Track  BY <1>3, <1>4, TrackIs
<1>5. CASE UNCHANGED <<optFile, feedVars>>  BY <1>1, <1>3, <1>5 DEF feedVars
<1> QED  BY <1>4, <1>5 DEF UpdateUniverse

LEMMA InitInv == ASSUME Init PROVE Inv
<1> USE DEF Init
<1>1. 0 \in 0..EndOfDay
  <2> DEFINE x == LastBar * Polls
  <2>1. x \in Nat /\ EndOfDay = x + Polls - 1  BY Constants DEF EndOfDay
  <2> HIDE DEF x
  <2> QED  BY <2>1, Constants
<1>2. Rest
  <2>1. 0 \in 0..MaxRestarts  OBVIOUS
  <2>2. now \in 0..EndOfDay /\ restarts \in 0..MaxRestarts  BY <1>1, <2>1
  <2> QED  BY <2>2 DEF Rest, Phases
<1>3. Current \in Nat  BY <1>1, CurrentIs
<1>4. File(spotFile, Current) /\ File(optFile, Current)
  BY Constants DEF File, NoFile
<1>5. Candled
  <2>1. History(<<>>, Current) /\ Len(<<>>) = 0  BY <1>3, EmptyHistory, EmptySeq
  <2> QED  BY <2>1 DEF Candled, Together, Settled, Past
<1>6. FormingLast  BY Constants DEF FormingLast, NoCandle, Candles
<1>7. Untracked /\ BrokenGap /\ JustClosed  BY DEF Untracked, BrokenGap, JustClosed
<1>8. GapHalts  BY DEF GapHalts, NoScan
<1> QED  BY <1>2, <1>4, <1>5, <1>6, <1>7, <1>8 DEF Inv

\* A pass looks at the universe before it scans, and with it the candles stay
\* as they are or come to an option that had none.
LEMMA UniverseInv ==
    ASSUME Inv, UpdateUniverse, UNCHANGED <<now, held, restarts, lastCandle>>,
           phase' \in Phases, scanned' \in Bars \cup {None},
           closedBar' = FALSE \/ (closedBar' = closedBar /\ phase' = "raised"), GapHalts'
    PROVE  Inv'
<1>1. /\ File(spotFile', Current) /\ File(optFile', Current)
      /\ History(bars', Current) /\ Together(bars') /\ Settled(bars', Current)
      /\ tracked' \in BOOLEAN
      /\ UNCHANGED <<forming, cache, broken>>
      /\ UNCHANGED <<tracked, bars>> \/ (~tracked /\ tracked' = TRUE)
  BY UniverseIs
<1>2. Current' = Current  BY DEF Current
<1>3. Rest /\ Candled /\ FormingLast /\ Untracked /\ BrokenGap /\ JustClosed
  BY DEF Inv
<1>4. Rest'  BY <1>1, <1>3 DEF Rest
<1>5. File(spotFile', Current') /\ File(optFile', Current') /\ Candled'
  BY <1>1, <1>2, <1>3 DEF Candled
<1>6. CASE UNCHANGED <<tracked, bars>>
  <2>1. FormingLast' /\ Untracked' /\ BrokenGap'
    BY <1>1, <1>2, <1>3, <1>6 DEF FormingLast, Untracked, BrokenGap
  <2>2. JustClosed'  BY <1>1, <1>3, <1>6 DEF JustClosed
  <2> QED  BY <1>4, <1>5, <2>1, <2>2 DEF Inv
<1>7. CASE ~tracked /\ tracked' = TRUE
  <2>1. forming' = NoCandle /\ ~broken' /\ ~closedBar'
    BY <1>1, <1>3, <1>7 DEF Untracked
  <2>2. FormingLast' /\ Untracked' /\ BrokenGap' /\ JustClosed'
    BY <1>1, <1>3, <1>7, <2>1 DEF FormingLast, Untracked, BrokenGap, JustClosed
  <2> QED  BY <1>4, <1>5, <2>2 DEF Inv
<1> QED  BY <1>1, <1>6, <1>7

LEMMA StartInv == ASSUME Inv, Start PROVE Inv'
<1> USE DEF Start, scanVars
<1>1. ~closedBar /\ closedBar' = FALSE  BY DEF Inv, Rest, JustClosed
<1>2. GapHalts'  BY DEF Inv, GapHalts
<1>3. scanned' \in Bars \cup {None} /\ phase' \in Phases  BY DEF Inv, Rest, Phases
<1> QED  BY <1>1, <1>2, <1>3, UniverseInv

LEMMA PollSpotInv == ASSUME Inv, PollSpot PROVE Inv'
<1>1. /\ phase = "spot" /\ spotFile' \in Download(spotFile)
      /\ phase' \in {"scan", "ltp"} /\ (closedBar => phase' = "scan")
      /\ lastCandle' \in Bars \cup {None}
      /\ UNCHANGED <<now, optFile, feedVars, closedBar, scanVars, held, restarts>>
  <2>1. Confirmed(spotFile') \in Bars \cup {None}  BY ConfirmedType
  <2>2. lastCandle \in Bars \cup {None}  BY DEF Inv, Rest
  <2> QED  BY <2>1, <2>2 DEF PollSpot, Refreshed
<1>2. now \in Nat /\ Current' = Current
  BY <1>1, CurrentIs DEF Inv, Rest, Current
<1>3. File(spotFile', Current')  BY <1>1, <1>2, FetchedIs DEF Inv
<1>4. UNCHANGED <<now, optFile, tracked, bars, forming, cache, broken, closedBar,
                  scanned, scan, held, restarts>>
  BY <1>1 DEF feedVars, scanVars
<1>5. Rest'  BY <1>1, <1>4 DEF Inv, Rest, Phases
<1>6. File(optFile', Current') /\ Candled'
  BY <1>2, <1>4 DEF Inv, Candled
<1>7. FormingLast' /\ Untracked' /\ BrokenGap'
  BY <1>2, <1>4 DEF Inv, FormingLast, Untracked, BrokenGap
<1>8. JustClosed'  BY <1>1, <1>4 DEF Inv, JustClosed
<1>9. GapHalts'  BY <1>4 DEF Inv, GapHalts
<1> QED  BY <1>3, <1>5, <1>6, <1>7, <1>8, <1>9 DEF Inv

\* The scan that a closed bar causes: no universe update replaces the bar, and
\* the breaker has looked at the gap behind it.
LEMMA ScanInv == ASSUME Inv, Scan PROVE Inv'
<1>1. /\ UpdateUniverse /\ UNCHANGED <<now, held, restarts, lastCandle>>
      /\ phase' \in Phases
      /\ closedBar' = FALSE \/ (closedBar' = closedBar /\ phase' = "raised")
  BY DEF Scan, Phases
<1>2. /\ History(bars', Current) /\ tracked' \in BOOLEAN
      /\ UNCHANGED <<forming, cache, broken>>
      /\ UNCHANGED <<tracked, bars>> \/ (~tracked /\ tracked' = TRUE)
  BY <1>1, UniverseIs
<1>3. CASE tracked' /\ Scannable(bars') /\ Asks(bars')
  <2>1. Current \in Nat  BY CurrentIs DEF Inv, Rest
  <2>2. Len(bars') \in 1..Len(bars')
    <3>1. bars' # <<>>  BY <1>3 DEF Scannable
    <3> QED  BY <1>2, <2>1, <3>1, HistoryFacts
  <2>3. scanned' \in Bars
    <3>1. bars'[Len(bars')].dt \in Bars  BY <1>2, <2>1, <2>2, HistoryFacts
    <3> QED  BY <1>3, <3>1 DEF Asks, LastOf
  <2>4. GapHalts'
    <3>1. /\ scan'.dt = LastOf(bars').dt /\ scan'.at = now
          /\ scan'.due = (closedBar /\ ~held) /\ ~broken
      BY <1>3 DEF Asks, Scannable
    <3>2. CASE ~(closedBar /\ ~held)  BY <3>1, <3>2 DEF GapHalts
    <3>3. CASE closedBar /\ ~held
      <4>1. tracked  BY <3>3 DEF Inv, Untracked
      <4>2. bars' = bars  BY <1>2, <4>1
      <4>3. /\ now \in Nat /\ now > 0 /\ LastOf(bars).dt < Bar(now - 1)
            /\ Bar(now - 1) <= LastOf(bars).dt + 2
        BY <3>1, <3>3, CurrentIs DEF Inv, JustClosed, Rest
      <4>4. now - 1 \in Nat  BY <4>3
      <4>5. Bar(now - 1) <= Bar(now)  BY <4>3, <4>4, BarGrows
      <4>6. Bar(now - 1) \in Nat /\ Bar(now) \in Nat /\ LastOf(bars).dt \in Nat
        <5>1. bars[Len(bars)].dt \in Nat
          BY <2>1, <2>2, <4>2, HistoryFacts DEF Inv, Candled
        <5> QED  BY <4>3, <4>4, <5>1, BarIs DEF LastOf
      <4>7. LastOf(bars).dt < Bar(now)  BY <4>3, <4>5, <4>6
      <4> QED  BY <3>1, <4>2, <4>3, <4>7 DEF GapHalts
    <3> QED  BY <3>2, <3>3
  <2> QED  BY <1>1, <2>3, <2>4, UniverseInv
<1>4. CASE UNCHANGED scanVars
  <2>1. GapHalts' /\ scanned' \in Bars \cup {None}
    BY <1>4 DEF Inv, Rest, GapHalts, scanVars
  <2> QED  BY <1>1, <2>1, UniverseInv
<1> QED  BY <1>3, <1>4 DEF Scan

\* Time goes by, and with it at most a price of an interval that has no candle
\* yet or whose candle is forming.
LEMMA SameBarsInv ==
    ASSUME Inv, now < EndOfDay, now' = now + 1, phase' = "spot", held' \in BOOLEAN,
           JustClosed', scan' = NoScan, broken' \in BOOLEAN, broken' => broken,
           forming' = forming
           \/ /\ tracked /\ forming' \in Candles /\ forming' # NoCandle
              /\ forming'.ticks > 0
              /\ forming'.dt = Current \/ (forming # NoCandle /\ forming'.dt = forming.dt),
           UNCHANGED <<tracked, bars, cache, closedBar, spotFile, optFile, lastCandle,
                       scanned, restarts>>
    PROVE  Inv'
<1>1. /\ now \in 0..EndOfDay /\ Rest /\ FormingLast /\ Untracked /\ BrokenGap
      /\ File(spotFile, Current) /\ File(optFile, Current)
      /\ History(bars, Current) /\ Together(bars) /\ Settled(bars, Current)
      /\ History(cache, Current) /\ Past(cache, Current)
  BY DEF Inv, Rest, Candled
<1>2. /\ now + 1 \in 0..EndOfDay /\ now \in Nat /\ now + 1 \in Nat
      /\ Current \in Bars /\ Current \in Nat
  <2>1. EndOfDay \in Nat \/ EndOfDay \in Int
    BY Constants DEF EndOfDay
  <2> QED  BY <1>1, <2>1, CurrentIs
<1>3. Current' \in Nat /\ Current <= Current'
  BY <1>2, BarIs, BarGrows DEF Current
<1>4. Rest'  BY <1>1, <1>2 DEF Rest, Phases
<1>5. File(spotFile', Current') /\ File(optFile', Current')
  BY <1>1, <1>2, <1>3, FileKept
<1>6. Candled'
  <2>1. /\ History(bars, Current') /\ Settled(bars, Current')
        /\ History(cache, Current') /\ Past(cache, Current')
    BY <1>1, <1>2, <1>3, CandledKept
  <2> QED  BY <1>1, <2>1 DEF Candled
<1>7. \A i \in 1..Len(bars) : bars[i].dt \in Nat /\ bars[i].dt <= Current
  BY <1>1, <1>2, HistoryFacts DEF History
<1>8. FormingLast'
  <2>1. CASE forming' = forming
    <3>1. forming.dt \in Bars => forming.dt \in Nat  BY DEF Bars
    <3> QED  BY <1>1, <1>2, <1>3, <2>1, <3>1 DEF FormingLast
  <2>2. CASE forming' # forming
    <3>1. /\ forming' \in Candles /\ forming'.ticks > 0
          /\ forming'.dt \in Bars /\ forming'.dt <= Current
          /\ \A i \in 1..Len(bars) : bars[i].dt <= forming'.dt
          /\ Settled(bars, forming'.dt)
      BY <1>1, <1>2, <1>7, <2>2 DEF FormingLast
    <3>2. forming'.dt \in Nat  BY <3>1 DEF Bars
    <3>3. forming'.dt <= Current'  BY <1>2, <1>3, <3>1, <3>2
    <3> QED  BY <3>1, <3>3 DEF FormingLast
  <2> QED  BY <2>1, <2>2
<1>9. Untracked'  BY <1>1 DEF Untracked
<1>10. BrokenGap'
  <2> SUFFICES ASSUME broken' PROVE BrokenGap'  BY DEF BrokenGap
  <2>1. bars # <<>> /\ forming # NoCandle /\ forming.dt > LastOf(bars).dt + 1
    BY <1>1 DEF BrokenGap
  <2>2. forming.dt \in Bars /\ forming.dt <= Current  BY <1>1, <2>1 DEF FormingLast
  <2>3. forming.dt \in Nat /\ LastOf(bars).dt \in Nat
    <3>1. Len(bars) \in 1..Len(bars)  BY <1>1, <1>2, <2>1, HistoryFacts
    <3> QED  BY <1>7, <2>2, <3>1 DEF LastOf, Bars
  <2>4. forming' # NoCandle /\ (forming'.dt = Current \/ forming'.dt = forming.dt)
    BY <2>1
  <2>5. forming'.dt > LastOf(bars).dt + 1  BY <1>2, <2>1, <2>2, <2>3, <2>4
  <2> QED  BY <2>1, <2>4, <2>5 DEF BrokenGap
<1>11. JustClosed' /\ GapHalts'
  BY DEF GapHalts, NoScan
<1> QED  BY <1>4, <1>5, <1>6, <1>8, <1>9, <1>10, <1>11 DEF Inv

\* A price of a later interval closes the candle: its bar is the latest, and
\* the breaker is on if and only if the price came after a gap.
LEMMA ClosesInv ==
    ASSUME Inv, tracked, Closes, phase = "ltp", now < EndOfDay, now' = now + 1,
           phase' = "spot", scan' = NoScan, held' = FALSE,
           UNCHANGED <<tracked, spotFile, optFile, lastCandle, scanned, restarts>>
    PROVE  Inv'
<1>1. /\ now \in 0..EndOfDay /\ Rest /\ FormingLast
      /\ File(spotFile, Current) /\ File(optFile, Current) /\ Candled
  BY DEF Inv, Rest
<1>2. /\ now + 1 \in 0..EndOfDay /\ now \in Nat /\ now + 1 \in Nat
      /\ Current \in Bars /\ Current \in Nat
  <2>1. EndOfDay \in Int  BY Constants DEF EndOfDay
  <2> QED  BY <1>1, <2>1, CurrentIs
<1>3. Current' \in Nat /\ Current <= Current'
  BY <1>2, BarIs, BarGrows DEF Current
<1> DEFINE r == FeedBar(forming.dt, forming.ticks)
           f == forming.dt
<1>4. /\ forming # NoCandle /\ Current > f /\ bars' = Keep(Append(bars, r))
      /\ forming' = [dt |-> Current, ticks |-> 1] /\ broken' = Gate(Missed(bars'))
      /\ cache' \in {cache, bars'} /\ closedBar' = TRUE
  BY DEF Closes, SaveHistory
<1>5. /\ f \in Bars /\ f \in Nat /\ forming.ticks \in 1..Polls
      /\ (\A i \in 1..Len(bars) : bars[i].dt <= f) /\ Settled(bars, f)
  BY <1>1, <1>4, Constants DEF FormingLast, Candles, Bars
<1>6. r \in BarRecs /\ r.dt = f /\ r.src = "feed"  BY <1>5, FeedBarType
<1> HIDE DEF r
<1>7. History(bars', f) /\ Together(bars') /\ bars' # <<>> /\ LastOf(bars') = r
  <2>1. f <= Current /\ r.dt = f  BY <1>2, <1>4, <1>5, <1>6
  <2> HIDE DEF f
  <2>2. /\ History(bars, Current) /\ Together(bars) /\ Settled(bars, r.dt)
        /\ \A i \in 1..Len(bars) : bars[i].dt <= r.dt
    BY <1>1, <1>5, <2>1 DEF Candled
  <2>3. /\ History(Keep(Append(bars, r)), r.dt) /\ Together(Keep(Append(bars, r)))
        /\ Keep(Append(bars, r)) # <<>> /\ LastOf(Keep(Append(bars, r))) = r
    BY <1>2, <1>6, <2>1, <2>2, AppendIs
  <2> QED  BY <1>4, <2>1, <2>3
<1>8. LastOf(bars').dt = f  BY <1>6, <1>7
<1> HIDE DEF f
<1>9. Missed(bars') = Current - f - 1
  BY <1>2, <1>4, <1>5, <1>7, <1>8 DEF Missed
<1>10. /\ broken' \in BOOLEAN /\ (broken' => Current > f + 1)
       /\ ~broken' => Current <= f + 2
  <2> DEFINE m == Missed(bars')
  <2>1. m \in Int /\ m = Current - f - 1  BY <1>2, <1>5, <1>9
  <2> HIDE DEF m
  <2>2. broken' <=> m # 0 /\ (broken \/ m >= 2)  BY <1>4 DEF Gate, Halts, m
  <2>3. broken' \in BOOLEAN  BY <1>4 DEF Gate
  <2>4. broken' => m # 0  BY <2>2
  <2>5. ~broken' => m = 0 \/ ~(m >= 2)  BY <2>2
  <2>6. CASE broken'
    <3>1. Current > f + 1  BY <1>2, <1>4, <1>5, <2>1, <2>4, <2>6
    <3> QED  BY <2>3, <2>6, <3>1
  <2>7. CASE ~broken'
    <3>1. Current <= f + 2  BY <1>2, <1>5, <2>1, <2>5, <2>7
    <3> QED  BY <2>3, <2>7, <3>1
  <2> QED  BY <2>6, <2>7
<1>11. Rest'  BY <1>1, <1>2, <1>4, <1>10 DEF Rest, Phases
<1>12. File(spotFile', Current') /\ File(optFile', Current')
  BY <1>1, <1>2, <1>3, FileKept
<1>13. /\ Candled'
       /\ (\A i \in 1..Len(bars') : bars'[i].dt <= Current) /\ Settled(bars', Current)
  <2> DEFINE b == bars'
  <2>1. History(b, f) /\ Together(b)  BY <1>7
  <2> HIDE DEF b
  <2>2. f < Current /\ f \in Nat  BY <1>2, <1>4, <1>5
  <2>3. \A i \in 1..Len(b) : b[i].dt \in Nat /\ b[i].dt <= f
    BY <2>1, <2>2, HistoryFacts DEF History
  <2>4. \A i \in 1..Len(b) : b[i].dt < Current  BY <1>2, <2>2, <2>3
  <2>5. Past(b, Current) /\ Settled(b, Current) /\ \A i \in 1..Len(b) : b[i].dt <= Current
    BY <1>2, <2>3, <2>4 DEF Past, Settled
  <2>6. History(b, Current)  BY <1>2, <2>1, <2>2, HistoryKept
  <2>7. History(b, Current') /\ Past(b, Current') /\ Settled(b, Current')
    BY <1>2, <1>3, <2>5, <2>6, CandledKept
  <2>8. History(cache, Current') /\ Past(cache, Current')
    BY <1>1, <1>2, <1>3, CandledKept DEF Candled
  <2>9. History(cache', Current') /\ Past(cache', Current')
    BY <1>4, <2>7, <2>8 DEF b
  <2> QED  BY <2>1, <2>5, <2>7, <2>9 DEF Candled, b
<1>14. FormingLast'
  <2>1. forming' \in Candles /\ forming'.dt = Current /\ forming'.ticks = 1
    BY <1>2, <1>4, Constants DEF Candles
  <2> QED  BY <1>2, <1>3, <1>13, <2>1 DEF FormingLast
<1>15. forming' # NoCandle /\ forming'.dt = Current
  BY <1>2, <1>4, Constants DEF NoCandle, Bars
<1>16. Untracked' /\ BrokenGap'
  BY <1>7, <1>8, <1>10, <1>15 DEF Untracked, BrokenGap
<1>17. JustClosed'
  <2>1. now' > 0 /\ now' - 1 = now  BY <1>2
  <2>2. Bar(now' - 1) = Current  BY <2>1 DEF Current
  <2> QED  BY <1>4, <1>7, <1>8, <1>10, <2>1, <2>2 DEF JustClosed
<1>18. GapHalts'  BY DEF GapHalts, NoScan
<1> QED  BY <1>11, <1>12, <1>13, <1>14, <1>16, <1>17, <1>18 DEF Inv

LEMMA PollPricesInv == ASSUME Inv, PollPrices PROVE Inv'
<1>1. /\ phase = "ltp" /\ now < EndOfDay /\ now' = now + 1 /\ phase' = "spot"
      /\ scan' = NoScan /\ held' = FALSE /\ ~closedBar
      /\ UNCHANGED <<spotFile, optFile, lastCandle, scanned, restarts>>
  BY DEF PollPrices, Inv, JustClosed
<1>a. ASSUME closedBar' = closedBar PROVE JustClosed'
  BY <1>1, <1>a DEF JustClosed
<1>2. broken \in BOOLEAN /\ forming \in Candles /\ Current \in Bars
  BY CurrentIs DEF Inv, Rest, FormingLast
<1>3. CASE UNCHANGED <<feedVars, closedBar>>
  <2>1. UNCHANGED <<tracked, bars, forming, cache, broken, closedBar>>
    BY <1>3 DEF feedVars
  <2> QED  BY <1>1, <1>a, <1>2, <2>1, SameBarsInv
<1>4. CASE tracked /\ Extend /\ UNCHANGED tracked
  <2> DEFINE k == forming.ticks
  <2>1. k \in 0..Polls /\ k > 0 /\ forming # NoCandle
    BY <1>2, <1>4 DEF Extend, Inv, FormingLast, Candles
  <2>2. Min({k + 1, Polls}) \in 1..Polls
    <3> HIDE DEF k
    <3> QED  BY <2>1, MinOfTwo, Constants
  <2>3. forming' = [forming EXCEPT !.ticks = Min({k + 1, Polls})]
    BY <1>4 DEF Extend
  <2> HIDE DEF k
  <2>4. /\ forming' \in Candles /\ forming'.dt = forming.dt
        /\ forming'.ticks \in 1..Polls
    BY <1>2, <2>2, <2>3, Constants DEF Candles
  <2>5. forming' # NoCandle /\ forming'.ticks > 0
    BY <2>4, Constants DEF NoCandle
  <2>6. broken' \in BOOLEAN /\ (broken' => broken)
    BY <1>4 DEF Extend, Restores
  <2>7. UNCHANGED <<tracked, bars, cache, closedBar>>  BY <1>4 DEF Extend
  <2> QED  BY <1>1, <1>a, <1>4, <2>1, <2>4, <2>5, <2>6, <2>7, SameBarsInv
<1>5. CASE tracked /\ OpensFirst /\ UNCHANGED tracked
  <2>1. forming' = [dt |-> Current, ticks |-> 1]  BY <1>5 DEF OpensFirst
  <2>2. /\ forming' \in Candles /\ forming'.dt = Current /\ forming'.ticks > 0
        /\ forming' # NoCandle
    BY <1>2, <2>1, Constants DEF Candles, NoCandle
  <2>3. broken' \in BOOLEAN /\ (broken' => broken)
    BY <1>5 DEF OpensFirst, Restores
  <2>4. UNCHANGED <<tracked, bars, cache, closedBar>>  BY <1>5 DEF OpensFirst
  <2> QED  BY <1>1, <1>a, <1>5, <2>2, <2>3, <2>4, SameBarsInv
<1>6. CASE tracked /\ Closes /\ UNCHANGED tracked  BY <1>1, <1>6, ClosesInv
<1> QED  BY <1>3, <1>4, <1>5, <1>6 DEF PollPrices, Feed

\* A pass that is cut short: a bar that waits keeps waiting.
LEMMA HeldInv == ASSUME Inv, Held PROVE Inv'
<1>1. /\ phase \in {"spot", "raised"} /\ now < EndOfDay /\ now' = now + 1
      /\ phase' = "spot" /\ held' = TRUE /\ scan' = NoScan
      /\ UNCHANGED <<spotFile, optFile, lastCandle, tracked, bars, forming, cache, broken,
                     closedBar, scanned, restarts>>
  BY DEF Held, feedVars
<1>2. broken' \in BOOLEAN  BY <1>1 DEF Inv, Rest
<1>3. JustClosed'  BY <1>1 DEF Inv, JustClosed
<1> QED  BY <1>1, <1>2, <1>3, SameBarsInv

LEMMA RestartInv == ASSUME Inv, Restart PROVE Inv'
<1>1. /\ now \in 0..EndOfDay /\ restarts \in 0..MaxRestarts
      /\ File(spotFile, Current) /\ File(optFile, Current)
      /\ History(cache, Current) /\ Past(cache, Current)
  BY DEF Inv, Rest, Candled
<1>2. /\ now' \in now..EndOfDay /\ phase' = "start" /\ lastCandle' = None
      /\ tracked' = FALSE /\ bars' = <<>> /\ forming' = NoCandle /\ broken' = FALSE
      /\ closedBar' = FALSE /\ scanned' = None /\ scan' = NoScan
      /\ restarts' = restarts + 1 /\ restarts < MaxRestarts /\ held' = FALSE
      /\ UNCHANGED <<spotFile, optFile, cache>>
  BY DEF Restart
<1> DEFINE n == now'
<1>3. n \in 0..EndOfDay /\ n \in Nat /\ now \in Nat /\ now <= n
  <2>1. EndOfDay \in Int  BY Constants DEF EndOfDay
  <2> QED  BY <1>1, <1>2, <2>1
<1>4. Current \in Nat /\ Bar(n) \in Nat /\ Current <= Bar(n) /\ Current' = Bar(n)
  <2> HIDE DEF n
  <2>1. Bar(now) \in Nat /\ Bar(n) \in Nat /\ Bar(now) <= Bar(n)
    BY <1>3, BarIs, BarGrows
  <2> QED  BY <2>1 DEF Current, n
<1>5. Rest'
  <2>1. restarts' \in 0..MaxRestarts  BY <1>1, <1>2
  <2>2. now' \in 0..EndOfDay  BY <1>3
  <2> QED  BY <1>2, <2>1, <2>2 DEF Rest, Phases
<1> HIDE DEF n
<1>6. File(spotFile', Current') /\ File(optFile', Current')
  BY <1>1, <1>2, <1>4, FileKept
<1>7. Candled'
  <2>1. History(cache, Current') /\ Past(cache, Current')
    BY <1>1, <1>4, CandledKept
  <2>2. History(<<>>, Current') /\ Len(<<>>) = 0  BY <1>4, EmptyHistory, EmptySeq
  <2>3. Together(<<>>) /\ Settled(<<>>, Current')  BY <2>2 DEF Together, Settled
  <2> QED  BY <1>2, <2>1, <2>2, <2>3 DEF Candled
<1>8. FormingLast'
  BY <1>2, Constants DEF FormingLast, Candles, NoCandle
<1>9. Untracked' /\ BrokenGap' /\ JustClosed' /\ GapHalts'
  BY <1>2 DEF Untracked, BrokenGap, JustClosed, GapHalts, NoScan
<1> QED  BY <1>5, <1>6, <1>7, <1>8, <1>9 DEF Inv

LEMMA StutterInv == ASSUME Inv, UNCHANGED vars PROVE Inv'
<1>1. UNCHANGED <<now, phase, spotFile, optFile, lastCandle, tracked, bars, forming,
                  cache, broken, closedBar, scanned, scan, held, restarts>>
  BY DEF vars, feedVars, scanVars
<1>2. Current' = Current  BY <1>1 DEF Current
<1> QED
  BY <1>1, <1>2
  DEF Inv, Rest, Candled, FormingLast, Untracked, BrokenGap, JustClosed, GapHalts

LEMMA StepInv == ASSUME Inv, [Next]_vars PROVE Inv'
<1>1. CASE Start  BY <1>1, StartInv
<1>2. CASE PollSpot  BY <1>2, PollSpotInv
<1>3. CASE Scan  BY <1>3, ScanInv
<1>4. CASE PollPrices  BY <1>4, PollPricesInv
<1>5. CASE Restart  BY <1>5, RestartInv
<1>6. CASE UNCHANGED vars  BY <1>6, StutterInv
<1>7. CASE Held  BY <1>7, HeldInv
<1> QED  BY <1>1, <1>2, <1>3, <1>4, <1>5, <1>6, <1>7 DEF Next

-----------------------------------------------------------------------------
(* The theorems.                                                           *)

\* The inductive invariant: nothing on file or in the history is later than
\* the clock, and the forming candle is the latest of all.
LEMMA InvHolds == Spec => []Inv
<1>1. Init => Inv  BY InitInv
<1>2. Inv /\ [Next]_vars => Inv'  BY StepInv
<1> QED  BY <1>1, <1>2, PTL DEF Spec

\* No interval counts twice in the history that the RSI is computed on but the
\* one in which the option entered the universe, and no bar built from prices is
\* ever before an older one, for every mix of restored, downloaded and own bars.
THEOREM OwnBarsFollow == Spec => []OwnBarsInOrder
<1>1. ASSUME Inv PROVE OwnBarsInOrder
  <2>1. /\ History(bars, Current) /\ History(cache, Current) /\ Current \in Nat
        /\ File(spotFile, Current) /\ File(optFile, Current) /\ Rest /\ FormingLast
        /\ Together(bars)
    BY <1>1, CurrentIs DEF Inv, Rest, Candled
  <2>2. TypeOK
    BY <2>1 DEF TypeOK, Rest, Phases, FormingLast, Candles, History, File
  <2>3. DOMAIN bars = 1..Len(bars)  BY <2>1, HistoryFacts
  <2> QED  BY <2>1, <2>2, <2>3 DEF OwnBarsInOrder, Together
<1> QED  BY <1>1, InvHolds, PTL

\* A scan that the close of a bar causes never acts behind a gap of two bars,
\* and the breaker is on only while there is a gap.
THEOREM BreakerIsRight == Spec => []BreakerTracksGaps
<1>1. Inv => BreakerTracksGaps
  BY DEF Inv, BreakerTracksGaps, BreakerMeansGap, BrokenGap
<1> QED  BY <1>1, InvHolds, PTL
=============================================================================
