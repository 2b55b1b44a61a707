-------------------------- MODULE TradeBookProofs --------------------------
(***************************************************************************)
(* Proofs about TradeBook: for every number of entries, days, crashes and  *)
(* failed writes, trade ids stay unique, the file forgets no recent trade, *)
(* a restart recovers the day's result, and while writes succeed every     *)
(* open position has a record.                                             *)
(*                                                                         *)
(* Sums and filters of the book are folds, which the library defines by a  *)
(* recursive function over sets of indices.  The first sections prove what *)
(* they compute by induction on a set of numbers (SetInduction, from the   *)
(* pigeonhole principle).  BookOK(b, d) says what a book b is at day d;    *)
(* then there is one lemma for each operation of TradeTracker, first on a  *)
(* book, then on the cache.  Inv is the inductive invariant of the trader; *)
(* Valued and Tracked are invariants that stand on it.                     *)
(***************************************************************************)
EXTENDS TradeBook, FiniteSetTheorems, SequenceTheorems, TLAPS

-----------------------------------------------------------------------------
(* Induction, and the fold of the library as a sum.                        *)

\* A set that has 0 and is closed under successor has every natural number: else
\* the successor would map the members up to a missing one into one fewer of them.
LEMMA SetInduction ==
    ASSUME NEW S, 0 \in S, \A n \in Nat : n \in S => n + 1 \in S
    PROVE  Nat \subseteq S
<1> SUFFICES ASSUME NEW k \in Nat, k \notin S PROVE FALSE
  OBVIOUS
<1> DEFINE A == {n \in 0..k : n \in S}
           B == A \ {0}
           succ == [n \in A |-> n + 1]
<1>1. IsFiniteSet(A) /\ Cardinality(A) \in Nat
  <2>1. IsFiniteSet(0..k)  BY FS_Interval
  <2>2. A \subseteq 0..k  OBVIOUS
  <2>3. IsFiniteSet(A)  BY <2>1, <2>2, FS_Subset
  <2> QED  BY <2>3, FS_CardinalityType
<1>2. 0 \in A  OBVIOUS
<1>3. IsFiniteSet(B) /\ Cardinality(B) = Cardinality(A) - 1
  BY <1>1, <1>2, FS_RemoveElement
<1>4. \A n \in A : n + 1 \in B
  OBVIOUS
<1>5. succ \in [A -> B]  BY <1>4
<1>a. \A n \in A : succ[n] = n + 1 /\ n \in Nat  OBVIOUS
<1>6. Cardinality(B) < Cardinality(A)  BY <1>1, <1>3
<1> HIDE DEF A, B, succ
<1>7. \E x, y \in A : x # y /\ succ[x] = succ[y]
  BY <1>1, <1>3, <1>5, <1>6, FS_PigeonHole
<1> QED  BY <1>7, <1>a

\* A non-empty set of numbers up to n has a largest one.
LEMMA MaxOf ==
    ASSUME NEW n \in Nat, NEW T \in SUBSET (1..n), T # {}
    PROVE  Max(T) \in T /\ \A y \in T : Max(T) >= y
<1> DEFINE S == {k \in Nat : \A U \in SUBSET (1..k) :
                   U # {} => \E x \in U : \A y \in U : x >= y}
<1>1. 0 \in S
  <2>1. \A U \in SUBSET (1..0) : U = {}  OBVIOUS
  <2> QED  BY <2>1
<1>2. ASSUME NEW k \in Nat, k \in S PROVE k + 1 \in S
  <2> SUFFICES ASSUME NEW U \in SUBSET (1..(k + 1)), U # {}
               PROVE  \E x \in U : \A y \in U : x >= y
    OBVIOUS
  <2>1. CASE k + 1 \in U  BY <2>1
  <2>2. CASE k + 1 \notin U
    <3>1. U \in SUBSET (1..k)  BY <2>2
    <3> QED  BY <3>1, <1>2
  <2> QED  BY <2>1, <2>2
<1>3. Nat \subseteq S
  <2> HIDE DEF S
  <2> QED  BY <1>1, <1>2, SetInduction
<1>4. \E x \in T : \A y \in T : x >= y  BY <1>3
<1> QED  BY <1>4 DEF Max

LEMMA MaxOfInterval ==
    ASSUME NEW n \in Nat \ {0}
    PROVE  Max(1..n) = n
<1>1. n \in 1..n /\ 1..n \in SUBSET (1..n)  OBVIOUS
<1>2. Max(1..n) \in 1..n /\ Max(1..n) >= n  BY <1>1, MaxOf
<1> QED  BY <1>2

\* g is the function by which FoldLeft folds s, with F on pairs.
FoldOf(F, base, s, g) ==
    g = [T \in SUBSET (DOMAIN s) |->
           IF T = {} THEN base ELSE F[<<g[T \ {Max(T)}], s[Max(T)]>>]]

\* That function exists: FoldLeft chooses it.
LEMMA FoldExists ==
    ASSUME NEW A, NEW B, NEW F \in [A \X B -> A], NEW base \in A, NEW s \in Seq(B)
    PROVE  \E g \in [SUBSET (DOMAIN s) -> A] : FoldOf(F, base, s, g)
<1> DEFINE Folds(n, g) ==
             /\ g \in [SUBSET (1..n) -> A]
             /\ \A T \in SUBSET (1..n) :
                   g[T] = IF T = {} THEN base ELSE F[<<g[T \ {Max(T)}], s[Max(T)]>>]
           S == {n \in Nat : n <= Len(s) => \E g : Folds(n, g)}
<1>1. 0 \in S
  <2> DEFINE g == [T \in {{}} |-> base]
  <2>1. \A T : T \in SUBSET (1..0) <=> T = {}  OBVIOUS
  <2>2. SUBSET (1..0) = {{}}  BY <2>1
  <2>3. g \in [SUBSET (1..0) -> A]  BY <2>2
  <2>4. \A T \in SUBSET (1..0) : g[T] = base /\ T = {}  BY <2>2
  <2>5. Folds(0, g)
    <3> HIDE DEF g
    <3> QED  BY <2>3, <2>4
  <2> HIDE DEF Folds
  <2> QED  BY <2>5
<1>2. ASSUME NEW n \in Nat, n \in S PROVE n + 1 \in S
  <2> SUFFICES ASSUME n + 1 <= Len(s) PROVE \E g : Folds(n + 1, g)
    <3> HIDE DEF Folds
    <3> QED  OBVIOUS
  <2>1. PICK g : Folds(n, g)
    <3> HIDE DEF Folds
    <3>1. Len(s) \in Nat  OBVIOUS
    <3> QED  BY <1>2, <3>1
  <2> DEFINE h == [T \in SUBSET (1..(n + 1)) |->
                     IF n + 1 \in T THEN F[<<g[T \ {n + 1}], s[n + 1]>>] ELSE g[T]]
  <2>2. ASSUME NEW T \in SUBSET (1..(n + 1))
        PROVE  /\ h[T] \in A
               /\ h[T] = IF T = {} THEN base ELSE F[<<h[T \ {Max(T)}], s[Max(T)]>>]
    <3>1. CASE n + 1 \in T
      <4>1. Max(T) = n + 1
        <5>1. n + 1 \in Nat /\ T # {}  BY <3>1
        <5>2. Max(T) \in T /\ Max(T) >= n + 1  BY <3>1, <5>1, MaxOf
        <5>3. Max(T) \in 1..(n + 1)  BY <5>2
        <5> QED  BY <5>2, <5>3
      <4>2. T \ {n + 1} \in SUBSET (1..n)  OBVIOUS
      <4>3. h[T \ {n + 1}] = g[T \ {n + 1}]  BY <4>2
      <4>4. g[T \ {n + 1}] \in A /\ s[n + 1] \in B  BY <2>1, <4>2
      <4> QED  BY <3>1, <4>1, <4>3, <4>4
    <3>2. CASE n + 1 \notin T
      <4>1. T \in SUBSET (1..n)  BY <3>2
      <4>2. CASE T = {}  BY <2>1, <3>2, <4>1, <4>2
      <4>3. CASE T # {}
        <5>1. T \ {Max(T)} \in SUBSET (1..n)  BY <4>1
        <5>2. h[T \ {Max(T)}] = g[T \ {Max(T)}]  BY <5>1
        <5> QED  BY <2>1, <3>2, <4>1, <4>3, <5>2
      <4> QED  BY <4>2, <4>3
    <3> QED  BY <3>1, <3>2
  <2>3. Folds(n + 1, h)
    <3> HIDE DEF h
    <3>1. h \in [SUBSET (1..(n + 1)) -> A]
      <4>1. h = [T \in SUBSET (1..(n + 1)) |-> h[T]]  BY DEF h
      <4> QED  BY <4>1, <2>2
    <3> QED  BY <3>1, <2>2
  <2> QED  BY <2>3
<1>3. Len(s) \in S
  <2>1. Nat \subseteq S
    <3> HIDE DEF S
    <3> QED  BY <1>1, <1>2, SetInduction
  <2>2. Len(s) \in Nat  OBVIOUS
  <2> QED  BY <2>1, <2>2
<1>4. PICK g : Folds(Len(s), g)
  <2> HIDE DEF Folds
  <2> QED  BY <1>3
<1>5. DOMAIN s = 1..Len(s)  OBVIOUS
<1>6. g = [T \in SUBSET (DOMAIN s) |-> g[T]] /\ g \in [SUBSET (DOMAIN s) -> A]
  BY <1>4, <1>5
<1>7. \A T \in SUBSET (DOMAIN s) :
         g[T] = IF T = {} THEN base ELSE F[<<g[T \ {Max(T)}], s[Max(T)]>>]
  BY <1>4, <1>5
<1>8. [T \in SUBSET (DOMAIN s) |-> g[T]]
        = [T \in SUBSET (DOMAIN s) |->
             IF T = {} THEN base ELSE F[<<g[T \ {Max(T)}], s[Max(T)]>>]]
  BY <1>7
<1>9. FoldOf(F, base, s, g)  BY <1>6, <1>8 DEF FoldOf
<1> QED  BY <1>6, <1>9

\* The same for a sum.
FoldsSum(w, g) ==
    g = [T \in SUBSET (DOMAIN w) |->
           IF T = {} THEN 0 ELSE g[T \ {Max(T)}] + w[Max(T)]]

LEMMA TotalIs ==
    ASSUME NEW w \in Seq(Int)
    PROVE  \E g : FoldsSum(w, g) /\ Total(w) = g[DOMAIN w]
<1> DEFINE F == [p \in Int \X Int |-> p[1] + p[2]]
<1>1. F \in [Int \X Int -> Int]  OBVIOUS
<1>2. PICK g \in [SUBSET (DOMAIN w) -> Int] : FoldOf(F, 0, w, g)
  <2> HIDE DEF F
  <2>1. 0 \in Int  OBVIOUS
  <2> QED  BY <1>1, <2>1, FoldExists
<1>3. ASSUME NEW T \in SUBSET (DOMAIN w), T # {}
      PROVE  F[<<g[T \ {Max(T)}], w[Max(T)]>>] = g[T \ {Max(T)}] + w[Max(T)]
  <2>1. Max(T) \in T
    <3>1. DOMAIN w = 1..Len(w) /\ Len(w) \in Nat  OBVIOUS
    <3> QED  BY <1>3, <3>1, MaxOf
  <2>2. w[Max(T)] \in Int /\ g[T \ {Max(T)}] \in Int  BY <2>1
  <2> QED  BY <2>2
<1> HIDE DEF F
<1>4. FoldsSum(w, g)  BY <1>2, <1>3 DEF FoldsSum, FoldOf
<1>5. Total(w) = (CHOOSE f : FoldsSum(w, f))[DOMAIN w]
  BY DEF Total, FoldLeft, MapThenFoldSet, FoldsSum
<1> QED  BY <1>4, <1>5

\* A sum along the prefixes of a list.
LEMMA SumAlong ==
    ASSUME NEW w \in Seq(Int), NEW g, FoldsSum(w, g)
    PROVE  /\ g[1..0] = 0
           /\ \A m \in 1..Len(w) : g[1..m] = g[1..(m - 1)] + w[m]
<1>1. g[1..0] = 0
  <2>1. 1..0 = {}  OBVIOUS
  <2> QED  BY <2>1 DEF FoldsSum
<1>2. ASSUME NEW m \in 1..Len(w) PROVE g[1..m] = g[1..(m - 1)] + w[m]
  <2>1. 1..m \in SUBSET (DOMAIN w) /\ 1..m # {}
    <3>1. m \in 1..m  OBVIOUS
    <3>2. 1..m \subseteq 1..Len(w) /\ DOMAIN w = 1..Len(w)  OBVIOUS
    <3> QED  BY <3>1, <3>2
  <2>2. Max(1..m) = m  BY MaxOfInterval
  <2>3. (1..m) \ {m} = 1..(m - 1)  OBVIOUS
  <2> QED  BY <2>1, <2>2, <2>3 DEF FoldsSum
<1> QED  BY <1>1, <1>2

LEMMA TotalOfEmpty == Total(<<>>) = 0
<1>1. <<>> \in Seq(Int) /\ DOMAIN <<>> = 1..0  OBVIOUS
<1> QED  BY <1>1, TotalIs, SumAlong

\* Two folds agree along a common prefix.
LEMMA SamePrefix ==
    ASSUME NEW v \in Seq(Int), NEW w \in Seq(Int), NEW f, NEW g,
           FoldsSum(v, f), FoldsSum(w, g), Len(v) <= Len(w),
           \A m \in 1..Len(v) : v[m] = w[m]
    PROVE  f[1..Len(v)] = g[1..Len(v)] /\ f[1..Len(v)] \in Int
<1> DEFINE S == {n \in Nat : n <= Len(v) => f[1..n] = g[1..n] /\ f[1..n] \in Int}
<1>1. 0 \in S  BY SumAlong
<1>2. ASSUME NEW n \in Nat, n \in S PROVE n + 1 \in S
  <2>1. CASE n + 1 <= Len(v)
    <3>1. f[1..n] = g[1..n] /\ f[1..n] \in Int  BY <1>2, <2>1
    <3>2. n + 1 \in 1..Len(v) /\ n + 1 \in 1..Len(w) /\ (n + 1) - 1 = n  BY <2>1
    <3>3. f[1..(n + 1)] = f[1..n] + v[n + 1]  BY <3>2, SumAlong
    <3>4. g[1..(n + 1)] = g[1..n] + w[n + 1]  BY <3>2, SumAlong
    <3>5. v[n + 1] = w[n + 1] /\ v[n + 1] \in Int  BY <3>2
    <3> QED  BY <3>1, <3>3, <3>4, <3>5
  <2> QED  BY <2>1
<1>3. Nat \subseteq S
  <2> HIDE DEF S
  <2> QED  BY <1>1, <1>2, SetInduction
<1>4. Len(v) \in Nat  OBVIOUS
<1> QED  BY <1>3, <1>4

LEMMA TotalIsInt ==
    ASSUME NEW w \in Seq(Int)
    PROVE  Total(w) \in Int
<1>1. PICK g : FoldsSum(w, g) /\ Total(w) = g[DOMAIN w]  BY TotalIs
<1>2. DOMAIN w = 1..Len(w)  OBVIOUS
<1> QED  BY <1>1, <1>2, SamePrefix

LEMMA TotalOfAppend ==
    ASSUME NEW w \in Seq(Int), NEW x \in Int
    PROVE  Total(Append(w, x)) = Total(w) + x
<1> DEFINE u == Append(w, x)
<1>1. /\ u \in Seq(Int) /\ Len(u) = Len(w) + 1 /\ u[Len(u)] = x
      /\ \A m \in 1..Len(w) : u[m] = w[m]
  OBVIOUS
<1>2. DOMAIN w = 1..Len(w) /\ DOMAIN u = 1..Len(u)  OBVIOUS
<1> HIDE DEF u
<1>3. PICK f : FoldsSum(w, f) /\ Total(w) = f[1..Len(w)]  BY <1>2, TotalIs
<1>4. PICK g : FoldsSum(u, g) /\ Total(u) = g[1..Len(u)]  BY <1>1, <1>2, TotalIs
<1>5. f[1..Len(w)] = g[1..Len(w)]  BY <1>1, <1>3, <1>4, SamePrefix
<1>6. Len(u) \in 1..Len(u) /\ Len(u) - 1 = Len(w)  BY <1>1
<1>7. g[1..Len(u)] = g[1..Len(w)] + x  BY <1>1, <1>4, <1>6, SumAlong
<1> QED  BY <1>3, <1>4, <1>5, <1>7 DEF u

LEMMA TotalOfConcat ==
    ASSUME NEW v \in Seq(Int), NEW w \in Seq(Int)
    PROVE  Total(v \o w) = Total(v) + Total(w)
<1> DEFINE S == {n \in Nat : \A u \in Seq(Int) :
                   Len(u) = n => Total(v \o u) = Total(v) + Total(u)}
<1>1. 0 \in S
  <2>1. ASSUME NEW u \in Seq(Int), Len(u) = 0
        PROVE  Total(v \o u) = Total(v) + Total(u)
    <3>1. u = <<>> /\ v \o u = v  BY <2>1
    <3> QED  BY <3>1, TotalOfEmpty, TotalIsInt
  <2> QED  BY <2>1
<1>2. ASSUME NEW n \in Nat, n \in S PROVE n + 1 \in S
  <2>1. ASSUME NEW u \in Seq(Int), Len(u) = n + 1
        PROVE  Total(v \o u) = Total(v) + Total(u)
    <3> DEFINE front == SubSeq(u, 1, n)
               last == u[n + 1]
    <3>1. front \in Seq(Int) /\ Len(front) = n /\ last \in Int  BY <2>1
    <3>2. u = Append(front, last)  BY <2>1
    <3>3. v \o Append(front, last) = Append(v \o front, last) /\ v \o front \in Seq(Int)
      BY <3>1, SMTT(30)
    <3> HIDE DEF front, last
    <3>4. Total(v \o front) = Total(v) + Total(front)  BY <1>2, <3>1
    <3>5. Total(v \o u) = Total(v \o front) + last  BY <3>1, <3>2, <3>3, TotalOfAppend
    <3>6. Total(u) = Total(front) + last  BY <3>1, <3>2, TotalOfAppend
    <3>7. Total(v) \in Int /\ Total(front) \in Int  BY <3>1, TotalIsInt
    <3> QED  BY <3>1, <3>4, <3>5, <3>6, <3>7
  <2> QED  BY <2>1
<1>3. Nat \subseteq S
  <2> HIDE DEF S
  <2> QED  BY <1>1, <1>2, SetInduction
<1>4. Len(w) \in Nat  OBVIOUS
<1> QED  BY <1>3, <1>4

\* The parts of a list before and after an index.
LEMMA Parts ==
    ASSUME NEW S, NEW w \in Seq(S), NEW i \in DOMAIN w
    PROVE  /\ SubSeq(w, 1, i - 1) \in Seq(S) /\ Len(SubSeq(w, 1, i - 1)) = i - 1
           /\ \A k \in 1..(i - 1) : SubSeq(w, 1, i - 1)[k] = w[k]
           /\ SubSeq(w, i + 1, Len(w)) \in Seq(S)
           /\ Len(SubSeq(w, i + 1, Len(w))) = Len(w) - i
           /\ \A k \in 1..(Len(w) - i) : SubSeq(w, i + 1, Len(w))[k] = w[i + k]
           /\ i \in Nat /\ 1 <= i /\ i <= Len(w) /\ w[i] \in S
<1>1. i \in Nat /\ 1 <= i /\ i <= Len(w) /\ w[i] \in S  OBVIOUS
<1> QED  BY <1>1

\* A list with one element replaced, cut around it.
LEMMA WithBetween ==
    ASSUME NEW S, NEW w \in Seq(S), NEW i \in DOMAIN w, NEW x \in S
    PROVE  [w EXCEPT ![i] = x]
             = Append(SubSeq(w, 1, i - 1), x) \o SubSeq(w, i + 1, Len(w))
<1> DEFINE before == SubSeq(w, 1, i - 1)
           after == SubSeq(w, i + 1, Len(w))
           a == Append(before, x)
           u == a \o after
           v == [w EXCEPT ![i] = x]
<1>1. /\ before \in Seq(S) /\ Len(before) = i - 1
      /\ \A k \in 1..(i - 1) : before[k] = w[k]
      /\ after \in Seq(S) /\ Len(after) = Len(w) - i
      /\ \A k \in 1..(Len(w) - i) : after[k] = w[i + k]
      /\ i \in Nat /\ 1 <= i /\ i <= Len(w) /\ Len(w) \in Nat
  BY Parts
<1>2. v \in Seq(S) /\ Len(v) = Len(w) /\ \A k \in 1..Len(w) : v[k] = IF k = i THEN x ELSE w[k]
  OBVIOUS
<1> HIDE DEF before, after, v
<1>3. a \in Seq(S) /\ Len(a) = i /\ a[i] = x /\ \A k \in 1..(i - 1) : a[k] = w[k]
  BY <1>1
<1> HIDE DEF a
<1>4. u \in Seq(S) /\ Len(u) = Len(w)  BY <1>1, <1>3
<1>5. ASSUME NEW k \in 1..Len(w) PROVE u[k] = v[k]
  <2>0. u[k] = IF k <= i THEN a[k] ELSE after[k - i]
    <3>1. k \in 1..(Len(a) + Len(after))  BY <1>1, <1>3
    <3> QED  BY <1>1, <1>3, <3>1, ConcatProperties, ZenonT(30)
  <2>1. CASE k < i  BY <1>1, <1>2, <1>3, <2>0, <2>1
  <2>2. CASE k = i  BY <1>1, <1>2, <1>3, <2>0, <2>2
  <2>3. CASE k > i
    <3>1. k - i \in 1..(Len(w) - i) /\ i + (k - i) = k  BY <1>1, <2>3
    <3>2. after[k - i] = w[k]  BY <1>1, <3>1
    <3> QED  BY <1>1, <1>2, <2>0, <2>3, <3>2
  <2>4. k < i \/ k = i \/ k > i  BY <1>1
  <2> QED  BY <2>1, <2>2, <2>3, <2>4
<1> HIDE DEF u
<1>6. u = v  BY <1>2, <1>4, <1>5, SeqEqual
<1> QED  BY <1>6 DEF u, a, before, after, v

LEMMA TotalOfZeros ==
    ASSUME NEW w \in Seq(Int), \A i \in DOMAIN w : w[i] = 0
    PROVE  Total(w) = 0
<1>1. PICK g : FoldsSum(w, g) /\ Total(w) = g[DOMAIN w]  BY TotalIs
<1> DEFINE S == {n \in Nat : n <= Len(w) => g[1..n] = 0}
<1>2. 0 \in S  BY <1>1, SumAlong
<1>3. ASSUME NEW n \in Nat, n \in S PROVE n + 1 \in S
  <2>1. CASE n + 1 <= Len(w)
    <3>1. n + 1 \in 1..Len(w) /\ (n + 1) - 1 = n  BY <2>1
    <3>2. g[1..(n + 1)] = g[1..n] + w[n + 1]  BY <1>1, <3>1, SumAlong
    <3> QED  BY <1>3, <2>1, <3>1, <3>2
  <2> QED  BY <2>1
<1>4. Nat \subseteq S
  <2> HIDE DEF S
  <2> QED  BY <1>2, <1>3, SetInduction
<1>5. Len(w) \in Nat /\ DOMAIN w = 1..Len(w)  OBVIOUS
<1> QED  BY <1>1, <1>4, <1>5

-----------------------------------------------------------------------------
(* What a list of trades is worth.                                         *)

\* What a list is worth, when f gives the worth of an element.
Weigh(f, s) == [i \in DOMAIN s |-> f[s[i]]]
Worth(f, s) == Total(Weigh(f, s))

LEMMA WeighType ==
    ASSUME NEW S, NEW f \in [S -> Int], NEW s \in Seq(S)
    PROVE  Weigh(f, s) \in Seq(Int) /\ Len(Weigh(f, s)) = Len(s)
<1>1. DOMAIN s = 1..Len(s) /\ \A k \in 1..Len(s) : s[k] \in S  OBVIOUS
<1> QED  BY <1>1 DEF Weigh

LEMMA WeighAt ==
    ASSUME NEW S, NEW f \in [S -> Int], NEW s \in Seq(S), NEW k \in 1..Len(s)
    PROVE  Weigh(f, s)[k] = f[s[k]]
<1>1. DOMAIN s = 1..Len(s)  OBVIOUS
<1> QED  BY <1>1 DEF Weigh

LEMMA WorthIsInt ==
    ASSUME NEW S, NEW f \in [S -> Int], NEW s \in Seq(S)
    PROVE  Worth(f, s) \in Int
BY WeighType, TotalIsInt DEF Worth

LEMMA WorthOfEmpty ==
    ASSUME NEW f
    PROVE  Worth(f, <<>>) = 0
<1>1. Weigh(f, <<>>) = <<>>  BY DEF Weigh
<1> QED  BY <1>1, TotalOfEmpty DEF Worth

LEMMA WorthOfConcat ==
    ASSUME NEW S, NEW f \in [S -> Int], NEW s \in Seq(S), NEW u \in Seq(S)
    PROVE  Worth(f, s \o u) = Worth(f, s) + Worth(f, u)
<1> DEFINE v == s \o u
           a == Weigh(f, s)
           b == Weigh(f, u)
           c == Weigh(f, v)
<1>0. ASSUME NEW x \in Seq(S)
      PROVE  /\ Weigh(f, x) \in Seq(Int) /\ Len(Weigh(f, x)) = Len(x)
             /\ \A k \in 1..Len(x) : Weigh(f, x)[k] = f[x[k]]
  <2>1. Weigh(f, x) \in Seq(Int) /\ Len(Weigh(f, x)) = Len(x)  BY WeighType
  <2>2. ASSUME NEW k \in 1..Len(x) PROVE Weigh(f, x)[k] = f[x[k]]  BY WeighAt
  <2> QED  BY <2>1, <2>2
<1>1. /\ v \in Seq(S) /\ Len(v) = Len(s) + Len(u)
      /\ \A k \in 1..(Len(s) + Len(u)) : v[k] = IF k <= Len(s) THEN s[k] ELSE u[k - Len(s)]
  BY ConcatProperties
<1> HIDE DEF v
<1>2. a \in Seq(Int) /\ Len(a) = Len(s) /\ \A k \in 1..Len(s) : a[k] = f[s[k]]
  BY <1>0
<1>8. b \in Seq(Int) /\ Len(b) = Len(u) /\ \A k \in 1..Len(u) : b[k] = f[u[k]]
  BY <1>0
<1>9. c \in Seq(Int) /\ Len(c) = Len(v) /\ \A k \in 1..Len(v) : c[k] = f[v[k]]
  BY <1>0, <1>1
<1> HIDE DEF a, b, c
<1> DEFINE d == a \o b
<1>3. /\ d \in Seq(Int) /\ Len(d) = Len(a) + Len(b)
      /\ \A k \in 1..(Len(a) + Len(b)) : d[k] = IF k <= Len(a) THEN a[k] ELSE b[k - Len(a)]
  <2>1. a \in Seq(Int) /\ b \in Seq(Int)  BY <1>2, <1>8
  <2> QED  BY <2>1, ConcatProperties
<1>4. Len(s) \in Nat /\ Len(u) \in Nat  OBVIOUS
<1>5. ASSUME NEW k \in 1..Len(c) PROVE c[k] = d[k]
  <2>1. k \in 1..(Len(s) + Len(u)) /\ k \in Nat  BY <1>1, <1>2, <1>8, <1>9, <1>4
  <2>2. CASE k <= Len(s)
    <3>1. k \in 1..Len(s)  BY <1>4, <2>1, <2>2
    <3> QED  BY <1>1, <1>2, <1>8, <1>9, <1>3, <2>1, <2>2, <3>1, SMTT(30)
  <2>3. CASE k > Len(s)
    <3>1. k - Len(s) \in 1..Len(u) /\ ~(k <= Len(s))  BY <1>4, <2>1, <2>3
    <3>2. c[k] = f[u[k - Len(s)]]  BY <1>1, <1>9, <2>1, <3>1
    <3>3. d[k] = b[k - Len(s)]  BY <1>2, <1>3, <1>8, <2>1, <3>1
    <3> QED  BY <1>8, <3>1, <3>2, <3>3
  <2>4. k <= Len(s) \/ k > Len(s)  BY <1>4, <2>1
  <2> QED  BY <2>2, <2>3, <2>4
<1> HIDE DEF d
<1>6. c = d  BY <1>1, <1>2, <1>8, <1>9, <1>3, <1>5, SeqEqual
<1>7. Total(d) = Total(a) + Total(b)  BY <1>2, <1>8, <1>9, TotalOfConcat DEF d
<1> QED  BY <1>6, <1>7 DEF Worth, a, b, c, v

LEMMA WorthOfOne ==
    ASSUME NEW S, NEW f \in [S -> Int], NEW t \in S
    PROVE  Worth(f, <<t>>) = f[t]
<1>1. Weigh(f, <<t>>) = Append(<<>>, f[t])
  <2>1. <<t>> \in Seq(S) /\ Len(<<t>>) = 1 /\ <<t>>[1] = t  OBVIOUS
  <2> DEFINE u == <<t>>
  <2> HIDE DEF u
  <2>2. Weigh(f, u) \in Seq(Int) /\ Len(Weigh(f, u)) = 1 /\ Weigh(f, u)[1] = f[t]
    <3>1. /\ Weigh(f, u) \in Seq(Int) /\ Len(Weigh(f, u)) = Len(u)
          /\ \A k \in 1..Len(u) : Weigh(f, u)[k] = f[u[k]]
      <4>1. u \in Seq(S)  BY <2>1 DEF u
      <4> QED  BY <4>1, WeighType, WeighAt
    <3> QED  BY <2>1, <3>1 DEF u
  <2> QED  BY <2>2 DEF u
<1>2. Total(Append(<<>>, f[t])) = Total(<<>>) + f[t]
  <2>1. <<>> \in Seq(Int) /\ f[t] \in Int  OBVIOUS
  <2> QED  BY <2>1, TotalOfAppend
<1>3. f[t] \in Int  OBVIOUS
<1> QED  BY <1>1, <1>2, <1>3, TotalOfEmpty DEF Worth

LEMMA WorthOfAppend ==
    ASSUME NEW S, NEW f \in [S -> Int], NEW s \in Seq(S), NEW t \in S
    PROVE  Worth(f, Append(s, t)) = Worth(f, s) + f[t]
<1>1. Append(s, t) = s \o <<t>> /\ <<t>> \in Seq(S)  OBVIOUS
<1>2. Worth(f, s \o <<t>>) = Worth(f, s) + Worth(f, <<t>>)  BY <1>1, WorthOfConcat
<1>3. Worth(f, <<t>>) = f[t]  BY WorthOfOne
<1> QED  BY <1>1, <1>2, <1>3

LEMMA Around ==
    ASSUME NEW S, NEW s \in Seq(S), NEW i \in DOMAIN s
    PROVE  s = Append(SubSeq(s, 1, i - 1), s[i]) \o SubSeq(s, i + 1, Len(s))
<1>1. s[i] \in S  OBVIOUS
<1>2. [s EXCEPT ![i] = s[i]] = Append(SubSeq(s, 1, i - 1), s[i]) \o SubSeq(s, i + 1, Len(s))
  BY <1>1, WithBetween
<1>3. [s EXCEPT ![i] = s[i]] = s  OBVIOUS
<1> QED  BY <1>2, <1>3

\* One element of the list is replaced.
LEMMA WorthWith ==
    ASSUME NEW S, NEW f \in [S -> Int], NEW s \in Seq(S), NEW i \in DOMAIN s, NEW t \in S,
           NEW other \in Seq(S), Len(other) = Len(s),
           \A k \in 1..Len(s) : other[k] = IF k = i THEN t ELSE s[k]
    PROVE  Worth(f, other) = Worth(f, s) - f[s[i]] + f[t]
<1> DEFINE before == SubSeq(s, 1, i - 1)
           after == SubSeq(s, i + 1, Len(s))
<1>1. before \in Seq(S) /\ after \in Seq(S) /\ s[i] \in S  BY Parts
<1>3. s = Append(before, s[i]) \o after  BY Around
<1>4. other = Append(before, t) \o after
  <2>1. other = [s EXCEPT ![i] = t]  OBVIOUS
  <2>2. [s EXCEPT ![i] = t] = Append(before, t) \o after  BY WithBetween, ZenonT(30)
  <2> QED  BY <2>1, <2>2
<1> HIDE DEF before, after
<1>5. ASSUME NEW y \in S
      PROVE  Worth(f, Append(before, y) \o after) = Worth(f, before) + f[y] + Worth(f, after)
  <2>1. Append(before, y) \in Seq(S)  BY <1>1
  <2>2. Worth(f, Append(before, y)) = Worth(f, before) + f[y]  BY <1>1, WorthOfAppend
  <2> QED  BY <1>1, <2>1, <2>2, WorthOfConcat
<1>6. Worth(f, before) \in Int /\ Worth(f, after) \in Int /\ f[s[i]] \in Int /\ f[t] \in Int
  BY <1>1, WorthIsInt
<1>7. Worth(f, s) = Worth(f, before) + f[s[i]] + Worth(f, after)  BY <1>1, <1>3, <1>5
<1>8. Worth(f, other) = Worth(f, before) + f[t] + Worth(f, after)  BY <1>4, <1>5
<1> QED  BY <1>6, <1>7, <1>8

\* RemoveAt takes the worth of the element with it.
LEMMA WorthWithout ==
    ASSUME NEW S, NEW f \in [S -> Int], NEW s \in Seq(S), NEW i \in DOMAIN s
    PROVE  Worth(f, RemoveAt(s, i)) = Worth(f, s) - f[s[i]]
<1> DEFINE before == SubSeq(s, 1, i - 1)
           after == SubSeq(s, i + 1, Len(s))
<1>1. before \in Seq(S) /\ after \in Seq(S) /\ s[i] \in S  BY Parts
<1>3. s = Append(before, s[i]) \o after  BY Around
<1>4. RemoveAt(s, i) = before \o after  BY DEF RemoveAt
<1> HIDE DEF before, after
<1>5. Append(before, s[i]) \in Seq(S)  BY <1>1
<1>6. Worth(f, Append(before, s[i])) = Worth(f, before) + f[s[i]]  BY <1>1, WorthOfAppend
<1>7. Worth(f, s) = Worth(f, before) + f[s[i]] + Worth(f, after)
  BY <1>1, <1>3, <1>5, <1>6, WorthOfConcat
<1>8. Worth(f, before \o after) = Worth(f, before) + Worth(f, after)  BY <1>1, WorthOfConcat
<1>9. Worth(f, before) \in Int /\ Worth(f, after) \in Int /\ f[s[i]] \in Int
  BY <1>1, WorthIsInt
<1> QED  BY <1>4, <1>7, <1>8, <1>9

LEMMA WorthOfNothing ==
    ASSUME NEW S, NEW f \in [S -> Int], NEW s \in Seq(S), \A k \in 1..Len(s) : f[s[k]] = 0
    PROVE  Worth(f, s) = 0
<1>1. DOMAIN Weigh(f, s) = 1..Len(s)  BY DEF Weigh
<1>2. ASSUME NEW k \in DOMAIN Weigh(f, s) PROVE Weigh(f, s)[k] = 0
  <2>1. k \in 1..Len(s)  BY <1>1
  <2>2. Weigh(f, s)[k] = f[s[k]]  BY <2>1, WeighAt
  <2> QED  BY <2>1, <2>2
<1>3. Weigh(f, s) \in Seq(Int)  BY WeighType
<1> QED  BY <1>2, <1>3, TotalOfZeros DEF Worth

-----------------------------------------------------------------------------
(* OnlyRecent, the filter of trim_old_closed_trades.                       *)

\* g is the function by which OnlyRecent folds s.
FoldsKept(s, g) ==
    g = [T \in SUBSET (DOMAIN s) |->
           IF T = {} THEN <<>>
           ELSE IF Recent(s[Max(T)]) THEN Append(g[T \ {Max(T)}], s[Max(T)])
                                     ELSE g[T \ {Max(T)}]]

LEMMA KeptIs ==
    ASSUME NEW S, NEW s \in Seq(S)
    PROVE  \E g : FoldsKept(s, g) /\ OnlyRecent(s) = g[DOMAIN s]
<1> DEFINE F == [p \in Seq(S) \X S |-> IF Recent(p[2]) THEN Append(p[1], p[2]) ELSE p[1]]
<1>1. F \in [Seq(S) \X S -> Seq(S)]  OBVIOUS
<1>2. PICK g \in [SUBSET (DOMAIN s) -> Seq(S)] : FoldOf(F, <<>>, s, g)
  <2> HIDE DEF F
  <2>1. <<>> \in Seq(S)  OBVIOUS
  <2> QED  BY <1>1, <2>1, FoldExists
<1>3. ASSUME NEW T \in SUBSET (DOMAIN s), T # {}
      PROVE  F[<<g[T \ {Max(T)}], s[Max(T)]>>]
               = IF Recent(s[Max(T)]) THEN Append(g[T \ {Max(T)}], s[Max(T)])
                                      ELSE g[T \ {Max(T)}]
  <2>1. Max(T) \in T
    <3>1. DOMAIN s = 1..Len(s) /\ Len(s) \in Nat  OBVIOUS
    <3> QED  BY <1>3, <3>1, MaxOf
  <2>2. s[Max(T)] \in S /\ g[T \ {Max(T)}] \in Seq(S)  BY <2>1
  <2> QED  BY <2>2
<1> HIDE DEF F
<1>4. FoldsKept(s, g)  BY <1>2, <1>3 DEF FoldsKept, FoldOf
<1>5. OnlyRecent(s) = (CHOOSE f : FoldsKept(s, f))[DOMAIN s]
  BY DEF OnlyRecent, FoldLeft, MapThenFoldSet, FoldsKept
<1> QED  BY <1>4, <1>5

LEMMA KeptAlong ==
    ASSUME NEW S, NEW s \in Seq(S), NEW g, FoldsKept(s, g)
    PROVE  /\ g[1..0] = <<>>
           /\ \A m \in 1..Len(s) :
                 g[1..m] = IF Recent(s[m]) THEN Append(g[1..(m - 1)], s[m]) ELSE g[1..(m - 1)]
<1>1. g[1..0] = <<>>
  <2>1. 1..0 = {}  OBVIOUS
  <2> QED  BY <2>1 DEF FoldsKept
<1>2. ASSUME NEW m \in 1..Len(s)
      PROVE  g[1..m] = IF Recent(s[m]) THEN Append(g[1..(m - 1)], s[m]) ELSE g[1..(m - 1)]
  <2>1. 1..m \in SUBSET (DOMAIN s) /\ 1..m # {}
    <3>1. m \in 1..m  OBVIOUS
    <3>2. 1..m \subseteq 1..Len(s) /\ DOMAIN s = 1..Len(s)  OBVIOUS
    <3> QED  BY <3>1, <3>2
  <2>2. Max(1..m) = m  BY MaxOfInterval
  <2>3. (1..m) \ {m} = 1..(m - 1)  OBVIOUS
  <2> QED  BY <2>1, <2>2, <2>3 DEF FoldsKept
<1> QED  BY <1>1, <1>2

\* K is what OnlyRecent keeps of the first m elements.
KeptOf(s, m, K) ==
    /\ \A p \in DOMAIN K : Recent(K[p]) /\ \E q \in 1..m : K[p] = s[q]
    /\ \A p, q \in DOMAIN K :
          p < q => \E i, j \in 1..m : i < j /\ K[p] = s[i] /\ K[q] = s[j]
    /\ \A q \in 1..m : Recent(s[q]) => \E p \in DOMAIN K : K[p] = s[q]
    /\ (\A q \in 1..m : Recent(s[q])) => Len(K) = m /\ \A q \in 1..m : K[q] = s[q]

LEMMA KeptStep ==
    ASSUME NEW S, NEW s \in Seq(S), NEW m \in Nat, m + 1 <= Len(s),
           NEW K \in Seq(S), KeptOf(s, m, K), Recent(s[m + 1])
    PROVE  KeptOf(s, m + 1, Append(K, s[m + 1]))
<1> DEFINE L == Append(K, s[m + 1])
           n == Len(K) + 1
<1>1. /\ L \in Seq(S) /\ Len(L) = n /\ L[n] = s[m + 1] /\ n \in Nat
      /\ \A p \in 1..Len(K) : L[p] = K[p]
      /\ DOMAIN L = 1..n /\ DOMAIN K = 1..Len(K)
      /\ \A p \in DOMAIN L : p = n \/ p \in DOMAIN K
      /\ \A p \in DOMAIN L : p \in Nat /\ p <= n
      /\ n \in DOMAIN L /\ DOMAIN K \subseteq DOMAIN L
  OBVIOUS
<1>2. /\ m + 1 \in 1..(m + 1) /\ 1..m \subseteq 1..(m + 1)
      /\ \A q \in 1..(m + 1) : q = m + 1 \/ q \in 1..m
      /\ \A q \in 1..m : q < m + 1
  OBVIOUS
<1> HIDE DEF L, n
<1>0. /\ \A p \in DOMAIN K : Recent(K[p]) /\ \E q \in 1..m : K[p] = s[q]
      /\ \A q \in 1..m : Recent(s[q]) => \E p \in DOMAIN K : K[p] = s[q]
  BY DEF KeptOf
<1>3. ASSUME NEW p \in DOMAIN L
      PROVE  Recent(L[p]) /\ \E q \in 1..(m + 1) : L[p] = s[q]
  <2>1. CASE p = n  BY <1>1, <1>2, <2>1
  <2>2. CASE p \in DOMAIN K  BY <1>0, <1>1, <1>2, <2>2
  <2> QED  BY <1>1, <2>1, <2>2
<1>4. ASSUME NEW p \in DOMAIN L, NEW q \in DOMAIN L, p < q
      PROVE  \E i, j \in 1..(m + 1) : i < j /\ L[p] = s[i] /\ L[q] = s[j]
  <2>1. p \in DOMAIN K  BY <1>1, <1>4
  <2>2. CASE q = n
    <3>1. PICK i \in 1..m : K[p] = s[i]  BY <1>0, <2>1
    <3>2. L[p] = s[i] /\ L[q] = s[m + 1] /\ i < m + 1  BY <1>1, <1>2, <2>1, <2>2, <3>1
    <3> QED  BY <1>2, <3>2
  <2>3. CASE q \in DOMAIN K
    <3>1. \E i, j \in 1..m : i < j /\ K[p] = s[i] /\ K[q] = s[j]
      BY <1>4, <2>1, <2>3 DEF KeptOf
    <3> QED  BY <1>1, <1>2, <2>1, <2>3, <3>1
  <2> QED  BY <1>1, <2>2, <2>3
<1>5. ASSUME NEW q \in 1..(m + 1), Recent(s[q])
      PROVE  \E p \in DOMAIN L : L[p] = s[q]
  <2>1. CASE q = m + 1  BY <1>1, <2>1
  <2>2. CASE q \in 1..m
    <3>1. PICK p \in DOMAIN K : K[p] = s[q]  BY <1>0, <1>5, <2>2
    <3> QED  BY <1>1, <3>1
  <2> QED  BY <1>2, <2>1, <2>2
<1>6. (\A q \in 1..(m + 1) : Recent(s[q]))
          => Len(L) = m + 1 /\ \A q \in 1..(m + 1) : L[q] = s[q]
  <2> SUFFICES ASSUME \A q \in 1..(m + 1) : Recent(s[q])
               PROVE  Len(L) = m + 1 /\ \A q \in 1..(m + 1) : L[q] = s[q]
    OBVIOUS
  <2>1. Len(K) = m /\ \A q \in 1..m : K[q] = s[q]  BY <1>2 DEF KeptOf
  <2>2. n = m + 1  BY <2>1 DEF n
  <2> QED  BY <1>1, <1>2, <2>1, <2>2
<1> QED  BY <1>3, <1>4, <1>5, <1>6 DEF KeptOf, L

LEMMA KeptSkip ==
    ASSUME NEW S, NEW s \in Seq(S), NEW m \in Nat, m + 1 <= Len(s),
           NEW K \in Seq(S), KeptOf(s, m, K), ~Recent(s[m + 1])
    PROVE  KeptOf(s, m + 1, K)
<1>1. /\ m + 1 \in 1..(m + 1) /\ 1..m \subseteq 1..(m + 1)
      /\ \A q \in 1..(m + 1) : q = m + 1 \/ q \in 1..m
  OBVIOUS
<1>2. \A p \in DOMAIN K : Recent(K[p]) /\ \E q \in 1..(m + 1) : K[p] = s[q]
  BY <1>1 DEF KeptOf
<1>3. \A p, q \in DOMAIN K :
          p < q => \E i, j \in 1..(m + 1) : i < j /\ K[p] = s[i] /\ K[q] = s[j]
  BY <1>1 DEF KeptOf
<1>4. \A q \in 1..(m + 1) : Recent(s[q]) => \E p \in DOMAIN K : K[p] = s[q]
  BY <1>1 DEF KeptOf
<1> QED  BY <1>1, <1>2, <1>3, <1>4 DEF KeptOf

\* trim_old_closed_trades keeps the recent trades, in their order.
LEMMA OnlyRecentKeeps ==
    ASSUME NEW S, NEW s \in Seq(S)
    PROVE  OnlyRecent(s) \in Seq(S) /\ KeptOf(s, Len(s), OnlyRecent(s))
<1>1. PICK g : FoldsKept(s, g) /\ OnlyRecent(s) = g[DOMAIN s]  BY KeptIs
<1> DEFINE N == {m \in Nat : m <= Len(s) => g[1..m] \in Seq(S) /\ KeptOf(s, m, g[1..m])}
<1>2. 0 \in N
  <2>1. KeptOf(s, 0, <<>>)  BY DEF KeptOf
  <2>2. <<>> \in Seq(S)  OBVIOUS
  <2>3. g[1..0] = <<>>  BY <1>1, KeptAlong
  <2> QED  BY <2>1, <2>2, <2>3
<1>3. ASSUME NEW m \in Nat, m \in N PROVE m + 1 \in N
  <2> SUFFICES ASSUME m + 1 <= Len(s)
               PROVE  g[1..(m + 1)] \in Seq(S) /\ KeptOf(s, m + 1, g[1..(m + 1)])
    OBVIOUS
  <2>1. g[1..m] \in Seq(S) /\ KeptOf(s, m, g[1..m])  BY <1>3
  <2>2. m + 1 \in 1..Len(s) /\ (m + 1) - 1 = m /\ s[m + 1] \in S  OBVIOUS
  <2>3. g[1..(m + 1)] = IF Recent(s[m + 1]) THEN Append(g[1..m], s[m + 1]) ELSE g[1..m]
    BY <1>1, <2>2, KeptAlong
  <2>4. CASE Recent(s[m + 1])
    <3>1. Append(g[1..m], s[m + 1]) \in Seq(S)  BY <2>1, <2>2
    <3> QED  BY <2>1, <2>3, <2>4, <3>1, KeptStep
  <2>5. CASE ~Recent(s[m + 1])  BY <2>1, <2>3, <2>5, KeptSkip
  <2> QED  BY <2>4, <2>5
<1>4. Nat \subseteq N
  <2> HIDE DEF N
  <2> QED  BY <1>2, <1>3, SetInduction
<1>5. Len(s) \in Nat /\ DOMAIN s = 1..Len(s)  OBVIOUS
<1> QED  BY <1>1, <1>4, <1>5

\* What is trimmed has no worth for a day it is too old for.
LEMMA WorthOfRecent ==
    ASSUME NEW S, NEW f \in [S -> Int], NEW s \in Seq(S),
           \A t \in S : ~Recent(t) => f[t] = 0
    PROVE  Worth(f, OnlyRecent(s)) = Worth(f, s)
<1>1. PICK g : FoldsKept(s, g) /\ OnlyRecent(s) = g[DOMAIN s]  BY KeptIs
<1> DEFINE front(m) == SubSeq(s, 1, m)
           N == {m \in Nat : m <= Len(s) =>
                   g[1..m] \in Seq(S) /\ Worth(f, g[1..m]) = Worth(f, front(m))}
<1>2. 0 \in N
  <2>1. g[1..0] = <<>> /\ front(0) = <<>>  BY <1>1, KeptAlong
  <2>2. <<>> \in Seq(S)  OBVIOUS
  <2> QED  BY <2>1, <2>2
<1>3. ASSUME NEW m \in Nat, m \in N PROVE m + 1 \in N
  <2> SUFFICES ASSUME m + 1 <= Len(s)
               PROVE  /\ g[1..(m + 1)] \in Seq(S)
                      /\ Worth(f, g[1..(m + 1)]) = Worth(f, front(m + 1))
    OBVIOUS
  <2>1. g[1..m] \in Seq(S) /\ Worth(f, g[1..m]) = Worth(f, front(m))  BY <1>3
  <2>2. m + 1 \in 1..Len(s) /\ (m + 1) - 1 = m /\ s[m + 1] \in S  OBVIOUS
  <2>3. front(m) \in Seq(S) /\ front(m + 1) = Append(front(m), s[m + 1])  OBVIOUS
  <2>4. g[1..(m + 1)] = IF Recent(s[m + 1]) THEN Append(g[1..m], s[m + 1]) ELSE g[1..m]
    BY <1>1, <2>2, KeptAlong
  <2> HIDE DEF front
  <2>5. Worth(f, front(m + 1)) = Worth(f, front(m)) + f[s[m + 1]]
    BY <2>2, <2>3, WorthOfAppend
  <2>6. CASE Recent(s[m + 1])
    <3>1. Append(g[1..m], s[m + 1]) \in Seq(S)  BY <2>1, <2>2
    <3>2. Worth(f, Append(g[1..m], s[m + 1])) = Worth(f, g[1..m]) + f[s[m + 1]]
      BY <2>1, <2>2, WorthOfAppend
    <3> QED  BY <2>1, <2>4, <2>5, <2>6, <3>1, <3>2
  <2>7. CASE ~Recent(s[m + 1])
    <3>1. f[s[m + 1]] = 0  BY <2>2, <2>7
    <3>2. Worth(f, front(m)) \in Int  BY <2>3, WorthIsInt
    <3> QED  BY <2>1, <2>4, <2>5, <2>7, <3>1, <3>2
  <2> QED  BY <2>6, <2>7
<1>4. Nat \subseteq N
  <2> HIDE DEF N
  <2> QED  BY <1>2, <1>3, SetInduction
<1>5. Len(s) \in Nat /\ DOMAIN s = 1..Len(s)  OBVIOUS
<1>6. front(Len(s)) = s
  <2>1. /\ front(Len(s)) \in Seq(S) /\ Len(front(Len(s))) = Len(s)
        /\ \A k \in 1..Len(s) : front(Len(s))[k] = s[k]
    OBVIOUS
  <2> HIDE DEF front
  <2> QED  BY <2>1, SeqEqual
<1>7. Worth(f, g[1..Len(s)]) = Worth(f, front(Len(s)))
  <2> HIDE DEF front
  <2> QED  BY <1>4, <1>5
<1> QED  BY <1>1, <1>5, <1>6, <1>7

-----------------------------------------------------------------------------
(* The book of a day, and what each operation of TradeTracker makes of it. *)

\* The worth of a trade on day d: its pnl, its partials, its given-up partials.
PnlOn(d) == [t \in Trade |-> IF t.day = d THEN t.pnl ELSE 0]
PartialOn(d) == [t \in Trade |-> IF t.day = d THEN t.partial ELSE 0]
LostOn(d) ==
    [t \in Trade |-> IF t.day = d /\ t.status \in GaveUp THEN t.partial ELSE 0]

\* Two trades that share a trade_id, and that no startup gave up.
Clash(t, u) ==
    /\ t.day = u.day /\ t.num = u.num
    /\ t.status \notin GaveUp /\ u.status \notin GaveUp

NoClash(b) ==
    /\ \A i, j \in 1..Len(b.active) : i # j => ~Clash(b.active[i], b.active[j])
    /\ \A i, j \in 1..Len(b.closed) : i # j => ~Clash(b.closed[i], b.closed[j])
    /\ \A i \in 1..Len(b.active), j \in 1..Len(b.closed) : ~Clash(b.active[i], b.closed[j])

ActiveOf(b) == {b.active[i] : i \in 1..Len(b.active)}
ClosedOf(b) == {b.closed[i] : i \in 1..Len(b.closed)}
Lines(b) == ActiveOf(b) \cup ClosedOf(b)
Count(b) == Len(b.active) + Len(b.closed)

RecentOn(t, d) == t.day >= d - KeepDays
AllRecent(b, d) == \A t \in Lines(b) : RecentOn(t, d)

\* A book on day d.  The number given to the next trade is the count of records
\* plus one; trimming lowers that count, so a trade of the day may only be CLOSED
\* in a book with nothing left to trim.
BookOK(b, d) ==
    /\ b \in Book
    /\ \A t \in ActiveOf(b) : t.status = "OPEN" /\ t.pnl = 0
    /\ \A t \in ClosedOf(b) : t.status # "OPEN"
    /\ \A t \in Lines(b) : t.day <= d
    /\ NoClash(b)
    /\ \A t \in Lines(b) : t.day = d /\ t.status \notin GaveUp => t.num <= Count(b)
    /\ (\E t \in Lines(b) : t.day = d /\ t.status = "CLOSED") => AllRecent(b, d)

\* The result of the day, and the result with the partials that were given up.
Result(b, d) == Worth(PnlOn(d), b.closed) + Worth(PartialOn(d), b.active)
Value(b, d) == Result(b, d) + Worth(LostOn(d), b.closed)

LEMMA Weights ==
    ASSUME NEW d
    PROVE  PnlOn(d) \in [Trade -> Int] /\ PartialOn(d) \in [Trade -> Int]
           /\ LostOn(d) \in [Trade -> Int]
BY DEF PnlOn, PartialOn, LostOn, Trade

LEMMA BookParts ==
    ASSUME NEW b \in Book
    PROVE  /\ b.active \in Seq(Trade) /\ b.closed \in Seq(Trade)
           /\ ActiveOf(b) \subseteq Trade /\ ClosedOf(b) \subseteq Trade
           /\ Len(b.active) \in Nat /\ Len(b.closed) \in Nat
BY DEF Book, ActiveOf, ClosedOf

LEMMA ValuesAreInt ==
    ASSUME NEW b \in Book, NEW d
    PROVE  /\ Worth(PnlOn(d), b.closed) \in Int /\ Worth(PartialOn(d), b.active) \in Int
           /\ Worth(LostOn(d), b.closed) \in Int
           /\ Result(b, d) \in Int /\ Value(b, d) \in Int
<1>1. Worth(PnlOn(d), b.closed) \in Int  BY BookParts, Weights, WorthIsInt
<1>2. Worth(PartialOn(d), b.active) \in Int  BY BookParts, Weights, WorthIsInt
<1>3. Worth(LostOn(d), b.closed) \in Int  BY BookParts, Weights, WorthIsInt
<1> QED  BY <1>1, <1>2, <1>3 DEF Result, Value

\* add_active_trade on book b: book c.
LEMMA BookAdd ==
    ASSUME NEW d \in Int, NEW b, NEW c \in Book, NEW t \in Trade, BookOK(b, d),
           c.active = Append(b.active, t), c.closed = b.closed,
           t.day = d, t.num = Count(b) + 1, t.partial = 0, t.pnl = 0, t.status = "OPEN"
    PROVE  /\ BookOK(c, d)
           /\ ActiveOf(c) = ActiveOf(b) \cup {t} /\ ClosedOf(c) = ClosedOf(b)
           /\ Value(c, d) = Value(b, d) /\ Result(c, d) = Result(b, d)
<1> DEFINE A == b.active
           D == c.active
           n == Len(A) + 1
<1>1. /\ A \in Seq(Trade) /\ b.closed \in Seq(Trade) /\ Len(A) \in Nat /\ Len(b.closed) \in Nat
      /\ ActiveOf(b) \subseteq Trade /\ ClosedOf(b) \subseteq Trade
  BY BookParts DEF BookOK
<1>2. D = Append(A, t) /\ c.closed = b.closed  OBVIOUS
<1>3. /\ D \in Seq(Trade) /\ Len(D) = n /\ D[n] = t /\ n \in Nat
      /\ \A i \in 1..Len(A) : D[i] = A[i]
      /\ \A i \in 1..n : i = n \/ i \in 1..Len(A)
      /\ n \in 1..n /\ 1..Len(A) \subseteq 1..n
  BY <1>1, <1>2
<1> HIDE DEF A, D, n
<1>5. ActiveOf(c) = ActiveOf(b) \cup {t}
  BY <1>3 DEF ActiveOf, A, D
<1>6. ClosedOf(c) = ClosedOf(b)  BY <1>2 DEF ClosedOf
<1>7. Count(c) = Count(b) + 1 /\ Count(b) \in Nat
  <2>1. Len(c.active) = Len(b.active) + 1 /\ Len(c.closed) = Len(b.closed)
    BY <1>2, <1>3 DEF A, D, n
  <2>2. Len(b.active) \in Nat /\ Len(b.closed) \in Nat  BY <1>1 DEF A
  <2>3. Count(b) = Len(b.active) + Len(b.closed) /\ Count(c) = Len(c.active) + Len(c.closed)
    BY DEF Count
  <2> DEFINE x == Len(b.active)
             y == Len(b.closed)
             z == Len(c.active)
             w == Len(c.closed)
  <2> HIDE DEF x, y, z, w
  <2>4. Count(b) = x + y /\ Count(c) = z + w /\ x \in Nat /\ y \in Nat
    BY <2>2, <2>3 DEF x, y, z, w
  <2>5. z = x + 1 /\ w = y  BY <2>1 DEF x, y, z, w
  <2> QED  BY <2>4, <2>5
<1>8. \A u \in Lines(b) : ~Clash(u, t) /\ ~Clash(t, u)
  BY <1>1, <1>7 DEF BookOK, Clash, Lines, Trade
<1>9. NoClash(c)
  <2>1. \A i \in 1..Len(A) : A[i] \in Lines(b)  BY DEF Lines, ActiveOf, A
  <2>2. \A i \in 1..Len(b.closed) : b.closed[i] \in Lines(b)  BY DEF Lines, ClosedOf
  <2>3. \A i, j \in 1..n : i # j => ~Clash(D[i], D[j])
    <3>1. \A i, j \in 1..Len(A) : i # j => ~Clash(A[i], A[j])  BY DEF BookOK, NoClash, A
    <3> QED  BY <1>3, <1>8, <2>1, <3>1
  <2>4. \A i \in 1..n, j \in 1..Len(b.closed) : ~Clash(D[i], b.closed[j])
    <3>1. \A i \in 1..Len(A), j \in 1..Len(b.closed) : ~Clash(A[i], b.closed[j])
      BY DEF BookOK, NoClash, A
    <3> QED  BY <1>3, <1>8, <2>2, <3>1
  <2>5. \A i, j \in 1..Len(b.closed) : i # j => ~Clash(b.closed[i], b.closed[j])
    BY DEF BookOK, NoClash
  <2> QED  BY <1>2, <1>3, <2>3, <2>4, <2>5 DEF NoClash, D
<1>10. BookOK(c, d)
  <2>1. Lines(c) = Lines(b) \cup {t}  BY <1>5, <1>6 DEF Lines
  <2>2. \A u \in Lines(c) : u.day <= d  BY <2>1 DEF BookOK
  <2>3. \A u \in Lines(c) : u.day = d /\ u.status \notin GaveUp => u.num <= Count(c)
    <3>1. \A u \in Lines(b) : u.num \in Nat  BY <1>1 DEF Lines, Trade
    <3>2. \A u \in Lines(b) : u.day = d /\ u.status \notin GaveUp => u.num <= Count(b)
      BY DEF BookOK
    <3> QED  BY <1>7, <2>1, <3>1, <3>2
  <2>4. (\E u \in Lines(c) : u.day = d /\ u.status = "CLOSED") => AllRecent(c, d)
    <3>1. RecentOn(t, d)  BY TradeBookAssumption DEF RecentOn
    <3> QED  BY <2>1, <3>1 DEF BookOK, AllRecent
  <2> QED  BY <1>5, <1>6, <1>9, <2>2, <2>3, <2>4 DEF BookOK
<1>11. Worth(PartialOn(d), c.active) = Worth(PartialOn(d), b.active)
  <2>1. PartialOn(d)[t] = 0  BY DEF PartialOn
  <2>2. Worth(PartialOn(d), Append(A, t)) = Worth(PartialOn(d), A) + PartialOn(d)[t]
    <3>1. PartialOn(d) \in [Trade -> Int] /\ A \in Seq(Trade)  BY <1>1, Weights
    <3> QED  BY <3>1, WorthOfAppend
  <2>3. Worth(PartialOn(d), A) \in Int  BY <1>1, Weights, WorthIsInt
  <2> QED  BY <1>2, <2>1, <2>2, <2>3 DEF A, D
<1> QED  BY <1>2, <1>5, <1>6, <1>10, <1>11 DEF Value, Result

\* K is s without its element at i.
\* RemoveAt, the list.remove of close_trade.
LEMMA Removed ==
    ASSUME NEW S, NEW s \in Seq(S), NEW i \in 1..Len(s)
    PROVE  /\ RemoveAt(s, i) \in Seq(S) /\ Len(RemoveAt(s, i)) = Len(s) - 1
           /\ \A k \in 1..Len(RemoveAt(s, i)) :
                 RemoveAt(s, i)[k] = s[IF k < i THEN k ELSE k + 1]
<1> DEFINE K == RemoveAt(s, i)
           before == SubSeq(s, 1, i - 1)
           after == SubSeq(s, i + 1, Len(s))
<1>1. /\ before \in Seq(S) /\ Len(before) = i - 1
      /\ \A k \in 1..(i - 1) : before[k] = s[k]
      /\ after \in Seq(S) /\ Len(after) = Len(s) - i
      /\ \A k \in 1..(Len(s) - i) : after[k] = s[i + k]
      /\ i \in Nat /\ 1 <= i /\ i <= Len(s) /\ Len(s) \in Nat
  <2>1. i \in DOMAIN s /\ Len(s) \in Nat  OBVIOUS
  <2>2. /\ before \in Seq(S) /\ Len(before) = i - 1
        /\ \A k \in 1..(i - 1) : before[k] = s[k]
    BY <2>1, Parts
  <2>3. /\ after \in Seq(S) /\ Len(after) = Len(s) - i
        /\ \A k \in 1..(Len(s) - i) : after[k] = s[i + k]
    BY <2>1, Parts, ZenonT(30)
  <2> QED  BY <2>1, <2>2, <2>3
<1>2. K = before \o after  BY DEF RemoveAt
<1> HIDE DEF K, before, after
<1>3. K \in Seq(S) /\ Len(K) = Len(s) - 1
  <2>1. K \in Seq(S) /\ Len(K) = Len(before) + Len(after)  BY <1>1, <1>2, ConcatProperties
  <2> QED  BY <1>1, <2>1
<1>4. ASSUME NEW k \in 1..Len(K) PROVE K[k] = s[IF k < i THEN k ELSE k + 1]
  <2>1. K[k] = IF k <= i - 1 THEN before[k] ELSE after[k - (i - 1)]
    <3>1. k \in 1..(Len(before) + Len(after))  BY <1>1, <1>3
    <3> QED  BY <1>1, <1>2, <3>1, ConcatProperties
  <2>2. k \in Nat /\ 1 <= k /\ k <= Len(s) - 1  BY <1>1, <1>3
  <2>3. CASE k < i  BY <1>1, <2>1, <2>2, <2>3
  <2>4. CASE ~(k < i)
    <3>1. k - (i - 1) \in 1..(Len(s) - i) /\ i + (k - (i - 1)) = k + 1
      BY <1>1, <2>2, <2>4
    <3>2. after[k - (i - 1)] = s[k + 1]  BY <1>1, <3>1
    <3> QED  BY <1>1, <2>1, <2>2, <2>4, <3>2
  <2> QED  BY <2>3, <2>4
<1> QED  BY <1>3, <1>4 DEF K

\* K has the elements of s at positions other than i, each position once.
Without(K, s, i) ==
    /\ \A k \in 1..Len(K) : \E p \in (1..Len(s)) \ {i} : K[k] = s[p]
    /\ \A k, l \in 1..Len(K) : k # l =>
          \E p, q \in (1..Len(s)) \ {i} : p # q /\ K[k] = s[p] /\ K[l] = s[q]
    /\ \A p \in (1..Len(s)) \ {i} : \E k \in 1..Len(K) : K[k] = s[p]

LEMMA RemovedSet ==
    ASSUME NEW S, NEW s \in Seq(S), NEW i \in 1..Len(s)
    PROVE  Without(RemoveAt(s, i), s, i)
<1> DEFINE K == RemoveAt(s, i)
<1>1. /\ K \in Seq(S) /\ Len(K) = Len(s) - 1
      /\ \A k \in 1..Len(K) : K[k] = s[IF k < i THEN k ELSE k + 1]
  BY Removed
<1> HIDE DEF K
<1>2. Len(s) \in Nat /\ i \in Nat /\ 1 <= i /\ i <= Len(s)  OBVIOUS
<1> DEFINE from(k) == IF k < i THEN k ELSE k + 1
<1>3. \A k \in 1..Len(K) : from(k) \in (1..Len(s)) \ {i}  BY <1>1, <1>2
<1>4. \A k, l \in 1..Len(K) : k # l => from(k) # from(l)  BY <1>1, <1>2
<1>5. ASSUME NEW p \in (1..Len(s)) \ {i} PROVE \E k \in 1..Len(K) : from(k) = p
  <2>1. CASE p < i
    <3>1. p \in 1..Len(K) /\ from(p) = p  BY <1>1, <1>2, <2>1
    <3> QED  BY <3>1
  <2>2. CASE p > i
    <3>1. p - 1 \in 1..Len(K) /\ from(p - 1) = p  BY <1>1, <1>2, <2>2
    <3> QED  BY <3>1
  <2>3. p < i \/ p > i  BY <1>2
  <2> QED  BY <2>1, <2>2, <2>3
<1>6. \A k \in 1..Len(K) : K[k] = s[from(k)]  BY <1>1
<1> HIDE DEF from
<1>7. \A k \in 1..Len(K) : \E p \in (1..Len(s)) \ {i} : K[k] = s[p]  BY <1>3, <1>6
<1>8. ASSUME NEW k \in 1..Len(K), NEW l \in 1..Len(K), k # l
      PROVE  \E p, q \in (1..Len(s)) \ {i} : p # q /\ K[k] = s[p] /\ K[l] = s[q]
  BY <1>3, <1>4, <1>6, <1>8
<1>9. \A p \in (1..Len(s)) \ {i} : \E k \in 1..Len(K) : K[k] = s[p]  BY <1>5, <1>6
<1>10. Without(K, s, i)  BY <1>7, <1>8, <1>9 DEF Without
<1> QED  BY <1>10 DEF K

\* close_trade on book b, at index i: book c, with the trade u in the closed list.
ClosesTo(b, i, u, c, d) ==
    /\ c.active = RemoveAt(b.active, i) /\ c.closed = Append(b.closed, u)
    /\ SameTrade(u, b.active[i]) /\ u.partial = b.active[i].partial
    /\ u.status \in {"CLOSED", "STALE", "EXPIRED"}
    /\ u.status = "CLOSED" => AllRecent(b, d)

\* From b to c, t leaves the active list and comes as u into the closed one.
Moves(b, t, u, c, d) ==
    /\ t \in ActiveOf(b) /\ ActiveOf(c) \subseteq ActiveOf(b)
    /\ ActiveOf(b) \subseteq ActiveOf(c) \cup {t}
    /\ ClosedOf(c) = ClosedOf(b) \cup {u}
    /\ Worth(PartialOn(d), c.active) = Worth(PartialOn(d), b.active) - PartialOn(d)[u]
    /\ Worth(PnlOn(d), c.closed) = Worth(PnlOn(d), b.closed) + PnlOn(d)[u]
    /\ Worth(LostOn(d), c.closed) = Worth(LostOn(d), b.closed) + LostOn(d)[u]

LEMMA BookClose ==
    ASSUME NEW d \in Int, NEW b, NEW c \in Book, NEW i \in 1..Len(b.active),
           NEW u \in Trade, BookOK(b, d), ClosesTo(b, i, u, c, d)
    PROVE  BookOK(c, d) /\ Moves(b, b.active[i], u, c, d)
<1> DEFINE A == b.active
           D == c.active
           B == b.closed
           E == c.closed
           t == A[i]
           n == Len(B) + 1
<1>1. /\ A \in Seq(Trade) /\ B \in Seq(Trade) /\ Len(A) \in Nat /\ Len(B) \in Nat
      /\ ActiveOf(b) \subseteq Trade /\ ClosedOf(b) \subseteq Trade
  BY BookParts DEF BookOK
<1>0. /\ SameTrade(u, t) /\ u.partial = t.partial
      /\ u.status \in {"CLOSED", "STALE", "EXPIRED"}
      /\ u.status = "CLOSED" => AllRecent(b, d)
  BY DEF ClosesTo
<1>2. D = RemoveAt(A, i) /\ E = Append(B, u) /\ t \in Trade /\ i \in 1..Len(A)
  BY <1>1 DEF ClosesTo
<1>3. /\ E \in Seq(Trade) /\ Len(E) = n /\ E[n] = u /\ n \in Nat
      /\ \A j \in 1..Len(B) : E[j] = B[j]
      /\ \A j \in 1..n : j = n \/ j \in 1..Len(B)
      /\ n \in 1..n /\ 1..Len(B) \subseteq 1..n
  BY <1>1, <1>2
<1>4. D \in Seq(Trade) /\ Len(D) = Len(A) - 1
  <2> HIDE DEF A, D
  <2>1. RemoveAt(A, i) \in Seq(Trade) /\ Len(RemoveAt(A, i)) = Len(A) - 1
    BY <1>1, <1>2, Removed
  <2> QED  BY <1>2, <2>1
<1>5. /\ \A k \in 1..Len(D) : \E p \in (1..Len(A)) \ {i} : D[k] = A[p]
      /\ \A k, l \in 1..Len(D) : k # l =>
            \E p, q \in (1..Len(A)) \ {i} : p # q /\ D[k] = A[p] /\ D[l] = A[q]
      /\ \A p \in (1..Len(A)) \ {i} : \E k \in 1..Len(D) : D[k] = A[p]
  <2>1. Without(RemoveAt(A, i), A, i)
    <3> HIDE DEF A
    <3> QED  BY <1>1, <1>2, RemovedSet
  <2>2. RemoveAt(A, i) = D  BY <1>2
  <2>3. Without(D, A, i)  BY <2>1, <2>2
  <2> QED  BY <2>3 DEF Without
<1>7. /\ \A k, l \in 1..Len(A) : k # l => ~Clash(A[k], A[l])
      /\ \A k, l \in 1..Len(B) : k # l => ~Clash(B[k], B[l])
      /\ \A k \in 1..Len(A), l \in 1..Len(B) : ~Clash(A[k], B[l])
  BY DEF BookOK, NoClash
<1>8. t.status = "OPEN"  BY DEF BookOK, ActiveOf
<1> HIDE DEF A, B, D, E, t, n
<1>9. ActiveOf(b) = {A[k] : k \in 1..Len(A)} /\ ActiveOf(c) = {D[k] : k \in 1..Len(D)}
  BY DEF ActiveOf, A, D
<1>10. ActiveOf(c) \subseteq ActiveOf(b)
  <2>1. \A k \in 1..Len(D) : \E p \in 1..Len(A) : D[k] = A[p]  BY <1>5
  <2> QED  BY <1>9, <2>1
<1>11. t \in ActiveOf(b)  BY <1>9 DEF t, A
<1>12. ActiveOf(b) \subseteq ActiveOf(c) \cup {t}
  <2>1. ASSUME NEW k \in 1..Len(A) PROVE A[k] \in ActiveOf(c) \cup {t}
    <3>1. CASE k = i  BY <3>1 DEF t
    <3>2. CASE k # i
      <4>1. PICK l \in 1..Len(D) : D[l] = A[k]  BY <1>5, <3>2
      <4> QED  BY <1>9, <4>1
    <3> QED  BY <3>1, <3>2
  <2> QED  BY <1>9, <2>1
<1>13. ClosedOf(c) = ClosedOf(b) \cup {u}
  <2>1. ClosedOf(b) = {B[k] : k \in 1..Len(B)} /\ ClosedOf(c) = {E[k] : k \in 1..n}
    BY <1>3 DEF ClosedOf, B, E
  <2> QED  BY <1>3, <2>1
<1>14. \A v : Clash(v, u) => Clash(v, t)
  BY <1>0, <1>8 DEF Clash, SameTrade, GaveUp
<1>15. \A v, w : Clash(v, w) => Clash(w, v)  BY DEF Clash
<1>16. NoClash(c)
  <2>1. ASSUME NEW k \in 1..Len(D), NEW l \in 1..Len(D), k # l PROVE ~Clash(D[k], D[l])
    <3>1. PICK p, q \in (1..Len(A)) \ {i} : p # q /\ D[k] = A[p] /\ D[l] = A[q]
      BY <1>5, <2>1
    <3> QED  BY <1>7, <3>1
  <2>2. ASSUME NEW k \in 1..Len(A), k # i PROVE ~Clash(A[k], u)
    <3>1. ~Clash(A[k], t)  BY <1>2, <1>7, <2>2 DEF t
    <3> QED  BY <1>14, <3>1
  <2>3. ASSUME NEW k \in 1..Len(D), NEW l \in 1..n PROVE ~Clash(D[k], E[l])
    <3>1. PICK p \in (1..Len(A)) \ {i} : D[k] = A[p]  BY <1>5
    <3>2. CASE l = n  BY <1>3, <2>2, <3>1, <3>2
    <3>3. CASE l \in 1..Len(B)  BY <1>3, <1>7, <3>1, <3>3
    <3> QED  BY <1>3, <3>2, <3>3
  <2>4. ASSUME NEW k \in 1..Len(B) PROVE ~Clash(B[k], u) /\ ~Clash(u, B[k])
    <3>1. ~Clash(t, B[k])  BY <1>2, <1>7 DEF t
    <3> QED  BY <1>14, <1>15, <3>1
  <2>5. ASSUME NEW k \in 1..n, NEW l \in 1..n, k # l PROVE ~Clash(E[k], E[l])
    <3>1. CASE k = n
      <4>1. l \in 1..Len(B)  BY <1>3, <2>5, <3>1
      <4> QED  BY <1>3, <2>4, <3>1, <4>1
    <3>2. CASE l = n
      <4>1. k \in 1..Len(B)  BY <1>3, <2>5, <3>2
      <4> QED  BY <1>3, <2>4, <3>2, <4>1
    <3>3. CASE k # n /\ l # n
      <4>1. k \in 1..Len(B) /\ l \in 1..Len(B)  BY <1>3, <3>3
      <4> QED  BY <1>3, <1>7, <2>5, <4>1
    <3> QED  BY <3>1, <3>2, <3>3
  <2> QED  BY <1>3, <2>1, <2>3, <2>5 DEF NoClash, D, E
<1>17. Count(c) = Count(b)
  <2>1. Len(c.active) = Len(b.active) - 1 /\ Len(c.closed) = Len(b.closed) + 1
    BY <1>3, <1>4 DEF A, B, D, E, n
  <2>2. Len(b.active) \in Nat /\ Len(b.closed) \in Nat  BY <1>1 DEF A, B
  <2>3. Count(b) = Len(b.active) + Len(b.closed) /\ Count(c) = Len(c.active) + Len(c.closed)
    BY DEF Count
  <2> DEFINE x == Len(b.active)
             y == Len(b.closed)
             z == Len(c.active)
             w == Len(c.closed)
  <2> HIDE DEF x, y, z, w
  <2>4. Count(b) = x + y /\ Count(c) = z + w /\ x \in Nat /\ y \in Nat
    BY <2>2, <2>3 DEF x, y, z, w
  <2>5. z = x - 1 /\ w = y + 1  BY <2>1 DEF x, y, z, w
  <2> QED  BY <2>4, <2>5
<1>18. BookOK(c, d)
  <2>1. Lines(c) \subseteq Lines(b) \cup {u} /\ t \in Lines(b)
    BY <1>10, <1>11, <1>13 DEF Lines
  <2>2. u.day = t.day /\ u.num = t.num /\ t.status \notin GaveUp /\ u.status # "OPEN"
    BY <1>0, <1>8 DEF SameTrade, GaveUp
  <2>3. \A v \in Lines(c) : v.day <= d  BY <2>1, <2>2 DEF BookOK
  <2>4. \A v \in Lines(c) : v.day = d /\ v.status \notin GaveUp => v.num <= Count(c)
    <3>1. \A v \in Lines(b) : v.day = d /\ v.status \notin GaveUp => v.num <= Count(b)
      BY DEF BookOK
    <3> QED  BY <1>17, <2>1, <2>2, <3>1
  <2>5. (\E v \in Lines(c) : v.day = d /\ v.status = "CLOSED") => AllRecent(c, d)
    <3>1. AllRecent(b, d) => AllRecent(c, d)
      BY <2>1, <2>2 DEF AllRecent, RecentOn
    <3>2. (\E v \in Lines(b) : v.day = d /\ v.status = "CLOSED") => AllRecent(b, d)
      BY DEF BookOK
    <3> QED  BY <1>0, <2>1, <3>1, <3>2
  <2>6. \A v \in ActiveOf(c) : v.status = "OPEN" /\ v.pnl = 0  BY <1>10 DEF BookOK
  <2>7. \A v \in ClosedOf(c) : v.status # "OPEN"  BY <1>13, <2>2 DEF BookOK
  <2> QED  BY <1>16, <2>3, <2>4, <2>5, <2>6, <2>7 DEF BookOK
<1>19. /\ PartialOn(d) \in [Trade -> Int] /\ PnlOn(d) \in [Trade -> Int]
       /\ LostOn(d) \in [Trade -> Int]
  BY Weights
<1>20. Worth(PartialOn(d), D) = Worth(PartialOn(d), A) - PartialOn(d)[u]
  <2>1. i \in DOMAIN A  BY <1>1 DEF A
  <2>2. Worth(PartialOn(d), D) = Worth(PartialOn(d), A) - PartialOn(d)[A[i]]
    BY <1>1, <1>2, <1>19, <2>1, WorthWithout
  <2>3. PartialOn(d)[A[i]] = PartialOn(d)[u]
    BY <1>0, <1>2 DEF PartialOn, SameTrade, t  <2> QED  BY <2>2, <2>3
<1>21. Worth(PnlOn(d), E) = Worth(PnlOn(d), B) + PnlOn(d)[u]
  BY <1>1, <1>2, <1>19, WorthOfAppend
<1>22. Worth(LostOn(d), E) = Worth(LostOn(d), B) + LostOn(d)[u]
  BY <1>1, <1>2, <1>19, WorthOfAppend
<1> QED  BY <1>10, <1>11, <1>12, <1>13, <1>18, <1>20, <1>21, <1>22 DEF Moves, A, B, D, E, t

\* update_trade on book b, at index i, on day d: book c, with the trade u.
PartialTo(b, i, u, c, d) ==
    /\ c.active = [b.active EXCEPT ![i] = u] /\ c.closed = b.closed
    /\ SameTrade(u, b.active[i]) /\ u.partial = b.active[i].partial + 1
    /\ u.status = "OPEN" /\ u.pnl = 0 /\ u.day = d

LEMMA BookPartial ==
    ASSUME NEW d \in Int, NEW b, NEW c \in Book, NEW i \in 1..Len(b.active),
           NEW u \in Trade, BookOK(b, d), PartialTo(b, i, u, c, d)
    PROVE  /\ BookOK(c, d)
           /\ b.active[i] \in ActiveOf(b) /\ u \in ActiveOf(c)
           /\ ActiveOf(c) \subseteq ActiveOf(b) \cup {u}
           /\ ActiveOf(b) \subseteq ActiveOf(c) \cup {b.active[i]}
           /\ ClosedOf(c) = ClosedOf(b)
           /\ Result(c, d) = Result(b, d) + 1 /\ Value(c, d) = Value(b, d) + 1
<1> DEFINE A == b.active
           D == c.active
           B == b.closed
           t == A[i]
<1>1. /\ A \in Seq(Trade) /\ B \in Seq(Trade) /\ Len(A) \in Nat /\ Len(B) \in Nat
      /\ ActiveOf(b) \subseteq Trade /\ ClosedOf(b) \subseteq Trade
  BY BookParts DEF BookOK
<1>2. D = [A EXCEPT ![i] = u] /\ c.closed = B /\ t \in Trade /\ i \in 1..Len(A)
  BY <1>1 DEF PartialTo
<1>3. /\ D \in Seq(Trade) /\ Len(D) = Len(A)
      /\ \A k \in 1..Len(A) : D[k] = IF k = i THEN u ELSE A[k]
  BY <1>1, <1>2
<1>4. /\ \A k, l \in 1..Len(A) : k # l => ~Clash(A[k], A[l])
      /\ \A k, l \in 1..Len(B) : k # l => ~Clash(B[k], B[l])
      /\ \A k \in 1..Len(A), l \in 1..Len(B) : ~Clash(A[k], B[l])
  BY DEF BookOK, NoClash
<1>5. t.status = "OPEN" /\ t.day = d  BY <1>2 DEF BookOK, ActiveOf, SameTrade, PartialTo
<1>0. /\ SameTrade(u, t) /\ u.partial = t.partial + 1
      /\ u.status = "OPEN" /\ u.pnl = 0 /\ u.day = d
  BY DEF PartialTo
<1> HIDE DEF A, B, D, t
<1>6. ActiveOf(b) = {A[k] : k \in 1..Len(A)} /\ ActiveOf(c) = {D[k] : k \in 1..Len(A)}
  BY <1>3 DEF ActiveOf, A, D
<1>7. t \in ActiveOf(b) /\ u \in ActiveOf(c)  BY <1>2, <1>3, <1>6 DEF t
<1>8. ActiveOf(c) \subseteq ActiveOf(b) \cup {u}  BY <1>3, <1>6
<1>9. ActiveOf(b) \subseteq ActiveOf(c) \cup {t}
  <2>1. ASSUME NEW k \in 1..Len(A) PROVE A[k] \in ActiveOf(c) \cup {t}
    <3>1. CASE k = i  BY <3>1 DEF t
    <3>2. CASE k # i
      <4>1. D[k] = A[k]  BY <1>3, <3>2
      <4> QED  BY <1>6, <4>1
    <3> QED  BY <3>1, <3>2
  <2> QED  BY <1>6, <2>1
<1>10. ClosedOf(c) = ClosedOf(b)  BY <1>2 DEF ClosedOf, B
<1>11. /\ \A v : Clash(v, u) => Clash(v, t)
       /\ \A v : Clash(u, v) => Clash(t, v)
  BY <1>0, <1>5 DEF Clash, SameTrade, GaveUp
<1>12. NoClash(c)
  <2>1. ASSUME NEW k \in 1..Len(A), NEW l \in 1..Len(A), k # l PROVE ~Clash(D[k], D[l])
    <3>1. CASE k = i
      <4>1. D[k] = u /\ D[l] = A[l] /\ ~Clash(t, A[l])  BY <1>3, <1>4, <2>1, <3>1 DEF t
      <4> QED  BY <1>11, <4>1
    <3>2. CASE l = i
      <4>1. D[l] = u /\ D[k] = A[k] /\ ~Clash(A[k], t)  BY <1>3, <1>4, <2>1, <3>2 DEF t
      <4> QED  BY <1>11, <4>1
    <3>3. CASE k # i /\ l # i  BY <1>3, <1>4, <2>1, <3>3
    <3> QED  BY <3>1, <3>2, <3>3
  <2>2. ASSUME NEW k \in 1..Len(A), NEW l \in 1..Len(B) PROVE ~Clash(D[k], B[l])
    <3>1. CASE k = i
      <4>1. D[k] = u /\ ~Clash(t, B[l])  BY <1>3, <1>4, <3>1 DEF t
      <4> QED  BY <1>11, <4>1
    <3>2. CASE k # i  BY <1>3, <1>4, <3>2
    <3> QED  BY <3>1, <3>2
  <2> QED  BY <1>2, <1>3, <1>4, <2>1, <2>2 DEF NoClash, D, B
<1>13. Count(c) = Count(b)
  <2>1. Len(c.active) = Len(b.active) /\ Len(c.closed) = Len(b.closed)
    BY <1>2, <1>3 DEF A, B, D
  <2> QED  BY <2>1 DEF Count
<1>14. BookOK(c, d)
  <2>1. Lines(c) \subseteq Lines(b) \cup {u} /\ t \in Lines(b)
    BY <1>7, <1>8, <1>10 DEF Lines
  <2>2. u.day = t.day /\ u.num = t.num /\ t.status \notin GaveUp
    BY <1>0, <1>5 DEF SameTrade, GaveUp
  <2>3. \A v \in Lines(c) : v.day <= d
    <3>1. \A v \in Lines(b) : v.day <= d  BY DEF BookOK
    <3> QED  BY <2>1, <2>2, <3>1
  <2>4. \A v \in Lines(c) : v.day = d /\ v.status \notin GaveUp => v.num <= Count(c)
    <3>1. \A v \in Lines(b) : v.day = d /\ v.status \notin GaveUp => v.num <= Count(b)
      BY DEF BookOK
    <3> QED  BY <1>13, <2>1, <2>2, <3>1
  <2>5. (\E v \in Lines(c) : v.day = d /\ v.status = "CLOSED") => AllRecent(c, d)
    <3>1. AllRecent(b, d) => AllRecent(c, d)
      BY <2>1, <2>2 DEF AllRecent, RecentOn
    <3>2. (\E v \in Lines(b) : v.day = d /\ v.status = "CLOSED") => AllRecent(b, d)
      BY DEF BookOK
    <3> QED  BY <1>0, <2>1, <3>1, <3>2
  <2>6. \A v \in ActiveOf(c) : v.status = "OPEN" /\ v.pnl = 0  BY <1>0, <1>8 DEF BookOK
  <2>7. \A v \in ClosedOf(c) : v.status # "OPEN"  BY <1>10 DEF BookOK
  <2> QED  BY <1>12, <2>3, <2>4, <2>5, <2>6, <2>7 DEF BookOK
<1>15. Worth(PartialOn(d), D) = Worth(PartialOn(d), A) + 1
  <2>1. i \in DOMAIN A /\ PartialOn(d) \in [Trade -> Int]  BY <1>1, <1>2, Weights
  <2>2. Worth(PartialOn(d), D)
          = Worth(PartialOn(d), A) - PartialOn(d)[A[i]] + PartialOn(d)[u]
    <3>1. A \in Seq(Trade) /\ D \in Seq(Trade) /\ Len(D) = Len(A)  BY <1>1, <1>3
    <3>2. \A k \in 1..Len(A) : D[k] = IF k = i THEN u ELSE A[k]  BY <1>3
    <3> HIDE DEF A, D
    <3> QED  BY <2>1, <3>1, <3>2, WorthWith
  <2>3. PartialOn(d)[u] = PartialOn(d)[A[i]] + 1 /\ PartialOn(d)[A[i]] \in Int
    BY <1>0, <1>2, <1>5 DEF PartialOn, t, Trade
  <2>4. Worth(PartialOn(d), A) \in Int  BY <1>1, <2>1, WorthIsInt
  <2> QED  BY <1>2, <2>2, <2>3, <2>4
<1>16. Result(c, d) = Result(b, d) + 1 /\ Value(c, d) = Value(b, d) + 1
  <2> DEFINE x == Worth(PnlOn(d), b.closed)
             y == Worth(PartialOn(d), b.active)
             z == Worth(LostOn(d), b.closed)
             w == Worth(PartialOn(d), c.active)
  <2>1. x \in Int /\ y \in Int /\ z \in Int  BY ValuesAreInt DEF BookOK
  <2>2. w = y + 1  BY <1>15 DEF A, D
  <2>3. Result(b, d) = x + y /\ Value(b, d) = x + y + z  BY DEF Result, Value
  <2>4. Result(c, d) = x + w /\ Value(c, d) = x + w + z  BY <1>2 DEF Result, Value, B
  <2> HIDE DEF x, y, z, w
  <2> QED  BY <2>1, <2>2, <2>3, <2>4
<1> QED  BY <1>7, <1>8, <1>9, <1>10, <1>14, <1>16 DEF A, t

\* clear_day_data on book b: book c, with the active trades archived as X.
ClearsTo(b, X, c) ==
    /\ c.active = <<>> /\ c.closed = b.closed \o X /\ Len(X) = Len(b.active)
    /\ \A k \in 1..Len(X) : /\ SameTrade(X[k], b.active[k])
                            /\ X[k].partial = b.active[k].partial
                            /\ X[k].pnl = 0 /\ X[k].status = "EXPIRED"

LEMMA BookClear ==
    ASSUME NEW d \in Int, NEW b, NEW c \in Book, NEW X \in Seq(Trade), BookOK(b, d),
           ClearsTo(b, X, c)
    PROVE  /\ BookOK(c, d)
           /\ ClosedOf(b) \subseteq ClosedOf(c)
           /\ \A v \in ActiveOf(b) : \E w \in ClosedOf(c) : SameTrade(w, v)
           /\ Value(c, d) = Value(b, d)
<1> DEFINE A == b.active
           B == b.closed
           E == c.closed
<1>1. /\ A \in Seq(Trade) /\ B \in Seq(Trade) /\ Len(A) \in Nat /\ Len(B) \in Nat
      /\ ActiveOf(b) \subseteq Trade /\ ClosedOf(b) \subseteq Trade
      /\ Len(X) = Len(A) /\ c.active = <<>>
  BY BookParts DEF BookOK, ClearsTo
<1>2. /\ E \in Seq(Trade) /\ Len(E) = Len(B) + Len(X)
      /\ \A k \in 1..(Len(B) + Len(X)) : E[k] = IF k <= Len(B) THEN B[k] ELSE X[k - Len(B)]
  <2> HIDE DEF A, B
  <2>1. E = B \o X  BY DEF B, ClearsTo
  <2> HIDE DEF E
  <2>2. /\ B \o X \in Seq(Trade) /\ Len(B \o X) = Len(B) + Len(X)
        /\ \A k \in 1..(Len(B) + Len(X)) :
              (B \o X)[k] = IF k <= Len(B) THEN B[k] ELSE X[k - Len(B)]
    <3>1. B \in Seq(Trade)  BY <1>1
    <3>2. B \o X \in Seq(Trade) /\ Len(B \o X) = Len(B) + Len(X)
      BY <3>1, ConcatProperties
    <3>3. \A k \in 1..(Len(B) + Len(X)) :
             (B \o X)[k] = IF k <= Len(B) THEN B[k] ELSE X[k - Len(B)]
      BY <3>1, ConcatProperties
    <3> QED  BY <3>2, <3>3
  <2> QED  BY <2>1, <2>2
<1>3. \A k \in 1..Len(X) : /\ SameTrade(X[k], A[k]) /\ X[k].partial = A[k].partial
                           /\ X[k].pnl = 0 /\ X[k].status = "EXPIRED"
  BY DEF ClearsTo
<1> HIDE DEF A, B, E
<1>4. \A k \in 1..Len(B) : k \in 1..Len(E) /\ E[k] = B[k]
  <2>1. \A k \in 1..Len(B) : k \in 1..(Len(B) + Len(X)) /\ k <= Len(B)  BY <1>1
  <2> QED  BY <1>2, <2>1
<1>5. \A k \in 1..Len(X) : Len(B) + k \in 1..Len(E) /\ E[Len(B) + k] = X[k]
  <2> SUFFICES ASSUME NEW k \in 1..Len(X)
               PROVE  Len(B) + k \in 1..Len(E) /\ E[Len(B) + k] = X[k]
    OBVIOUS
  <2>1. /\ Len(B) + k \in 1..(Len(B) + Len(X)) /\ ~(Len(B) + k <= Len(B))
        /\ (Len(B) + k) - Len(B) = k
    BY <1>1
  <2> QED  BY <1>2, <2>1
<1>6. \A k \in 1..Len(E) : k \in 1..Len(B) \/ \E l \in 1..Len(X) : E[k] = X[l]
  <2> SUFFICES ASSUME NEW k \in 1..Len(E), ~(k <= Len(B))
               PROVE  \E l \in 1..Len(X) : E[k] = X[l]
    BY <1>1
  <2>1. k \in 1..(Len(B) + Len(X)) /\ k - Len(B) \in 1..Len(X)  BY <1>1, <1>2
  <2> QED  BY <1>2, <2>1
<1>7. ClosedOf(b) = {B[k] : k \in 1..Len(B)} /\ ClosedOf(c) = {E[k] : k \in 1..Len(E)}
      /\ ActiveOf(b) = {A[k] : k \in 1..Len(A)}
  BY DEF ClosedOf, ActiveOf, A, B, E
<1>8. ClosedOf(b) \subseteq ClosedOf(c)  BY <1>4, <1>7
<1>9. \A v \in ActiveOf(b) : \E w \in ClosedOf(c) : SameTrade(w, v)
  <2> SUFFICES ASSUME NEW k \in 1..Len(A) PROVE \E w \in ClosedOf(c) : SameTrade(w, A[k])
    BY <1>7
  <2>1. k \in 1..Len(X)  BY <1>1
  <2>2. X[k] \in ClosedOf(c)  BY <1>5, <1>7, <2>1
  <2> QED  BY <1>3, <2>1, <2>2
<1>10. \A v \in ClosedOf(c) :
          \/ v \in ClosedOf(b)
          \/ v.status = "EXPIRED" /\ \E w \in ActiveOf(b) : SameTrade(v, w)
  <2> SUFFICES ASSUME NEW k \in 1..Len(E)
               PROVE  \/ E[k] \in ClosedOf(b)
                      \/ E[k].status = "EXPIRED" /\ \E w \in ActiveOf(b) : SameTrade(E[k], w)
    BY <1>7
  <2>1. CASE k \in 1..Len(B)  BY <1>4, <1>7, <2>1
  <2>2. CASE \E l \in 1..Len(X) : E[k] = X[l]
    <3>1. PICK l \in 1..Len(X) : E[k] = X[l]  BY <2>2
    <3>2. A[l] \in ActiveOf(b)  BY <1>1, <1>7
    <3> QED  BY <1>3, <3>1, <3>2
  <2> QED  BY <1>6, <2>1, <2>2
<1>11. ActiveOf(c) = {} /\ Len(c.active) = 0  BY <1>1 DEF ActiveOf
<1>12. NoClash(c)
  <2>1. \A k, l \in 1..Len(B) : k # l => ~Clash(B[k], B[l])  BY DEF BookOK, NoClash, B
  <2>2. ASSUME NEW k \in 1..Len(E), NEW l \in 1..Len(E), k # l PROVE ~Clash(E[k], E[l])
    <3>1. ASSUME NEW m \in 1..Len(E), \E n \in 1..Len(X) : E[m] = X[n]
          PROVE  E[m].status \in GaveUp
      BY <1>3, <3>1 DEF GaveUp
    <3>2. CASE k \in 1..Len(B) /\ l \in 1..Len(B)  BY <1>4, <2>1, <2>2, <3>2
    <3>3. CASE k \notin 1..Len(B) \/ l \notin 1..Len(B)  BY <1>6, <3>1, <3>3 DEF Clash
    <3> QED  BY <3>2, <3>3
  <2>3. 1..Len(c.active) = {}  BY <1>11
  <2> QED  BY <2>2, <2>3 DEF NoClash, E
<1>13. Count(c) = Count(b)
  <2> DEFINE x == Len(b.active)
             y == Len(b.closed)
             w == Len(c.closed)
             z == Len(c.active)
  <2>1. w = y + x /\ z = 0 /\ x \in Nat /\ y \in Nat  BY <1>1, <1>2, <1>11 DEF A, B, E
  <2>2. Count(b) = x + y /\ Count(c) = z + w  BY DEF Count
  <2> HIDE DEF x, y, z, w
  <2> QED  BY <2>1, <2>2
<1>14. BookOK(c, d)
  <2>1. \A v \in Lines(c) : \/ v \in Lines(b)
                            \/ v.status = "EXPIRED" /\ \E w \in Lines(b) : SameTrade(v, w)
    BY <1>10, <1>11 DEF Lines
  <2>2. \A v \in Lines(c) : v.day <= d
    <3>1. \A v \in Lines(b) : v.day <= d  BY DEF BookOK
    <3> QED  BY <2>1, <3>1 DEF SameTrade
  <2>3. \A v \in Lines(c) : v.day = d /\ v.status \notin GaveUp => v.num <= Count(c)
    <3>1. \A v \in Lines(b) : v.day = d /\ v.status \notin GaveUp => v.num <= Count(b)
      BY DEF BookOK
    <3> QED  BY <1>13, <2>1, <3>1 DEF GaveUp
  <2>4. (\E v \in Lines(c) : v.day = d /\ v.status = "CLOSED") => AllRecent(c, d)
    <3>1. AllRecent(b, d) => AllRecent(c, d)
      BY <2>1 DEF AllRecent, RecentOn, SameTrade
    <3>2. (\E v \in Lines(b) : v.day = d /\ v.status = "CLOSED") => AllRecent(b, d)
      BY DEF BookOK
    <3> QED  BY <2>1, <3>1, <3>2
  <2>5. \A v \in ClosedOf(c) : v.status # "OPEN"  BY <1>10 DEF BookOK
  <2> QED  BY <1>11, <1>12, <2>2, <2>3, <2>4, <2>5 DEF BookOK
<1>15. Value(c, d) = Value(b, d)
  <2> DEFINE p == PnlOn(d)
             q == PartialOn(d)
             r == LostOn(d)
  <2>1. p \in [Trade -> Int] /\ q \in [Trade -> Int] /\ r \in [Trade -> Int]  BY Weights
  <2>2. \A k \in 1..Len(X) : X[k] \in Trade /\ A[k] \in Trade  BY <1>1
  <2>3. \A k \in 1..Len(X) : p[X[k]] = 0  BY <1>3, <2>2 DEF PnlOn
  <2>4. \A k \in 1..Len(X) : r[X[k]] = q[A[k]]
    BY <1>3, <2>2 DEF LostOn, PartialOn, SameTrade, GaveUp
  <2> HIDE DEF p, q, r
  <2>5. Worth(p, X) = 0  BY <2>1, <2>3, WorthOfNothing
  <2>6. Worth(r, X) = Worth(q, A)
    <3>1. DOMAIN A = 1..Len(X) /\ DOMAIN X = 1..Len(X)  BY <1>1
    <3>2. Weigh(r, X) = Weigh(q, A)  BY <2>4, <3>1 DEF Weigh
    <3> QED  BY <3>2 DEF Worth
  <2>7. Worth(p, B \o X) = Worth(p, B) + Worth(p, X)  BY <1>1, <2>1, WorthOfConcat
  <2>8. Worth(r, B \o X) = Worth(r, B) + Worth(r, X)  BY <1>1, <2>1, WorthOfConcat
  <2>9. Worth(q, c.active) = 0  BY <1>1, WorthOfEmpty
  <2>10. Worth(p, B) \in Int /\ Worth(r, B) \in Int /\ Worth(q, A) \in Int
    <3>1. Worth(p, B) \in Int  BY <1>1, <2>1, WorthIsInt
    <3>2. Worth(r, B) \in Int  BY <1>1, <2>1, WorthIsInt
    <3>3. Worth(q, A) \in Int  BY <1>1, <2>1, WorthIsInt
    <3> QED  BY <3>1, <3>2, <3>3
  <2>11. Value(b, d) = Worth(p, B) + Worth(q, A) + Worth(r, B)
    BY DEF Value, Result, p, q, r, A, B
  <2>12. Value(c, d) = Worth(p, B \o X) + Worth(q, c.active) + Worth(r, B \o X)
    BY DEF Value, Result, p, q, r, B, ClearsTo
  <2> QED  BY <2>5, <2>6, <2>7, <2>8, <2>9, <2>10, <2>11, <2>12
<1> QED  BY <1>8, <1>9, <1>14, <1>15

LEMMA RecentIs ==
    ASSUME NEW t
    PROVE  Recent(t) <=> RecentOn(t, day)
BY DEF Recent, RecentOn

\* trim_old_closed_trades, on a book without active trades.
LEMMA BookTrim ==
    ASSUME NEW b, NEW c \in Book, day \in Int, BookOK(b, day), b.active = <<>>,
           c.active = <<>>, c.closed = OnlyRecent(b.closed)
    PROVE  /\ BookOK(c, day) /\ AllRecent(c, day)
           /\ \A t \in ClosedOf(b) : RecentOn(t, day) => t \in ClosedOf(c)
           /\ Worth(PnlOn(day), c.closed) = Worth(PnlOn(day), b.closed)
           /\ Worth(LostOn(day), c.closed) = Worth(LostOn(day), b.closed)
<1> DEFINE B == b.closed
           E == c.closed
<1>1. /\ B \in Seq(Trade) /\ E \in Seq(Trade) /\ Len(B) \in Nat /\ Len(E) \in Nat
      /\ ClosedOf(b) \subseteq Trade
  BY BookParts DEF BookOK
<1>2. E = OnlyRecent(B)  OBVIOUS
<1>3. KeptOf(B, Len(B), E)
  <2> HIDE DEF B, E
  <2>1. KeptOf(B, Len(B), OnlyRecent(B))  BY <1>1, OnlyRecentKeeps
  <2> QED  BY <1>2, <2>1
<1>4. ActiveOf(b) = {} /\ ActiveOf(c) = {} /\ Len(b.active) = 0 /\ Len(c.active) = 0
  BY DEF ActiveOf
<1> HIDE DEF B, E
<1>5. DOMAIN E = 1..Len(E)  BY <1>1
<1>6. /\ \A p \in 1..Len(E) : Recent(E[p]) /\ \E q \in 1..Len(B) : E[p] = B[q]
      /\ \A p, q \in 1..Len(E) :
            p < q => \E i, j \in 1..Len(B) : i < j /\ E[p] = B[i] /\ E[q] = B[j]
      /\ \A q \in 1..Len(B) : Recent(B[q]) => \E p \in 1..Len(E) : E[p] = B[q]
      /\ (\A q \in 1..Len(B) : Recent(B[q])) => Len(E) = Len(B)
  <2>1. \A p \in 1..Len(E) : Recent(E[p]) /\ \E q \in 1..Len(B) : E[p] = B[q]
    BY <1>3, <1>5 DEF KeptOf
  <2>2. \A p, q \in 1..Len(E) :
            p < q => \E i, j \in 1..Len(B) : i < j /\ E[p] = B[i] /\ E[q] = B[j]
    BY <1>3, <1>5, SMTT(30) DEF KeptOf
  <2>3. \A q \in 1..Len(B) : Recent(B[q]) => \E p \in 1..Len(E) : E[p] = B[q]
    BY <1>3, <1>5 DEF KeptOf
  <2>4. (\A q \in 1..Len(B) : Recent(B[q])) => Len(E) = Len(B)
    BY <1>3 DEF KeptOf
  <2> QED  BY <2>1, <2>2, <2>3, <2>4
<1>7. ClosedOf(b) = {B[k] : k \in 1..Len(B)} /\ ClosedOf(c) = {E[k] : k \in 1..Len(E)}
  BY DEF ClosedOf, B, E
<1>8. \A t \in ClosedOf(c) : t \in ClosedOf(b) /\ RecentOn(t, day)
  <2> SUFFICES ASSUME NEW k \in 1..Len(E) PROVE E[k] \in ClosedOf(b) /\ RecentOn(E[k], day)
    BY <1>7
  <2>1. PICK q \in 1..Len(B) : E[k] = B[q]  BY <1>6
  <2>2. Recent(E[k])  BY <1>6
  <2> QED  BY <1>7, <2>1, <2>2, RecentIs
<1>9. \A t \in ClosedOf(b) : RecentOn(t, day) => t \in ClosedOf(c)
  <2> SUFFICES ASSUME NEW k \in 1..Len(B), RecentOn(B[k], day) PROVE B[k] \in ClosedOf(c)
    BY <1>7
  <2>1. Recent(B[k])  BY RecentIs
  <2>2. PICK p \in 1..Len(E) : E[p] = B[k]  BY <1>6, <2>1
  <2> QED  BY <1>7, <2>2
<1>10. Lines(b) = ClosedOf(b) /\ Lines(c) = ClosedOf(c)  BY <1>4 DEF Lines
<1>11. AllRecent(c, day)  BY <1>8, <1>10 DEF AllRecent
<1>12. NoClash(c)
  <2>1. \A k, l \in 1..Len(B) : k # l => ~Clash(B[k], B[l])  BY DEF BookOK, NoClash, B
  <2>2. \A v, w : Clash(v, w) => Clash(w, v)  BY DEF Clash
  <2>3. ASSUME NEW k \in 1..Len(E), NEW l \in 1..Len(E), k < l PROVE ~Clash(E[k], E[l])
    <3>1. PICK i, j \in 1..Len(B) : i < j /\ E[k] = B[i] /\ E[l] = B[j]  BY <1>6, <2>3
    <3>2. i # j  BY <3>1
    <3> QED  BY <2>1, <3>1, <3>2
  <2>4. ASSUME NEW k \in 1..Len(E), NEW l \in 1..Len(E), k # l PROVE ~Clash(E[k], E[l])
    <3>1. k < l \/ l < k  BY <2>4
    <3> QED  BY <2>2, <2>3, <3>1
  <2>5. 1..Len(c.active) = {}  BY <1>4
  <2> QED  BY <2>4, <2>5 DEF NoClash, E
<1>13. \A t \in Lines(c) : t.day = day /\ t.status \notin GaveUp => t.num <= Count(c)
  <2> SUFFICES ASSUME NEW t \in Lines(c), t.day = day, t.status \notin GaveUp
               PROVE  t.num <= Count(c)
    OBVIOUS
  <2>1. t \in ClosedOf(b)  BY <1>8, <1>10
  <2>2. t.status = "CLOSED"
    <3>1. t.status # "OPEN" /\ t \in Trade  BY <1>1, <2>1 DEF BookOK
    <3> QED  BY <3>1 DEF Trade, GaveUp
  <2>3. AllRecent(b, day)  BY <1>10, <2>1, <2>2 DEF BookOK
  <2>4. ASSUME NEW q \in 1..Len(B) PROVE Recent(B[q])
    <3>1. B[q] \in Lines(b)  BY <1>7, <1>10
    <3> QED  BY <2>3, <3>1, RecentIs DEF AllRecent
  <2>5. Len(E) = Len(B)  BY <1>6, <2>4
  <2>6. t.num <= Count(b)  BY <1>10, <2>1 DEF BookOK
  <2>7. Len(b.closed) = Len(c.closed) /\ Len(b.active) = Len(c.active)
    BY <1>4, <2>5 DEF B, E
  <2>8. Count(b) = Count(c)  BY <2>7 DEF Count
  <2> QED  BY <2>6, <2>8
<1>14. BookOK(c, day)
  <2>1. \A t \in ClosedOf(c) : t.status # "OPEN"  BY <1>8 DEF BookOK
  <2>2. \A t \in Lines(c) : t.day <= day
    <3>1. \A t \in Lines(b) : t.day <= day  BY DEF BookOK
    <3> QED  BY <1>8, <1>10, <3>1
  <2> QED  BY <1>4, <1>11, <1>12, <1>13, <2>1, <2>2 DEF BookOK
<1>15. \A t \in Trade : ~Recent(t) => t.day # day
  BY TradeBookAssumption DEF Recent, Trade
<1>16. Worth(PnlOn(day), E) = Worth(PnlOn(day), B)
  <2>1. PnlOn(day) \in [Trade -> Int]  BY Weights
  <2>2. \A t \in Trade : ~Recent(t) => PnlOn(day)[t] = 0  BY <1>15 DEF PnlOn
  <2>3. Worth(PnlOn(day), OnlyRecent(B)) = Worth(PnlOn(day), B)
    BY <1>1, <2>1, <2>2, WorthOfRecent
  <2> QED  BY <1>2, <2>3
<1>17. Worth(LostOn(day), E) = Worth(LostOn(day), B)
  <2>1. LostOn(day) \in [Trade -> Int]  BY Weights
  <2>2. \A t \in Trade : ~Recent(t) => LostOn(day)[t] = 0  BY <1>15 DEF LostOn
  <2>3. Worth(LostOn(day), OnlyRecent(B)) = Worth(LostOn(day), B)
    BY <1>1, <2>1, <2>2, WorthOfRecent
  <2> QED  BY <1>2, <2>3
<1> QED  BY <1>9, <1>11, <1>14, <1>16, <1>17 DEF B, E

\* The book of yesterday, today.
LEMMA BookNextDay ==
    ASSUME NEW d \in Int, NEW b, BookOK(b, d)
    PROVE  BookOK(b, d + 1) /\ Value(b, d + 1) = 0
<1>1. /\ b.active \in Seq(Trade) /\ b.closed \in Seq(Trade)
      /\ Len(b.active) \in Nat /\ Len(b.closed) \in Nat
      /\ Lines(b) \subseteq Trade
  BY BookParts DEF BookOK, Lines
<1>2. \A t \in Lines(b) : t.day <= d /\ t.day \in Int
  BY <1>1 DEF BookOK, Trade
<1>3. \A t \in Lines(b) : t.day <= d + 1 /\ t.day # d + 1  BY <1>2
<1>4. BookOK(b, d + 1)  BY <1>3 DEF BookOK
<1>5. \A k \in 1..Len(b.active) : b.active[k] \in Lines(b)  BY DEF Lines, ActiveOf
<1>6. \A k \in 1..Len(b.closed) : b.closed[k] \in Lines(b)  BY DEF Lines, ClosedOf
<1>7. Worth(PnlOn(d + 1), b.closed) = 0
  <2>1. PnlOn(d + 1) \in [Trade -> Int]  BY Weights
  <2>2. \A k \in 1..Len(b.closed) : PnlOn(d + 1)[b.closed[k]] = 0
    BY <1>1, <1>3, <1>6 DEF PnlOn
  <2> QED  BY <1>1, <2>1, <2>2, WorthOfNothing
<1>8. Worth(LostOn(d + 1), b.closed) = 0
  <2>1. LostOn(d + 1) \in [Trade -> Int]  BY Weights
  <2>2. \A k \in 1..Len(b.closed) : LostOn(d + 1)[b.closed[k]] = 0
    BY <1>1, <1>3, <1>6 DEF LostOn
  <2> QED  BY <1>1, <2>1, <2>2, WorthOfNothing
<1>9. Worth(PartialOn(d + 1), b.active) = 0
  <2>1. PartialOn(d + 1) \in [Trade -> Int]  BY Weights
  <2>2. \A k \in 1..Len(b.active) : PartialOn(d + 1)[b.active[k]] = 0
    BY <1>1, <1>3, <1>5 DEF PartialOn
  <2> QED  BY <1>1, <2>1, <2>2, WorthOfNothing
<1> QED  BY <1>4, <1>7, <1>8, <1>9 DEF Value, Result

-----------------------------------------------------------------------------
(* The same operations on the cache.                                       *)

\* c has what b has closed, and a record of every active trade of b.
Carries(b, c) ==
    /\ ClosedOf(b) \subseteq ClosedOf(c)
    /\ \A t \in ActiveOf(b) : \E u \in Lines(c) : SameTrade(u, t)
\* Entry e has a trade of day d.
Has(b, e, d) == \E t \in Lines(b) : t.entry = e /\ t.day = d
AllOf(b, d) == \A t \in ActiveOf(b) : t.day = d

LEMMA CarriesItself ==
    ASSUME NEW b
    PROVE  Carries(b, b)
BY DEF Carries, Lines, SameTrade

LEMMA CarriesOn ==
    ASSUME NEW a, NEW b, NEW c, Carries(a, b), Carries(b, c)
    PROVE  Carries(a, c)
<1>1. ASSUME NEW t \in Lines(b) PROVE \E u \in Lines(c) : SameTrade(u, t)
  BY <1>1 DEF Carries, Lines, SameTrade
<1>2. ASSUME NEW t \in ActiveOf(a) PROVE \E u \in Lines(c) : SameTrade(u, t)
  <2>1. PICK v \in Lines(b) : SameTrade(v, t)  BY DEF Carries
  <2>2. PICK u \in Lines(c) : SameTrade(u, v)  BY <1>1
  <2> QED  BY <2>1, <2>2 DEF SameTrade
<1> QED  BY <1>2 DEF Carries

LEMMA HasStays ==
    ASSUME NEW b, NEW c, NEW e, NEW d, Carries(b, c), Has(b, e, d)
    PROVE  Has(c, e, d)
BY DEF Carries, Has, Lines, SameTrade

LEMMA Days == ASSUME day \in 1..MaxDays PROVE day \in Int
<1>1. MaxDays \in Nat  BY TradeBookAssumption
<1> QED  BY <1>1

\* add_active_trade on the cache.
LEMMA AddFacts ==
    ASSUME day \in 1..MaxDays, BookOK(cache, day), NEW e \in Entries
    PROVE  /\ BookOK(WithTrade(e), day) /\ Carries(cache, WithTrade(e))
           /\ Has(WithTrade(e), e, day)
           /\ AllRecent(cache, day) => AllRecent(WithTrade(e), day)
           /\ AllOf(cache, day) => AllOf(WithTrade(e), day)
           /\ Result(WithTrade(e), day) = Result(cache, day)
           /\ Value(WithTrade(e), day) = Value(cache, day)
<1> DEFINE t == [entry |-> e, day |-> day, num |-> NextNum, partial |-> 0, pnl |-> 0,
                 status |-> "OPEN"]
           c == WithTrade(e)
<1>1. /\ cache.active \in Seq(Trade) /\ cache.closed \in Seq(Trade)
      /\ Len(cache.active) \in Nat /\ Len(cache.closed) \in Nat
  BY BookParts DEF BookOK
<1>2. NextNum = Count(cache) + 1 /\ NextNum \in Nat \ {0}
  <2> DEFINE x == Len(cache.active)
             y == Len(cache.closed)
  <2>1. NextNum = x + y + 1 /\ Count(cache) = x + y  BY DEF NextNum, Count
  <2>2. x \in Nat /\ y \in Nat  BY <1>1
  <2> HIDE DEF x, y
  <2> QED  BY <2>1, <2>2
<1>3. t \in Trade  BY <1>2 DEF Trade
<1>4. /\ t.day = day /\ t.num = Count(cache) + 1 /\ t.partial = 0 /\ t.pnl = 0
      /\ t.status = "OPEN" /\ t.entry = e
  BY <1>2
<1>5. cache = [active |-> cache.active, closed |-> cache.closed]  BY DEF BookOK, Book
<1>6. c = [active |-> Append(cache.active, t), closed |-> cache.closed]
  BY <1>5, SMTT(30) DEF WithTrade
<1> HIDE DEF t, c
<1>7. c \in Book /\ c.active = Append(cache.active, t) /\ c.closed = cache.closed
  BY <1>1, <1>3, <1>6 DEF Book
<1>8. day \in Int  BY Days
<1>9. /\ BookOK(c, day)
      /\ ActiveOf(c) = ActiveOf(cache) \cup {t} /\ ClosedOf(c) = ClosedOf(cache)
      /\ Value(c, day) = Value(cache, day) /\ Result(c, day) = Result(cache, day)
  BY <1>3, <1>4, <1>7, <1>8, BookAdd
<1>10. Lines(c) = Lines(cache) \cup {t}  BY <1>9 DEF Lines
<1>11. Carries(cache, c)
  BY <1>9, <1>10 DEF Carries, Lines, SameTrade
<1>12. Has(c, e, day)  BY <1>4, <1>10 DEF Has
<1>13. RecentOn(t, day)  BY <1>4, <1>8, TradeBookAssumption DEF RecentOn
<1>14. AllRecent(cache, day) => AllRecent(c, day)  BY <1>10, <1>13 DEF AllRecent
<1>15. AllOf(cache, day) => AllOf(c, day)  BY <1>4, <1>9 DEF AllOf
<1> QED  BY <1>9, <1>11, <1>12, <1>14, <1>15 DEF c

\* close_trade on the cache.
LEMMA CloseFacts ==
    ASSUME day \in 1..MaxDays, BookOK(cache, day), NEW i \in 1..Len(cache.active),
           NEW pnl \in -1..2, NEW status \in {"CLOSED", "STALE", "EXPIRED"},
           status = "CLOSED" => AllRecent(cache, day)
    PROVE  LET c == WithoutTrade(i, pnl, status)
               t == cache.active[i]
           IN  /\ BookOK(c, day) /\ Carries(cache, c)
               /\ AllRecent(cache, day) => AllRecent(c, day)
               /\ AllOf(cache, day) => AllOf(c, day)
               /\ status = "STALE" /\ pnl = 0 => Value(c, day) = Value(cache, day)
               /\ status = "CLOSED" /\ t.day = day =>
                    /\ Result(c, day) = Result(cache, day) + pnl - t.partial
                    /\ Value(c, day) = Value(cache, day) + pnl - t.partial
<1> DEFINE c == WithoutTrade(i, pnl, status)
           t == cache.active[i]
           u == [t EXCEPT !.pnl = pnl, !.status = status]
<1>1. /\ cache.active \in Seq(Trade) /\ cache.closed \in Seq(Trade)
      /\ Len(cache.active) \in Nat /\ Len(cache.closed) \in Nat
      /\ t \in Trade /\ cache \in Book
  BY BookParts DEF BookOK
<1>2. /\ u \in Trade /\ u.entry = t.entry /\ u.day = t.day /\ u.num = t.num
      /\ u.partial = t.partial /\ u.pnl = pnl /\ u.status = status
  BY <1>1 DEF Trade
<1>3. c = [active |-> RemoveAt(cache.active, i), closed |-> Append(cache.closed, u)]
  BY DEF WithoutTrade
<1> HIDE DEF c, t, u
<1>4. c \in Book /\ c.active = RemoveAt(cache.active, i) /\ c.closed = Append(cache.closed, u)
  <2>1. RemoveAt(cache.active, i) \in Seq(Trade)  BY <1>1, Removed
  <2>2. Append(cache.closed, u) \in Seq(Trade)  BY <1>1, <1>2
  <2> QED  BY <1>3, <2>1, <2>2 DEF Book
<1>5. SameTrade(u, t) /\ u.status \in {"CLOSED", "STALE", "EXPIRED"}
  BY <1>2 DEF SameTrade
<1>6. day \in Int  BY Days
<1>7. /\ BookOK(c, day)
      /\ t \in ActiveOf(cache) /\ ActiveOf(c) \subseteq ActiveOf(cache)
      /\ ActiveOf(cache) \subseteq ActiveOf(c) \cup {t}
      /\ ClosedOf(c) = ClosedOf(cache) \cup {u}
      /\ Worth(PartialOn(day), c.active)
           = Worth(PartialOn(day), cache.active) - PartialOn(day)[u]
      /\ Worth(PnlOn(day), c.closed) = Worth(PnlOn(day), cache.closed) + PnlOn(day)[u]
      /\ Worth(LostOn(day), c.closed) = Worth(LostOn(day), cache.closed) + LostOn(day)[u]
  <2>1. SameTrade(u, cache.active[i]) /\ u.partial = cache.active[i].partial
    BY <1>2, <1>5 DEF t
  <2>2. u.status = "CLOSED" => AllRecent(cache, day)  BY <1>2
  <2>3. ClosesTo(cache, i, u, c, day)  BY <1>4, <1>5, <2>1, <2>2 DEF ClosesTo
  <2>4. c \in Book /\ u \in Trade  BY <1>2, <1>4
  <2>5. BookOK(c, day) /\ Moves(cache, t, u, c, day)
    BY <1>6, <2>3, <2>4, BookClose DEF t
  <2> QED  BY <2>5 DEF Moves
<1>8. Lines(c) \subseteq Lines(cache) \cup {u} /\ t \in Lines(cache) /\ u \in Lines(c)
  BY <1>7 DEF Lines
<1>9. Carries(cache, c)
  <2>1. ASSUME NEW v \in ActiveOf(cache) PROVE \E w \in Lines(c) : SameTrade(w, v)
    <3>1. CASE v = t  BY <1>5, <1>8, <3>1
    <3>2. CASE v \in ActiveOf(c)  BY <3>2 DEF Lines, SameTrade
    <3> QED  BY <1>7, <3>1, <3>2
  <2> QED  BY <1>7, <2>1 DEF Carries
<1>10. AllRecent(cache, day) => AllRecent(c, day)
  BY <1>2, <1>8 DEF AllRecent, RecentOn
<1>11. AllOf(cache, day) => AllOf(c, day)  BY <1>7 DEF AllOf
<1> DEFINE p == Worth(PnlOn(day), cache.closed)
           q == Worth(PartialOn(day), cache.active)
           r == Worth(LostOn(day), cache.closed)
           x == PnlOn(day)[u]
           y == PartialOn(day)[u]
           z == LostOn(day)[u]
<1>12. p \in Int /\ q \in Int /\ r \in Int  BY <1>1, ValuesAreInt
<1>13. Result(cache, day) = p + q /\ Value(cache, day) = (p + q) + r  BY DEF Result, Value
<1>14. Result(c, day) = (p + x) + (q - y) /\ Value(c, day) = ((p + x) + (q - y)) + (r + z)
  BY <1>7 DEF Result, Value
<1>15. /\ x = IF t.day = day THEN pnl ELSE 0
       /\ y = IF t.day = day THEN t.partial ELSE 0
       /\ z = IF t.day = day /\ status \in GaveUp THEN t.partial ELSE 0
  BY <1>2 DEF PnlOn, PartialOn, LostOn
<1>16. t.partial \in Int /\ pnl \in Int  BY <1>1 DEF Trade
<1> HIDE DEF p, q, r, x, y, z
<1>17. status = "STALE" /\ pnl = 0 => Value(c, day) = Value(cache, day)
  <2>1. status = "STALE" => status \in GaveUp  BY DEF GaveUp
  <2>2. status = "STALE" /\ pnl = 0 => x = 0 /\ y = z /\ y \in Int
    BY <1>15, <1>16, <2>1
  <2> QED  BY <1>12, <1>13, <1>14, <2>2
<1>18. status = "CLOSED" /\ t.day = day =>
         /\ Result(c, day) = Result(cache, day) + pnl - t.partial
         /\ Value(c, day) = Value(cache, day) + pnl - t.partial
  <2>1. status = "CLOSED" => status \notin GaveUp  BY DEF GaveUp
  <2>2. status = "CLOSED" /\ t.day = day => x = pnl /\ y = t.partial /\ z = 0
    BY <1>15, <2>1
  <2> DEFINE w == t.partial
  <2>3. w \in Int  BY <1>16
  <2> HIDE DEF w
  <2>4. status = "CLOSED" /\ t.day = day =>
         /\ Result(c, day) = Result(cache, day) + pnl - w
         /\ Value(c, day) = Value(cache, day) + pnl - w
    <3>1. status = "CLOSED" /\ t.day = day => x = pnl /\ y = w /\ z = 0  BY <2>2 DEF w
    <3> QED  BY <1>12, <1>13, <1>14, <1>16, <2>3, <3>1
  <2> QED  BY <2>4 DEF w
<1> QED  BY <1>7, <1>9, <1>10, <1>11, <1>17, <1>18 DEF c, t

\* update_trade on the cache.
LEMMA PartialFacts ==
    ASSUME day \in 1..MaxDays, BookOK(cache, day), NEW i \in 1..Len(cache.active),
           cache.active[i].partial = 0, cache.active[i].day = day
    PROVE  /\ BookOK(WithPartial(i), day) /\ Carries(cache, WithPartial(i))
           /\ AllRecent(cache, day) => AllRecent(WithPartial(i), day)
           /\ AllOf(cache, day) => AllOf(WithPartial(i), day)
           /\ Result(WithPartial(i), day) = Result(cache, day) + 1
           /\ Value(WithPartial(i), day) = Value(cache, day) + 1
<1> DEFINE c == WithPartial(i)
           t == cache.active[i]
           u == [t EXCEPT !.partial = @ + 1]
<1>1. /\ cache.active \in Seq(Trade) /\ cache.closed \in Seq(Trade)
      /\ t \in Trade /\ t \in ActiveOf(cache)
  BY BookParts DEF BookOK, ActiveOf
<1>2. t.partial = 0 /\ t.day = day /\ t.status = "OPEN" /\ t.pnl = 0
  BY <1>1 DEF BookOK
<1>3. /\ u \in Trade /\ u.entry = t.entry /\ u.day = t.day /\ u.num = t.num
      /\ u.partial = t.partial + 1 /\ u.pnl = 0 /\ u.status = "OPEN"
  <2>1. t.partial + 1 = 1  BY <1>2
  <2>2. u = [t EXCEPT !.partial = 1]  BY <2>1
  <2>3. 1 \in 0..1  OBVIOUS
  <2> HIDE DEF u, t
  <2>4. u \in Trade /\ u.partial = 1  BY <1>1, <2>2, <2>3 DEF Trade
  <2>5. u.entry = t.entry /\ u.day = t.day /\ u.num = t.num
    BY <1>1, <2>2 DEF Trade
  <2>6. u.pnl = t.pnl /\ u.status = t.status  BY <1>1, <2>2 DEF Trade
  <2> QED  BY <1>2, <2>1, <2>4, <2>5, <2>6
<1>4. cache = [active |-> cache.active, closed |-> cache.closed]  BY DEF BookOK, Book
<1>5. c = [active |-> [cache.active EXCEPT ![i] = u], closed |-> cache.closed]
  BY <1>4 DEF WithPartial
<1> HIDE DEF c, t, u
<1>6. c.active = [cache.active EXCEPT ![i] = u] /\ c.closed = cache.closed
  BY <1>5
<1>7. c \in Book
  <2>1. [cache.active EXCEPT ![i] = u] \in Seq(Trade)  BY <1>1, <1>3
  <2> QED  BY <1>1, <1>5, <2>1 DEF Book
<1>8. day \in Int  BY Days
<1>9. PartialTo(cache, i, u, c, day)
  BY <1>2, <1>3, <1>6 DEF PartialTo, SameTrade, t
<1>10. /\ BookOK(c, day) /\ u \in ActiveOf(c)
       /\ ActiveOf(c) \subseteq ActiveOf(cache) \cup {u}
       /\ ActiveOf(cache) \subseteq ActiveOf(c) \cup {t}
       /\ ClosedOf(c) = ClosedOf(cache)
       /\ Result(c, day) = Result(cache, day) + 1 /\ Value(c, day) = Value(cache, day) + 1
  BY <1>3, <1>7, <1>8, <1>9, BookPartial DEF t
<1>11. Carries(cache, c)
  <2>1. ASSUME NEW v \in ActiveOf(cache) PROVE \E w \in Lines(c) : SameTrade(w, v)
    <3>1. CASE v = t  BY <1>3, <1>10, <3>1 DEF Lines, SameTrade
    <3>2. CASE v \in ActiveOf(c)  BY <3>2 DEF Lines, SameTrade
    <3> QED  BY <1>10, <3>1, <3>2
  <2> QED  BY <1>10, <2>1 DEF Carries
<1>12. RecentOn(u, day)  BY <1>2, <1>3, <1>8, TradeBookAssumption DEF RecentOn
<1>13. AllRecent(cache, day) => AllRecent(c, day)  BY <1>10, <1>12 DEF AllRecent, Lines
<1>14. AllOf(cache, day) => AllOf(c, day)  BY <1>2, <1>3, <1>10 DEF AllOf
<1> QED  BY <1>10, <1>11, <1>13, <1>14 DEF c

\* clear_day_data on the cache.
LEMMA ClearFacts ==
    ASSUME day \in 1..MaxDays, BookOK(cache, day)
    PROVE  /\ BookOK(DayCleared, day) /\ Carries(cache, DayCleared)
           /\ DayCleared.active = <<>>
           /\ Value(DayCleared, day) = Value(cache, day)
<1> DEFINE X == [i \in DOMAIN cache.active |->
                   [cache.active[i] EXCEPT !.status = "EXPIRED"]]
           c == DayCleared
<1>1. /\ cache.active \in Seq(Trade) /\ cache.closed \in Seq(Trade)
      /\ Len(cache.active) \in Nat
  BY BookParts DEF BookOK
<1>2. DOMAIN cache.active = 1..Len(cache.active)  BY <1>1
<1>3. ASSUME NEW k \in 1..Len(cache.active)
      PROVE  /\ X[k] \in Trade /\ SameTrade(X[k], cache.active[k])
             /\ X[k].partial = cache.active[k].partial
             /\ X[k].pnl = 0 /\ X[k].status = "EXPIRED"
  <2>1. cache.active[k] \in Trade /\ cache.active[k].pnl = 0
    BY <1>1 DEF BookOK, ActiveOf
  <2>2. X[k] = [cache.active[k] EXCEPT !.status = "EXPIRED"]  BY <1>2
  <2> QED  BY <2>1, <2>2 DEF Trade, SameTrade
<1>4. X \in Seq(Trade) /\ Len(X) = Len(cache.active)
  <2> DEFINE n == Len(cache.active)
  <2>1. X = [i \in 1..n |-> X[i]] /\ n \in Nat  BY <1>1, <1>2
  <2>2. \A k \in 1..n : X[k] \in Trade  BY <1>3
  <2> HIDE DEF X, n
  <2>3. X \in Seq(Trade) /\ Len(X) = n  BY <2>1, <2>2
  <2> QED  BY <2>3 DEF n
<1>5. c = [active |-> <<>>, closed |-> cache.closed \o X]  BY DEF DayCleared
<1> HIDE DEF c, X
<1>6. c.active = <<>> /\ c.closed = cache.closed \o X  BY <1>5
<1>7. c \in Book
  <2>1. cache.closed \o X \in Seq(Trade)  BY <1>1, <1>4
  <2>2. <<>> \in Seq(Trade)  OBVIOUS
  <2> QED  BY <1>5, <2>1, <2>2 DEF Book
<1>8. ClearsTo(cache, X, c)  BY <1>3, <1>4, <1>6 DEF ClearsTo
<1>9. day \in Int  BY Days
<1>10. /\ BookOK(c, day) /\ ClosedOf(cache) \subseteq ClosedOf(c)
       /\ \A v \in ActiveOf(cache) : \E w \in ClosedOf(c) : SameTrade(w, v)
       /\ Value(c, day) = Value(cache, day)
  BY <1>4, <1>7, <1>8, <1>9, BookClear
<1>11. Carries(cache, c)  BY <1>10 DEF Carries, Lines
<1> QED  BY <1>6, <1>10, <1>11 DEF c

\* The two sums of the specification, as a worth.
LEMMA GetDailyPnlIs ==
    ASSUME NEW b \in Book
    PROVE  GetDailyPnl(b) = Worth(PnlOn(day), b.closed)
<1>1. b.closed \in Seq(Trade)  BY BookParts
<1>2. DOMAIN b.closed = 1..Len(b.closed)  BY <1>1
<1>3. \A k \in DOMAIN b.closed : PnlToday(b.closed[k]) = PnlOn(day)[b.closed[k]]
  BY <1>1, <1>2 DEF PnlToday, PnlOn
<1>4. [i \in DOMAIN b.closed |-> PnlToday(b.closed[i])] = Weigh(PnlOn(day), b.closed)
  BY <1>3 DEF Weigh
<1> QED  BY <1>4 DEF GetDailyPnl, Worth

LEMMA LostPartialsIs ==
    ASSUME NEW b \in Book
    PROVE  LostPartials(b) = Worth(LostOn(day), b.closed)
<1>1. b.closed \in Seq(Trade)  BY BookParts
<1>2. DOMAIN b.closed = 1..Len(b.closed)  BY <1>1
<1>3. \A k \in DOMAIN b.closed : LostPartial(b.closed[k]) = LostOn(day)[b.closed[k]]
  BY <1>1, <1>2 DEF LostPartial, LostOn
<1>4. [i \in DOMAIN b.closed |-> LostPartial(b.closed[i])] = Weigh(LostOn(day), b.closed)
  BY <1>3 DEF Weigh
<1> QED  BY <1>4 DEF LostPartials, Worth

\* trim_old_closed_trades on the cache, after clear_day_data.
LEMMA TrimFacts ==
    ASSUME day \in 1..MaxDays, BookOK(cache, day), cache.active = <<>>
    PROVE  /\ BookOK(Trimmed, day) /\ AllRecent(Trimmed, day) /\ AllOf(Trimmed, day)
           /\ Trimmed.active = <<>>
           /\ \A t \in ClosedOf(cache) : RecentOn(t, day) => t \in ClosedOf(Trimmed)
           /\ \A e : Has(cache, e, day) => Has(Trimmed, e, day)
           /\ GetDailyPnl(Trimmed) = Result(Trimmed, day)
           /\ Value(Trimmed, day) = Value(cache, day)
<1> DEFINE c == Trimmed
<1>1. /\ cache.active \in Seq(Trade) /\ cache.closed \in Seq(Trade)
  BY BookParts DEF BookOK
<1>2. cache = [active |-> cache.active, closed |-> cache.closed] /\ cache \in Book
  BY DEF BookOK, Book
<1>3. c = [active |-> <<>>, closed |-> OnlyRecent(cache.closed)]
  BY <1>2 DEF Trimmed
<1>4. OnlyRecent(cache.closed) \in Seq(Trade)
  BY <1>1, OnlyRecentKeeps
<1> HIDE DEF c
<1>5. c.active = <<>> /\ c.closed = OnlyRecent(cache.closed)  BY <1>3
<1>6. c \in Book
  <2>1. <<>> \in Seq(Trade)  OBVIOUS
  <2> QED  BY <1>3, <1>4, <2>1 DEF Book
<1>7. day \in Int  BY Days
<1>8. /\ BookOK(c, day) /\ AllRecent(c, day)
      /\ \A t \in ClosedOf(cache) : RecentOn(t, day) => t \in ClosedOf(c)
      /\ Worth(PnlOn(day), c.closed) = Worth(PnlOn(day), cache.closed)
      /\ Worth(LostOn(day), c.closed) = Worth(LostOn(day), cache.closed)
  BY <1>5, <1>6, <1>7, BookTrim
<1>9. ActiveOf(c) = {} /\ ActiveOf(cache) = {}  BY <1>5 DEF ActiveOf
<1>10. AllOf(c, day)  BY <1>9 DEF AllOf
<1>11. ASSUME NEW e, Has(cache, e, day) PROVE Has(c, e, day)
  <2>1. PICK t \in ClosedOf(cache) : t.entry = e /\ t.day = day
    BY <1>9, <1>11 DEF Has, Lines
  <2>2. RecentOn(t, day)  BY <1>7, <2>1, TradeBookAssumption DEF RecentOn
  <2> QED  BY <1>8, <2>1, <2>2 DEF Has, Lines
<1>12. Worth(PartialOn(day), <<>>) = 0  BY Weights, WorthOfEmpty
<1>13. Worth(PnlOn(day), c.closed) \in Int  BY <1>6, ValuesAreInt
<1>14. GetDailyPnl(c) = Worth(PnlOn(day), c.closed)  BY <1>6, GetDailyPnlIs
<1>15. GetDailyPnl(c) = Result(c, day)
  BY <1>5, <1>12, <1>13, <1>14 DEF Result
<1>16. Value(c, day) = Value(cache, day)  BY <1>5, <1>8 DEF Value, Result
<1> QED  BY <1>5, <1>8, <1>10, <1>11, <1>15, <1>16 DEF c

-----------------------------------------------------------------------------
(* The inductive invariant.                                                *)

\* The types, and where the process and its loops may be.
Control ==
    /\ mode \in Modes /\ day \in 1..MaxDays /\ late \in BOOLEAN
    /\ pend \subseteq Entries /\ pendDisk \subseteq Entries /\ resumed \subseteq pend
    /\ queue \subseteq Entries /\ at \in Nat \ {0}
    /\ doing \in {"idle", "sent", "activated"} /\ entry \in Entries \cup {None}
    /\ dailyPnl \in Int /\ booked \in Int
    /\ sent \in 0..MaxEntries
    /\ live \subseteq 1..sent /\ filled \subseteq 1..sent /\ excused \subseteq Entries
    /\ live \cap filled = {} /\ held \subseteq filled
    /\ crashes \in 0..MaxCrashes /\ faults \in 0..MaxFaults /\ unsaved \in BOOLEAN
    /\ mode = "down" => cache = EmptyBook /\ pend = {} /\ resumed = {}
    /\ mode \in {"reconcile", "pending", "clear", "trim"} => pend = resumed
    /\ doing # "idle" => mode = "running" /\ entry \in Entries

\* The books; what the session starts with; the file never runs ahead.
Books == BookOK(cache, day) /\ BookOK(disk, day)
Fresh ==
    /\ mode = "trim" => disk = cache /\ cache.active = <<>>
    /\ Up => AllRecent(cache, day) /\ AllOf(cache, day)
FileBehind == mode # "down" => Carries(disk, cache)

\* The inductive invariant.
Inv == Control /\ Books /\ Fresh /\ FileBehind

\* What the file keeps in one step.
Keeps(b, c, d) ==
    /\ \A t \in ClosedOf(b) : RecentOn(t, d) => t \in ClosedOf(c)
    /\ \A t \in ActiveOf(b) : \E u \in Lines(c) : SameTrade(u, t)
\* A step keeps the books, and the file keeps its recent trades.
Kept == Books' /\ FileBehind' /\ Keeps(disk, disk', day)

LEMMA CarriesKeeps ==
    ASSUME NEW b, NEW c, NEW d, Carries(b, c)
    PROVE  Keeps(b, c, d)
BY DEF Carries, Keeps

LEMMA Untouched ==
    ASSUME Books, FileBehind, mode = "down" => mode' = "down",
           UNCHANGED <<day, cache, disk>>
    PROVE  Kept
<1>1. Keeps(disk, disk', day)  BY CarriesItself, CarriesKeeps
<1>2. Books'  BY DEF Books
<1>3. FileBehind'  BY DEF FileBehind
<1> QED  BY <1>1, <1>2, <1>3 DEF Kept

\* An operation of TradeTracker that carries the cache on, saved or not.
LEMMA Rewritten ==
    ASSUME Books, FileBehind, mode # "down", day' = day,
           NEW c, BookOK(c, day), Carries(cache, c), SavesOrNot(c)
    PROVE  Kept /\ cache' = c /\ disk' \in {c, disk}
<1>1. cache' = c /\ disk' \in {c, disk}  BY DEF SavesOrNot, Saves, SaveRaises
<1>2. Carries(disk, c)  BY CarriesOn DEF FileBehind
<1>3. Carries(disk, disk') /\ Carries(disk', cache')
  <2>1. CASE disk' = disk  BY <1>1, <1>2, <2>1, CarriesItself
  <2>2. CASE disk' = c  BY <1>1, <1>2, <2>2, CarriesItself
  <2> QED  BY <1>1, <2>1, <2>2
<1>4. Books'  BY <1>1 DEF Books
<1>5. FileBehind'  BY <1>3 DEF FileBehind
<1> QED  BY <1>1, <1>3, <1>4, <1>5, CarriesKeeps DEF Kept

LEMMA EmptyIsOK ==
    ASSUME NEW d
    PROVE  /\ BookOK(EmptyBook, d) /\ ActiveOf(EmptyBook) = {} /\ ClosedOf(EmptyBook) = {}
           /\ Lines(EmptyBook) = {}
<1>1. EmptyBook \in Book /\ EmptyBook.active = <<>> /\ EmptyBook.closed = <<>>
  BY DEF EmptyBook, Book
<1>2. 1..Len(<<>>) = {}  OBVIOUS
<1>3. ActiveOf(EmptyBook) = {} /\ ClosedOf(EmptyBook) = {} /\ Lines(EmptyBook) = {}
  BY <1>1, <1>2 DEF ActiveOf, ClosedOf, Lines
<1>4. NoClash(EmptyBook)  BY <1>1, <1>2 DEF NoClash
<1> QED  BY <1>1, <1>3, <1>4 DEF BookOK

LEMMA Bounds ==
    /\ MaxEntries \in Nat \ {0} /\ MaxDays \in Nat \ {0}
    /\ MaxCrashes \in Nat /\ MaxFaults \in Nat /\ KeepDays \in Nat
BY TradeBookAssumption

\* A write that fails counts.
LEMMA Faults ==
    ASSUME faults \in 0..MaxFaults
    PROVE  /\ \A c : SavesOrNot(c) => faults' \in 0..MaxFaults
           /\ \A c : Saves(c) => faults' \in 0..MaxFaults
           /\ \A c : SaveRaises(c) => faults' \in 0..MaxFaults
           /\ \A S : SavesPending(S) =>
                        /\ faults' \in 0..MaxFaults
                        /\ pendDisk' = S \/ pendDisk' = pendDisk
<1>1. MaxFaults \in Nat  BY Bounds
<1>2. faults < MaxFaults /\ faults' = faults + 1 => faults' \in 0..MaxFaults  BY <1>1
<1> QED  BY <1>2 DEF SavesOrNot, Saves, SaveRaises, SavesPending

LEMMA ControlStep ==
    ASSUME Control, Books, Fresh, Next
    PROVE  Control'
<1> USE DEF Control, Modes
<1>1. /\ pend \subseteq Entries /\ queue \subseteq Entries /\ pendDisk \subseteq Entries
      /\ {} \subseteq Entries
  OBVIOUS
<1>2. 1..sent \subseteq Entries /\ sent \in Nat  BY Bounds DEF Entries
<1>0. /\ \A c : SavesOrNot(c) => faults' \in 0..MaxFaults
      /\ \A c : Saves(c) => faults' \in 0..MaxFaults
      /\ \A c : SaveRaises(c) => faults' \in 0..MaxFaults
      /\ \A S : SavesPending(S) =>
                   /\ faults' \in 0..MaxFaults
                   /\ pendDisk' = S \/ pendDisk' = pendDisk
  BY Faults
<1>a. CASE Boot  BY <1>a DEF Boot, pendVars, brokerVars, ghostVars
<1>b. CASE CarryOver  BY <1>b DEF CarryOver, fileVars, pendVars, brokerVars, ghostVars
<1>c. CASE CloseStale  BY <1>0, <1>c DEF CloseStale, pendVars, brokerVars, ghostVars
<1>d. CASE TradesChecked
  BY <1>d DEF TradesChecked, fileVars, pendVars, loopVars, brokerVars, ghostVars
<1>e. CASE \E e \in Entries : RecoverFilled(e)
  BY <1>0, <1>e DEF RecoverFilled, pendVars, brokerVars, ghostVars
<1>f. CASE \E e \in Entries : RecoverLive(e)
  BY <1>f DEF RecoverLive, fileVars, brokerVars, ghostVars
<1>g. CASE \E e \in Entries : RecoverDead(e)
  BY <1>g DEF RecoverDead, fileVars, pendVars, brokerVars, ghostVars
<1>h. CASE \E e \in Entries : RecoverSkipped(e)
  BY <1>h DEF RecoverSkipped, fileVars, pendVars, brokerVars
<1>i. CASE PendingCleared
  BY <1>0, <1>i DEF PendingCleared, fileVars, loopVars, brokerVars, ghostVars
<1>j. CASE ClearDay  BY <1>0, <1>j DEF ClearDay, pendVars, loopVars, brokerVars, ghostVars
<1>k. CASE Trim
  <2>1. dailyPnl' \in Int
    <3>1. cache.active = <<>> /\ dailyPnl' = GetDailyPnl(Trimmed)
      BY <1>k DEF Trim, Fresh
    <3>2. GetDailyPnl(Trimmed) = Result(Trimmed, day) /\ Trimmed \in Book
      BY <3>1, TrimFacts DEF Books, BookOK
    <3> QED  BY <3>1, <3>2, ValuesAreInt
  <2>2. faults' \in 0..MaxFaults
    BY <1>0, <1>k DEF Trim
  <2> QED  BY <1>k, <2>1, <2>2 DEF Trim, pendVars, loopVars, brokerVars, ghostVars
<1>l. CASE InitializeRaises
  <2>1. faults' \in 0..MaxFaults  BY <1>l, Bounds DEF InitializeRaises
  <2>2. 1 \in Nat \ {0} /\ 0 \in Int  OBVIOUS
  <2> QED  BY <1>l, <2>1, <2>2 DEF InitializeRaises, ProcessEnds, brokerVars, ghostVars
<1>m. CASE Send  BY <1>m, Bounds DEF Send, Trading, fileVars, pendVars, ghostVars, Entries
<1>n. CASE Record  BY <1>0, <1>n DEF Record, fileVars, brokerVars, ghostVars
<1>o. CASE Untrack  BY <1>0, <1>o DEF Untrack, fileVars, brokerVars, ghostVars
<1>p. CASE \E e \in Entries : Activate(e)
  BY <1>0, <1>p DEF Activate, Trading, pendVars, brokerVars, ghostVars
<1>q. CASE \E e \in Entries : AbortEntry(e)
  BY <1>q DEF AbortEntry, Trading, fileVars, pendVars
<1>r. CASE \E e \in Entries : CancelEntry(e)
  <2>1. PICK e \in Entries : CancelEntry(e)  BY <1>r
  <2>2. /\ live' = live \ {e} /\ pend' = pend \ {e} /\ resumed' = resumed \ {e}
        /\ SavesPending(pend') /\ mode = "running"
    BY <2>1 DEF CancelEntry, Trading
  <2>3. UNCHANGED <<mode, day, late, queue, at, doing, entry, sent, dailyPnl, filled, held,
                    booked, excused, crashes, unsaved>>
    BY <2>1 DEF CancelEntry, loopVars, ghostVars
  <2>4. pendDisk' \subseteq Entries /\ faults' \in 0..MaxFaults  BY <1>0, <2>2
  <2> QED  BY <2>2, <2>3, <2>4
<1>s. CASE \E i \in Entries : PartialExit(i)
  BY <1>0, <1>s DEF PartialExit, Trading, pendVars, loopVars, brokerVars, ghostVars
<1>t. CASE \E i \in Entries : \E final \in {-1, 1} : CloseTrade(i, final)
  <2>1. PICK i \in Entries, final \in {-1, 1} : CloseTrade(i, final)  BY <1>t
  <2>2. dailyPnl' \in Int /\ booked' \in Int  BY <2>1 DEF CloseTrade
  <2>3. faults' \in 0..MaxFaults  BY <1>0, <2>1 DEF CloseTrade
  <2>4. held' \subseteq held /\ mode = "running"  BY <2>1 DEF CloseTrade, Trading
  <2>5. UNCHANGED <<mode, day, late, pend, pendDisk, resumed, queue, at, doing, entry, sent,
                    live, filled, excused, crashes, unsaved>>
    BY <2>1 DEF CloseTrade, pendVars, loopVars, ghostVars
  <2> QED  BY <2>2, <2>3, <2>4, <2>5
<1>u. CASE SqOffTime  BY <1>u DEF SqOffTime, fileVars, pendVars, brokerVars, ghostVars
<1>v. CASE SqOffCleared
  BY <1>0, <1>v DEF SqOffCleared, fileVars, loopVars, brokerVars, ghostVars
<1>w. CASE SessionEnds
  BY <1>w DEF SessionEnds, fileVars, pendVars, loopVars, brokerVars, ghostVars
<1>x. CASE Exit  BY <1>x DEF Exit, ProcessEnds, brokerVars
<1>y. CASE \E e \in Entries : SqOffActivate(e)
  BY <1>0, <1>y DEF SqOffActivate, pendVars, brokerVars, ghostVars
<1>z. CASE \E e \in Entries : SqOffCancel(e)
  BY <1>z DEF SqOffCancel, fileVars, pendVars
<1>3. CASE \E final \in {-1, 1}, sold \in BOOLEAN : SquareOff(final, sold)
  <2>1. PICK final \in {-1, 1}, sold \in BOOLEAN : SquareOff(final, sold)  BY <1>3
  <2>2. dailyPnl' \in Int /\ booked' \in Int  BY <2>1 DEF SquareOff
  <2>3. faults' \in 0..MaxFaults  BY <1>0, <2>1 DEF SquareOff
  <2>4. held' \subseteq held /\ at' \in Nat \ {0}  BY <2>1 DEF SquareOff
  <2>5. /\ mode = "squareoff" /\ mode' \in {"squareoff", "running"}
        /\ UNCHANGED <<day, late, pend, pendDisk, resumed, queue, doing, entry, sent,
                    live, filled, excused, crashes, unsaved>>
    BY <2>1 DEF SquareOff, pendVars, ghostVars
  <2> QED  BY <2>2, <2>3, <2>4, <2>5
<1>4. CASE \E final \in {-1, 1}, sold \in BOOLEAN : SquareOffRaises(final, sold)
  <2>1. PICK final \in {-1, 1}, sold \in BOOLEAN : SquareOffRaises(final, sold)  BY <1>4
  <2>2. dailyPnl' \in Int /\ booked' \in Int  BY <2>1 DEF SquareOffRaises
  <2>3. faults' \in 0..MaxFaults  BY <1>0, <2>1 DEF SquareOffRaises
  <2>4. held' \subseteq held /\ at' \in Nat \ {0}  BY <2>1 DEF SquareOffRaises
  <2>5. /\ mode = "squareoff" /\ mode' \in {"squareoff", "running"}
        /\ UNCHANGED <<day, late, pend, pendDisk, resumed, queue, doing, entry, sent,
                    live, filled, excused, crashes, unsaved>>
    BY <2>1 DEF SquareOffRaises, pendVars, ghostVars
  <2> QED  BY <2>2, <2>3, <2>4, <2>5
<1>5. CASE \E e \in Entries : BrokerFill(e)
  BY <1>5 DEF BrokerFill, fileVars, pendVars, loopVars, ghostVars
<1>6. CASE \E e \in Entries : BrokerExit(e)
  BY <1>6 DEF BrokerExit, fileVars, pendVars, loopVars, ghostVars
<1>7. CASE NewDay
  <2>1. day' \in 1..MaxDays  BY <1>7, Bounds DEF NewDay
  <2>2. late' \in BOOLEAN /\ unsaved' \in BOOLEAN /\ booked' \in Int
    <3>1. late' = FALSE /\ unsaved' = FALSE /\ booked' = 0  BY ONLY <1>7 DEF NewDay
    <3>2. 0 \in Int  OBVIOUS
    <3> QED  BY <3>1, <3>2
  <2>4. live' \subseteq 1..sent /\ live' \cap filled = {} /\ held' \subseteq filled
    <3>1. live' = {} /\ held' = {}  BY <1>7 DEF NewDay
    <3> QED  BY <3>1
  <2>3. UNCHANGED <<mode, cache, pend, pendDisk, resumed, queue, at, doing, entry, sent,
                    dailyPnl, filled, excused, crashes, faults>>
    BY <1>7 DEF NewDay, fileVars, pendVars, loopVars
  <2> QED  BY <2>1, <2>2, <2>3, <2>4
<1>8. CASE Crash
  <2>1. crashes' \in 0..MaxCrashes  BY <1>8, Bounds DEF Crash
  <2>2. excused' \subseteq Entries /\ unsaved' \in BOOLEAN  BY <1>8 DEF Crash
  <2>3. 1 \in Nat \ {0} /\ 0 \in Int  OBVIOUS
  <2> QED  BY <1>8, <2>1, <2>2, <2>3 DEF Crash, ProcessEnds, brokerVars
<1> QED
  BY <1>a, <1>b, <1>c, <1>d, <1>e, <1>f, <1>g, <1>h, <1>i, <1>j, <1>k, <1>l, <1>m, <1>n,
     <1>o, <1>p, <1>q, <1>r, <1>s, <1>t, <1>u, <1>v, <1>w, <1>x, <1>y, <1>z,
     <1>3, <1>4, <1>5, <1>6, <1>7, <1>8
  DEF Next, Startup, Session, SessionEnd

LEMMA ActiveIndex ==
    ASSUME Books
    PROVE  /\ DOMAIN cache.active = 1..Len(cache.active) /\ Len(cache.active) \in Nat
           /\ \A i \in 1..Len(cache.active) :
                 cache.active[i] \in Trade /\ cache.active[i] \in ActiveOf(cache)
<1>1. cache.active \in Seq(Trade)  BY BookParts DEF Books, BookOK
<1> QED  BY <1>1 DEF ActiveOf

LEMMA TotalPnlIs ==
    ASSUME Books, NEW i \in 1..Len(cache.active), NEW final \in {-1, 1}
    PROVE  /\ TotalPnl(i, final) \in -1..2 /\ cache.active[i].partial \in Int
           /\ TotalPnl(i, final) = final + cache.active[i].partial
<1>1. cache.active[i].partial \in 0..1  BY ActiveIndex DEF Trade
<1> QED  BY <1>1 DEF TotalPnl

\* The actions that rewrite the cached book and leave the trades as they should be.
LEMMA AddStep ==
    ASSUME Inv, NEW e \in Entries, mode # "down", day' = day, SavesOrNot(WithTrade(e))
    PROVE  /\ Kept /\ cache' = WithTrade(e) /\ disk' \in {WithTrade(e), disk}
           /\ Up => AllRecent(cache', day) /\ AllOf(cache', day)
<1>1. day \in 1..MaxDays /\ BookOK(cache, day)  BY DEF Inv, Control, Books
<1>2. /\ BookOK(WithTrade(e), day) /\ Carries(cache, WithTrade(e))
      /\ AllRecent(cache, day) => AllRecent(WithTrade(e), day)
      /\ AllOf(cache, day) => AllOf(WithTrade(e), day)
  BY <1>1, AddFacts
<1>3. Kept /\ cache' = WithTrade(e) /\ disk' \in {WithTrade(e), disk}
  BY <1>2, Rewritten DEF Inv
<1> QED  BY <1>2, <1>3 DEF Inv, Fresh

LEMMA CloseStep ==
    ASSUME Inv, mode # "down", day' = day, NEW i \in 1..Len(cache.active),
           NEW pnl \in -1..2, NEW status \in {"CLOSED", "STALE", "EXPIRED"},
           status = "CLOSED" => Up, SavesOrNot(WithoutTrade(i, pnl, status))
    PROVE  /\ Kept /\ cache' = WithoutTrade(i, pnl, status)
           /\ disk' \in {WithoutTrade(i, pnl, status), disk}
           /\ Up => AllRecent(cache', day) /\ AllOf(cache', day)
<1> DEFINE c == WithoutTrade(i, pnl, status)
<1>1. day \in 1..MaxDays /\ BookOK(cache, day)  BY DEF Inv, Control, Books
<1>2. status = "CLOSED" => AllRecent(cache, day)  BY DEF Inv, Fresh
<1>3. /\ BookOK(c, day) /\ Carries(cache, c)
      /\ AllRecent(cache, day) => AllRecent(c, day)
      /\ AllOf(cache, day) => AllOf(c, day)
  BY <1>1, <1>2, CloseFacts
<1>4. SavesOrNot(c)  OBVIOUS
<1> HIDE DEF c
<1>5. Kept /\ cache' = c /\ disk' \in {c, disk}
  BY <1>3, <1>4, Rewritten DEF Inv
<1>6. Up => AllRecent(cache', day) /\ AllOf(cache', day)  BY <1>3, <1>5 DEF Inv, Fresh
<1> QED  BY <1>5, <1>6 DEF c

LEMMA PartialStep ==
    ASSUME Inv, Up, day' = day, NEW i \in 1..Len(cache.active),
           cache.active[i].partial = 0, SavesOrNot(WithPartial(i))
    PROVE  /\ Kept /\ cache' = WithPartial(i) /\ disk' \in {WithPartial(i), disk}
           /\ AllRecent(cache', day) /\ AllOf(cache', day)
<1>1. day \in 1..MaxDays /\ BookOK(cache, day) /\ mode # "down"
  BY DEF Inv, Control, Books, Up
<1>2. cache.active[i].day = day /\ AllRecent(cache, day) /\ AllOf(cache, day)
  BY ActiveIndex DEF Inv, Fresh, AllOf
<1>3. /\ BookOK(WithPartial(i), day) /\ Carries(cache, WithPartial(i))
      /\ AllRecent(WithPartial(i), day) /\ AllOf(WithPartial(i), day)
  BY <1>1, <1>2, PartialFacts
<1>4. Kept /\ cache' = WithPartial(i) /\ disk' \in {WithPartial(i), disk}
  BY <1>1, <1>3, Rewritten DEF Inv
<1> QED  BY <1>3, <1>4

\* The end of a process forgets the cache.
LEMMA EndStep ==
    ASSUME Inv, ProcessEnds, UNCHANGED <<day, disk>>
    PROVE  Kept /\ Fresh'
<1>1. cache' = EmptyBook /\ mode' = "down"  BY DEF ProcessEnds
<1>2. Books'  BY <1>1, EmptyIsOK DEF Inv, Books
<1>3. FileBehind'  BY <1>1 DEF FileBehind
<1>4. Keeps(disk, disk', day)  BY CarriesItself, CarriesKeeps
<1>5. Fresh'  BY <1>1 DEF Fresh, Up
<1> QED  BY <1>2, <1>3, <1>4, <1>5 DEF Kept

\* A step that leaves the books alone.
LEMMA StillStep ==
    ASSUME Inv, UNCHANGED <<day, cache, disk>>, mode = "down" => mode' = "down",
           mode' = "trim" => mode = "trim", Up' => Up
    PROVE  Kept /\ Fresh'
<1>1. Kept  BY Untouched DEF Inv
<1>2. Fresh'  BY DEF Inv, Fresh
<1> QED  BY <1>1, <1>2

LEMMA TrimStep ==
    ASSUME Inv, Trim
    PROVE  /\ Kept /\ Fresh' /\ cache' = Trimmed /\ disk' = Trimmed
           /\ Value(Trimmed, day) = Value(cache, day)
           /\ \A e : Has(cache, e, day) => Has(Trimmed, e, day)
           /\ dailyPnl' = Result(Trimmed, day)
<1>1. mode = "trim" /\ mode' = "running" /\ day' = day /\ dailyPnl' = GetDailyPnl(Trimmed)
  BY DEF Trim
<1>2. disk = cache /\ cache.active = <<>> /\ day \in 1..MaxDays /\ BookOK(cache, day)
  BY <1>1 DEF Inv, Control, Books, Fresh
<1>3. cache' = Trimmed /\ disk' = Trimmed
  BY <1>2 DEF Trim, Saves, fileVars
<1>4. /\ BookOK(Trimmed, day) /\ AllRecent(Trimmed, day) /\ AllOf(Trimmed, day)
      /\ \A t \in ClosedOf(cache) : RecentOn(t, day) => t \in ClosedOf(Trimmed)
      /\ \A e : Has(cache, e, day) => Has(Trimmed, e, day)
      /\ GetDailyPnl(Trimmed) = Result(Trimmed, day)
      /\ Value(Trimmed, day) = Value(cache, day)
  BY <1>2, TrimFacts
<1>5. Books'  BY <1>1, <1>3, <1>4 DEF Books
<1>6. FileBehind'  BY <1>3, CarriesItself DEF FileBehind
<1>7. Keeps(disk, disk', day)
  <2>1. ActiveOf(disk) = {}  BY <1>2 DEF ActiveOf
  <2> QED  BY <1>2, <1>3, <1>4, <2>1 DEF Keeps
<1>8. Fresh'  BY <1>1, <1>3, <1>4 DEF Fresh
<1> QED  BY <1>1, <1>3, <1>4, <1>5, <1>6, <1>7, <1>8 DEF Kept

LEMMA BooksStep ==
    ASSUME Inv, Next
    PROVE  Kept /\ Fresh'
<1> USE DEF Up, fileVars
<1>1. /\ DOMAIN cache.active = 1..Len(cache.active) /\ Len(cache.active) \in Nat
      /\ at \in Nat /\ 1 <= at
  BY ActiveIndex DEF Inv, Control
<1>a. CASE Boot
  <2>1. mode = "down" /\ mode' = "reconcile" /\ cache' = disk /\ UNCHANGED <<day, disk>>
    BY <1>a DEF Boot
  <2>2. Books'  BY <2>1 DEF Inv, Books
  <2>3. FileBehind' /\ Keeps(disk, disk', day)
    BY <2>1, CarriesItself, CarriesKeeps DEF FileBehind
  <2>4. Fresh'  BY <2>1 DEF Fresh
  <2> QED  BY <2>2, <2>3, <2>4 DEF Kept
<1>b. CASE CarryOver  BY <1>b, StillStep DEF CarryOver
<1>c. CASE CloseStale
  <2>1. /\ mode = "reconcile" /\ mode' = mode /\ day' = day
        /\ at \in 1..Len(cache.active) /\ SavesOrNot(WithoutTrade(at, 0, "STALE"))
    BY <1>1, <1>c DEF CloseStale
  <2>2. 0 \in -1..2 /\ "STALE" \in {"CLOSED", "STALE", "EXPIRED"} /\ "STALE" # "CLOSED"
    OBVIOUS
  <2>3. Kept  BY <2>1, <2>2, CloseStep
  <2> QED  BY <2>1, <2>3 DEF Fresh
<1>d. CASE TradesChecked  BY <1>d, StillStep DEF TradesChecked
<1>e. CASE \E e \in Entries : RecoverFilled(e)
  <2>1. PICK e \in Entries : RecoverFilled(e)  BY <1>e
  <2>2. mode = "pending" /\ UNCHANGED <<mode, day>> /\ SavesOrNot(WithTrade(e))
    BY <2>1 DEF RecoverFilled
  <2>3. Kept  BY <2>2, AddStep
  <2> QED  BY <2>2, <2>3 DEF Fresh
<1>f. CASE \E e \in Entries : RecoverLive(e)  BY <1>f, StillStep DEF RecoverLive
<1>g. CASE \E e \in Entries : RecoverDead(e)  BY <1>g, StillStep DEF RecoverDead
<1>h. CASE \E e \in Entries : RecoverSkipped(e)  BY <1>h, StillStep DEF RecoverSkipped
<1>i. CASE PendingCleared  BY <1>i, StillStep DEF PendingCleared
<1>j. CASE ClearDay
  <2>1. mode = "clear" /\ mode' = "trim" /\ day' = day /\ Saves(DayCleared)
    BY <1>j DEF ClearDay
  <2>2. /\ BookOK(DayCleared, day) /\ Carries(cache, DayCleared)
        /\ DayCleared.active = <<>>
    BY ClearFacts DEF Inv, Control, Books
  <2>3. SavesOrNot(DayCleared)  BY <2>1 DEF SavesOrNot
  <2>4. Kept  BY <2>1, <2>2, <2>3, Rewritten DEF Inv
  <2>5. disk' = DayCleared /\ cache' = DayCleared  BY <2>1 DEF Saves
  <2> QED  BY <2>1, <2>2, <2>4, <2>5 DEF Fresh
<1>k. CASE Trim  BY <1>k, TrimStep
<1>l. CASE InitializeRaises  BY <1>l, EndStep DEF InitializeRaises
<1>m. CASE Send  BY <1>m, StillStep DEF Send, Trading
<1>n. CASE Record  BY <1>n, StillStep DEF Record, Inv, Control
<1>o. CASE Untrack  BY <1>o, StillStep DEF Untrack, Inv, Control
<1>p. CASE \E e \in Entries : Activate(e)
  <2>1. PICK e \in Entries : Activate(e)  BY <1>p
  <2>2. mode = "running" /\ UNCHANGED <<mode, day>> /\ SavesOrNot(WithTrade(e))
    BY <2>1 DEF Activate, Trading
  <2>3. Kept /\ AllRecent(cache', day) /\ AllOf(cache', day)  BY <2>2, AddStep
  <2> QED  BY <2>2, <2>3 DEF Fresh
<1>q. CASE \E e \in Entries : AbortEntry(e)  BY <1>q, StillStep DEF AbortEntry, Trading
<1>r. CASE \E e \in Entries : CancelEntry(e)  BY <1>r, StillStep DEF CancelEntry, Trading
<1>s. CASE \E i \in Entries : PartialExit(i)
  <2>1. PICK i \in Entries : PartialExit(i)  BY <1>s
  <2>2. /\ mode = "running" /\ UNCHANGED <<mode, day>> /\ i \in 1..Len(cache.active)
        /\ cache.active[i].partial = 0 /\ SavesOrNot(WithPartial(i))
    BY <1>1, <2>1 DEF PartialExit, Trading
  <2>3. Kept /\ AllRecent(cache', day) /\ AllOf(cache', day)  BY <2>2, PartialStep
  <2> QED  BY <2>2, <2>3 DEF Fresh
<1>t. CASE \E i \in Entries : \E final \in {-1, 1} : CloseTrade(i, final)
  <2>1. PICK i \in Entries, final \in {-1, 1} : CloseTrade(i, final)  BY <1>t
  <2>2. /\ mode = "running" /\ UNCHANGED <<mode, day>> /\ i \in 1..Len(cache.active)
        /\ SavesOrNot(WithoutTrade(i, TotalPnl(i, final), "CLOSED"))
    BY <1>1, <2>1 DEF CloseTrade, Trading
  <2>3. TotalPnl(i, final) \in -1..2  BY <2>2, TotalPnlIs DEF Inv
  <2>4. Kept /\ AllRecent(cache', day) /\ AllOf(cache', day)  BY <2>2, <2>3, CloseStep
  <2> QED  BY <2>2, <2>4 DEF Fresh
<1>u. CASE SqOffTime  BY <1>u, StillStep DEF SqOffTime
<1>v. CASE SqOffCleared  BY <1>v, StillStep DEF SqOffCleared
<1>w. CASE SessionEnds  BY <1>w, StillStep DEF SessionEnds
<1>x. CASE Exit  BY <1>x, EndStep DEF Exit
<1>y. CASE \E e \in Entries : SqOffActivate(e)
  <2>1. PICK e \in Entries : SqOffActivate(e)  BY <1>y
  <2>2. mode = "sqcancel" /\ UNCHANGED <<mode, day>> /\ SavesOrNot(WithTrade(e))
    BY <2>1 DEF SqOffActivate
  <2>3. Kept /\ AllRecent(cache', day) /\ AllOf(cache', day)  BY <2>2, AddStep
  <2> QED  BY <2>2, <2>3 DEF Fresh
<1>z. CASE \E e \in Entries : SqOffCancel(e)  BY <1>z, StillStep DEF SqOffCancel
<1>3. CASE \E final \in {-1, 1}, sold \in BOOLEAN : SquareOff(final, sold)
  <2>1. PICK final \in {-1, 1}, sold \in BOOLEAN : SquareOff(final, sold)  BY <1>3
  <2>2. /\ mode = "squareoff" /\ UNCHANGED <<mode, day>> /\ at \in 1..Len(cache.active)
        /\ Saves(WithoutTrade(at, TotalPnl(at, final), "CLOSED"))
    BY <1>1, <2>1 DEF SquareOff
  <2>3. TotalPnl(at, final) \in -1..2  BY <2>2, TotalPnlIs DEF Inv
  <2>4. SavesOrNot(WithoutTrade(at, TotalPnl(at, final), "CLOSED"))
    BY <2>2 DEF SavesOrNot
  <2>5. Kept /\ AllRecent(cache', day) /\ AllOf(cache', day)
    BY <2>2, <2>3, <2>4, CloseStep
  <2> QED  BY <2>2, <2>5 DEF Fresh
<1>4. CASE \E final \in {-1, 1}, sold \in BOOLEAN : SquareOffRaises(final, sold)
  <2>1. PICK final \in {-1, 1}, sold \in BOOLEAN : SquareOffRaises(final, sold)  BY <1>4
  <2>2. /\ mode = "squareoff" /\ mode' = "running" /\ day' = day
        /\ at \in 1..Len(cache.active)
        /\ SaveRaises(WithoutTrade(at, TotalPnl(at, final), "CLOSED"))
    BY <1>1, <2>1 DEF SquareOffRaises
  <2>3. TotalPnl(at, final) \in -1..2  BY <2>2, TotalPnlIs DEF Inv
  <2>4. SavesOrNot(WithoutTrade(at, TotalPnl(at, final), "CLOSED"))
    BY <2>2 DEF SavesOrNot
  <2>5. Kept /\ AllRecent(cache', day) /\ AllOf(cache', day)
    BY <2>2, <2>3, <2>4, CloseStep
  <2> QED  BY <2>2, <2>5 DEF Fresh
<1>5. CASE \E e \in Entries : BrokerFill(e) \/ BrokerExit(e)
  BY <1>5, StillStep DEF BrokerFill, BrokerExit
<1>7. CASE NewDay
  <2>1. mode = "down" /\ mode' = "down" /\ day' = day + 1 /\ UNCHANGED <<cache, disk>>
    BY <1>7 DEF NewDay
  <2>2. day \in Int /\ BookOK(cache, day) /\ BookOK(disk, day)
    BY Days DEF Inv, Control, Books
  <2>3. Books'  BY <2>1, <2>2, BookNextDay DEF Books
  <2>4. FileBehind' /\ Keeps(disk, disk', day)
    BY <2>1, CarriesItself, CarriesKeeps DEF FileBehind
  <2>5. Fresh'  BY <2>1 DEF Fresh
  <2> QED  BY <2>3, <2>4, <2>5 DEF Kept
<1>8. CASE Crash  BY <1>8, EndStep DEF Crash
<1> QED
  BY <1>a, <1>b, <1>c, <1>d, <1>e, <1>f, <1>g, <1>h, <1>i, <1>j, <1>k, <1>l, <1>m, <1>n,
     <1>o, <1>p, <1>q, <1>r, <1>s, <1>t, <1>u, <1>v, <1>w, <1>x, <1>y, <1>z,
     <1>3, <1>4, <1>5, <1>7, <1>8
  DEF Next, Startup, Session, SessionEnd

-----------------------------------------------------------------------------
(* Trade ids, and what the file keeps.                                     *)

\* The lines of AllTrades(b), at index i: the active trades, then the closed ones.
Listing(b, n, m) ==
    /\ DOMAIN AllTrades(b) = 1..(n + m)
    /\ \A i \in 1..(n + m) :
         \/ i \in 1..n /\ AllTrades(b)[i] = b.active[i]
         \/ i - n \in 1..m /\ AllTrades(b)[i] = b.closed[i - n]
    /\ \A i \in 1..n : i \in 1..(n + m) /\ AllTrades(b)[i] = b.active[i]
    /\ \A i \in 1..m : i + n \in 1..(n + m) /\ AllTrades(b)[i + n] = b.closed[i]

LEMMA AllTradesIs ==
    ASSUME NEW b \in Book
    PROVE  Listing(b, Len(b.active), Len(b.closed))
<1> DEFINE A == b.active
           B == b.closed
           n == Len(A)
           m == Len(B)
           C == A \o B
<1>1. A \in Seq(Trade) /\ B \in Seq(Trade) /\ n \in Nat /\ m \in Nat  BY BookParts
<1>2. AllTrades(b) = C  BY DEF AllTrades
<1>3. Len(C) = n + m /\ DOMAIN C = 1..(n + m)  BY <1>1
<1>4. \A i \in 1..(n + m) : C[i] = IF i <= n THEN A[i] ELSE B[i - n]  BY <1>1
<1> HIDE DEF A, B, C, n, m
<1>5. ASSUME NEW i \in 1..(n + m)
      PROVE  \/ i \in 1..n /\ C[i] = A[i]
             \/ i - n \in 1..m /\ C[i] = B[i - n]
  <2>1. CASE i <= n
    <3>1. i \in 1..n  BY <1>1, <2>1
    <3>2. C[i] = A[i]  BY <1>4, <2>1
    <3> QED  BY <3>1, <3>2
  <2>2. CASE i > n
    <3>1. i - n \in 1..m  BY <1>1, <2>2
    <3>2. C[i] = B[i - n]  BY <1>1, <1>4, <2>2
    <3> QED  BY <3>1, <3>2
  <2>3. i <= n \/ i > n  BY <1>1
  <2> QED  BY <2>1, <2>2, <2>3
<1>6. ASSUME NEW i \in 1..n PROVE i \in 1..(n + m) /\ C[i] = A[i]  BY <1>1, <1>4
<1>7. ASSUME NEW i \in 1..m PROVE i + n \in 1..(n + m) /\ C[i + n] = B[i]  BY <1>1, <1>4
<1> QED  BY <1>1, <1>2, <1>3, <1>5, <1>6, <1>7 DEF Listing, A, B, n, m

\* The trades of a book are the elements of AllTrades.
LEMMA LineIsAt ==
    ASSUME NEW b \in Book, NEW t
    PROVE  t \in Lines(b) <=> \E i \in DOMAIN AllTrades(b) : AllTrades(b)[i] = t
<1> DEFINE n == Len(b.active)
           m == Len(b.closed)
<1>1. Listing(b, n, m)  BY AllTradesIs
<1>2. ActiveOf(b) = {b.active[i] : i \in 1..n} /\ ClosedOf(b) = {b.closed[i] : i \in 1..m}
  BY DEF ActiveOf, ClosedOf
<1> HIDE DEF n, m
<1>3. ASSUME t \in Lines(b) PROVE \E i \in DOMAIN AllTrades(b) : AllTrades(b)[i] = t
  <2>1. CASE t \in ActiveOf(b)
    <3>1. PICK k \in 1..n : b.active[k] = t  BY <1>2, <2>1
    <3>2. k \in DOMAIN AllTrades(b) /\ AllTrades(b)[k] = t  BY <1>1, <3>1 DEF Listing
    <3> QED  BY <3>2
  <2>2. CASE t \in ClosedOf(b)
    <3>1. PICK k \in 1..m : b.closed[k] = t  BY <1>2, <2>2
    <3>2. k + n \in DOMAIN AllTrades(b) /\ AllTrades(b)[k + n] = t
      BY <1>1, <3>1 DEF Listing
    <3> QED  BY <3>2
  <2> QED  BY <1>3, <2>1, <2>2 DEF Lines
<1>4. ASSUME NEW i \in DOMAIN AllTrades(b), AllTrades(b)[i] = t PROVE t \in Lines(b)
  <2>1. i \in 1..(n + m)  BY <1>1 DEF Listing
  <2>2. CASE i \in 1..n /\ AllTrades(b)[i] = b.active[i]
    BY <1>2, <1>4, <2>2 DEF Lines
  <2>3. CASE i - n \in 1..m /\ AllTrades(b)[i] = b.closed[i - n]
    BY <1>2, <1>4, <2>3 DEF Lines
  <2> QED  BY <1>1, <2>1, <2>2, <2>3 DEF Listing
<1> QED  BY <1>3, <1>4

LEMMA NoClashIs ==
    ASSUME NEW b \in Book, NoClash(b),
           NEW i \in DOMAIN AllTrades(b), NEW j \in DOMAIN AllTrades(b), i # j
    PROVE  ~Clash(AllTrades(b)[i], AllTrades(b)[j])
<1> DEFINE A == b.active
           B == b.closed
           C == AllTrades(b)
           n == Len(A)
           m == Len(B)
<1>1. /\ n \in Nat /\ m \in Nat /\ i \in Int /\ j \in Int
      /\ \/ i \in 1..n /\ C[i] = A[i]
         \/ i - n \in 1..m /\ C[i] = B[i - n]
      /\ \/ j \in 1..n /\ C[j] = A[j]
         \/ j - n \in 1..m /\ C[j] = B[j - n]
  <2>1. m \in Nat  BY BookParts
  <2>2. n \in Nat /\ DOMAIN C = 1..(n + m)  BY BookParts, AllTradesIs DEF Listing
  <2>3. i \in 1..(n + m) /\ j \in 1..(n + m)  BY <2>2
  <2>4. i \in Int /\ j \in Int  BY <2>1, <2>2, <2>3
  <2>5. Listing(b, n, m)  BY AllTradesIs
  <2> HIDE DEF n, m
  <2>6. \/ i \in 1..n /\ AllTrades(b)[i] = b.active[i]
        \/ i - n \in 1..m /\ AllTrades(b)[i] = b.closed[i - n]
    BY <2>3, <2>5 DEF Listing
  <2>7. \/ j \in 1..n /\ AllTrades(b)[j] = b.active[j]
        \/ j - n \in 1..m /\ AllTrades(b)[j] = b.closed[j - n]
    BY <2>3, <2>5 DEF Listing
  <2> QED  BY <2>1, <2>2, <2>4, <2>6, <2>7
<1>2. /\ \A k, l \in 1..n : k # l => ~Clash(A[k], A[l])
      /\ \A k, l \in 1..m : k # l => ~Clash(B[k], B[l])
      /\ \A k \in 1..n, l \in 1..m : ~Clash(A[k], B[l])
  BY DEF NoClash
<1>3. \A v, w : Clash(v, w) => Clash(w, v)  BY DEF Clash
<1> HIDE DEF A, B, C, n, m
<1>4. ~Clash(C[i], C[j])
  <2>1. i - n # j - n  BY <1>1
  <2> QED  BY <1>1, <1>2, <1>3, <2>1
<1> QED  BY <1>4 DEF C

LEMMA Typed == Control /\ Books => TypeOK
<1> SUFFICES ASSUME Control, Books PROVE TypeOK  OBVIOUS
<1>1. ASSUME NEW b \in {cache, disk}
      PROVE  /\ b \in Book
             /\ \A i \in DOMAIN b.active : b.active[i].status = "OPEN"
             /\ \A i \in DOMAIN b.closed : b.closed[i].status # "OPEN"
  <2>1. BookOK(b, day)  BY DEF Books
  <2>2. DOMAIN b.active = 1..Len(b.active) /\ DOMAIN b.closed = 1..Len(b.closed)
    <3>1. b.active \in Seq(Trade) /\ b.closed \in Seq(Trade)  BY <2>1, BookParts DEF BookOK
    <3> QED  BY <3>1
  <2> QED  BY <2>1, <2>2 DEF BookOK, ActiveOf, ClosedOf
<1>2. {live, filled, held, excused} \subseteq SUBSET Entries
  <2>1. 1..sent \subseteq Entries  BY Bounds DEF Control, Entries
  <2>2. live \subseteq 1..sent /\ filled \subseteq 1..sent /\ held \subseteq filled
    BY DEF Control
  <2> QED  BY <2>1, <2>2 DEF Control
<1>3. {dailyPnl, booked} \subseteq Int  BY DEF Control
<1> QED  BY <1>1, <1>2, <1>3 DEF TypeOK, Control

LEMMA Identified == Inv => UniqueIds
<1> SUFFICES ASSUME Inv PROVE UniqueIds  OBVIOUS
<1>1. TypeOK  BY Typed DEF Inv
<1>2. ASSUME NEW b \in {cache, disk},
             NEW i \in DOMAIN AllTrades(b), NEW j \in DOMAIN AllTrades(b), i # j
      PROVE  ~Clash(AllTrades(b)[i], AllTrades(b)[j])
  <2>1. b \in Book /\ NoClash(b)  BY DEF Inv, Books, BookOK
  <2> QED  BY <1>2, <2>1, NoClashIs
<1> QED  BY <1>1, <1>2 DEF UniqueIds, Clash

LEMMA Started == Init => Inv
<1> SUFFICES ASSUME Init PROVE Inv  OBVIOUS
<1>1. cache = EmptyBook /\ disk = EmptyBook /\ mode = "down" /\ day = 1  BY DEF Init
<1>2. Control
  <2>1. 1 \in 1..MaxDays /\ 0 \in 0..MaxCrashes /\ 0 \in 0..MaxFaults /\ 0 \in 0..MaxEntries
    BY Bounds
  <2>2. 0 \in Int /\ 1 \in Nat \ {0}  OBVIOUS
  <2> QED  BY <2>1, <2>2 DEF Init, Control, Modes
<1>3. Books  BY <1>1, EmptyIsOK DEF Books
<1>4. Fresh /\ FileBehind  BY <1>1 DEF Fresh, FileBehind, Up
<1> QED  BY <1>2, <1>3, <1>4 DEF Inv

LEMMA Stutter ==
    ASSUME Inv, UNCHANGED vars
    PROVE  Inv' /\ Keeps(disk, disk', day)
<1>1. UNCHANGED <<day, cache, disk, mode>>  BY DEF vars, fileVars
<1>2. Control'
  BY DEF Inv, Control, vars, fileVars, pendVars, loopVars, brokerVars, ghostVars
<1>3. Kept  BY <1>1, Untouched DEF Inv
<1>4. Fresh'  BY <1>1 DEF Inv, Fresh, Up
<1> QED  BY <1>2, <1>3, <1>4 DEF Inv, Kept

LEMMA Preserved == Inv /\ [Next]_vars => Inv' /\ Keeps(disk, disk', day)
<1> SUFFICES ASSUME Inv, [Next]_vars PROVE Inv' /\ Keeps(disk, disk', day)  OBVIOUS
<1>1. CASE Next  BY <1>1, ControlStep, BooksStep DEF Inv, Kept
<1>2. CASE UNCHANGED vars  BY <1>2, Stutter
<1> QED  BY <1>1, <1>2

LEMMA KeepsIs ==
    ASSUME disk \in Book, disk' \in Book, day \in 1..MaxDays, Keeps(disk, disk', day)
    PROVE  KeepsClosed /\ KeepsActive
<1>1. /\ DOMAIN disk.active = 1..Len(disk.active) /\ DOMAIN disk.closed = 1..Len(disk.closed)
      /\ DOMAIN disk'.closed = 1..Len(disk'.closed)
  <2>1. disk.active \in Seq(Trade) /\ disk.closed \in Seq(Trade) /\ disk'.closed \in Seq(Trade)
    BY BookParts
  <2> QED  BY <2>1
<1>2. ASSUME NEW i \in DOMAIN disk.closed, Recent(disk.closed[i])
      PROVE  \E j \in DOMAIN disk'.closed : disk'.closed[j] = disk.closed[i]
  <2>1. disk.closed[i] \in ClosedOf(disk)  BY <1>1 DEF ClosedOf
  <2>2. RecentOn(disk.closed[i], day)  BY <1>2, RecentIs
  <2>3. disk.closed[i] \in ClosedOf(disk')  BY <2>1, <2>2 DEF Keeps
  <2> QED  BY <1>1, <2>3 DEF ClosedOf
<1>3. ASSUME NEW i \in DOMAIN disk.active
      PROVE  \E j \in DOMAIN AllTrades(disk') :
                SameTrade(AllTrades(disk')[j], disk.active[i])
  <2>1. disk.active[i] \in ActiveOf(disk)  BY <1>1 DEF ActiveOf
  <2>2. PICK u \in Lines(disk') : SameTrade(u, disk.active[i])  BY <2>1 DEF Keeps
  <2>3. PICK j \in DOMAIN AllTrades(disk') : AllTrades(disk')[j] = u  BY LineIsAt
  <2> QED  BY <2>2, <2>3
<1> QED  BY <1>2, <1>3 DEF KeepsClosed, KeepsActive

\* No two trades that a session opened share a trade_id, in memory or on file:
\* add_active_trade numbers by counting records, and trimming lowers the count.
THEOREM IdsAreUnique == Spec => []UniqueIds
<1>1. Inv /\ [Next]_vars => Inv'  BY Preserved
<1> QED  BY <1>1, Started, Identified, PTL DEF Spec

\* Across crashes and failed writes bot_trades.json forgets no trade younger than
\* keep_days, and never reopens or revalues one it recorded as closed.
THEOREM FileRemembers == Spec => FileForgetsNothing
<1>1. Inv /\ [Next]_vars => Inv'  BY Preserved
<1>2. Inv /\ [Next]_vars => [KeepsClosed /\ KeepsActive]_vars
  <2> SUFFICES ASSUME Inv, [Next]_vars PROVE KeepsClosed /\ KeepsActive  OBVIOUS
  <2>1. Inv' /\ Keeps(disk, disk', day)  BY Preserved
  <2>2. disk \in Book /\ day \in 1..MaxDays  BY DEF Inv, Books, BookOK, Control
  <2>3. disk' \in Book  BY <2>1 DEF Inv, Books, BookOK
  <2> QED  BY <2>1, <2>2, <2>3, KeepsIs
<1> QED  BY <1>1, <1>2, Started, PTL DEF Spec, FileForgetsNothing

-----------------------------------------------------------------------------
(* The day's result.                                                       *)

\* daily_pnl is the result in the cache; the day's bookings are the value of the
\* cache, and at startup of the file as well.
Valued ==
    /\ Up => dailyPnl = Result(cache, day)
    /\ ~unsaved /\ mode # "down" => booked = Value(cache, day)
    /\ ~unsaved /\ ~Up => booked = Value(disk, day)

LEMMA ValuedStill ==
    ASSUME Valued, UNCHANGED <<day, cache, disk, dailyPnl, booked, unsaved>>,
           mode = "down" => mode' = "down", Up' <=> Up
    PROVE  Valued'
BY DEF Valued

\* A startup rewrites the book at the same value.
LEMMA ValuedAtStartup ==
    ASSUME Inv, Valued, ~Up, ~Up', mode # "down", UNCHANGED <<day, booked, unsaved>>,
           NEW c, cache' = c, disk' \in {c, disk}, Value(c, day) = Value(cache, day)
    PROVE  Valued'
BY DEF Valued

\* The session books x, in memory and in the book.
LEMMA ValuedInSession ==
    ASSUME Inv, Valued, Up, Up', UNCHANGED <<day, unsaved>>,
           NEW c, NEW x \in Int, cache' = c,
           Result(c, day) = Result(cache, day) + x, Value(c, day) = Value(cache, day) + x,
           dailyPnl' = dailyPnl + x, booked' = booked + x
    PROVE  Valued'
<1>1. mode # "down"  BY DEF Up
<1>2. dailyPnl' = Result(cache', day')  BY DEF Valued
<1>3. ~unsaved' => booked' = Value(cache', day')  BY <1>1 DEF Valued
<1> QED  BY <1>2, <1>3 DEF Valued

LEMMA AddValue ==
    ASSUME Inv, NEW e \in Entries
    PROVE  /\ Result(WithTrade(e), day) = Result(cache, day)
           /\ Value(WithTrade(e), day) = Value(cache, day)
BY AddFacts DEF Inv, Control, Books

LEMMA AddValued ==
    ASSUME Inv, Valued, Up, Up', UNCHANGED <<day, unsaved, dailyPnl, booked>>,
           NEW e \in Entries, SavesOrNot(WithTrade(e))
    PROVE  Valued'
<1>1. cache' = WithTrade(e)  BY DEF SavesOrNot, Saves, SaveRaises
<1>2. /\ Result(WithTrade(e), day) = Result(cache, day)
      /\ Value(WithTrade(e), day) = Value(cache, day)
  BY AddValue
<1>3. mode # "down"  BY DEF Up
<1> QED  BY <1>1, <1>2, <1>3 DEF Valued

LEMMA CloseValued ==
    ASSUME Inv, Valued, Up, Up', UNCHANGED <<day, unsaved>>,
           NEW i \in 1..Len(cache.active), NEW final \in {-1, 1},
           SavesOrNot(WithoutTrade(i, TotalPnl(i, final), "CLOSED")),
           dailyPnl' = dailyPnl + final, booked' = booked + final
    PROVE  Valued'
<1> DEFINE c == WithoutTrade(i, TotalPnl(i, final), "CLOSED")
           p == cache.active[i].partial
           total == TotalPnl(i, final)
<1>1. cache' = c  BY DEF SavesOrNot, Saves, SaveRaises
<1>2. total \in -1..2 /\ p \in Int /\ total = final + p /\ final \in Int
  BY TotalPnlIs DEF Inv
<1>3. cache.active[i].day = day /\ AllRecent(cache, day)
  BY ActiveIndex DEF Inv, Fresh, AllOf
<1>4. day \in 1..MaxDays /\ BookOK(cache, day) /\ cache \in Book
  BY DEF Inv, Control, Books, BookOK
<1>5. /\ Result(c, day) = Result(cache, day) + total - p
      /\ Value(c, day) = Value(cache, day) + total - p
  BY <1>2, <1>3, <1>4, CloseFacts
<1>6. Result(cache, day) \in Int /\ Value(cache, day) \in Int  BY <1>4, ValuesAreInt
<1> HIDE DEF c, p, total
<1>7. Result(c, day) = Result(cache, day) + final /\ Value(c, day) = Value(cache, day) + final
  BY <1>2, <1>5, <1>6
<1> QED  BY <1>1, <1>2, <1>7, ValuedInSession

LEMMA ValuedStep ==
    ASSUME Inv, Valued, Next
    PROVE  Valued'
<1>1. /\ DOMAIN cache.active = 1..Len(cache.active) /\ at \in Nat /\ 1 <= at
      /\ day \in 1..MaxDays /\ BookOK(cache, day)
  BY ActiveIndex DEF Inv, Control, Books
<1> USE DEF Up, fileVars, ghostVars
<1>a. CASE Boot  BY <1>a DEF Boot, Valued
<1>b. CASE CarryOver  BY <1>b, ValuedStill DEF CarryOver
<1>c. CASE CloseStale
  <2>1. /\ mode = "reconcile" /\ UNCHANGED <<mode, day, booked, unsaved>>
        /\ at \in 1..Len(cache.active) /\ SavesOrNot(WithoutTrade(at, 0, "STALE"))
    BY <1>1, <1>c DEF CloseStale
  <2>2. 0 \in -1..2 /\ "STALE" \in {"CLOSED", "STALE", "EXPIRED"} /\ "STALE" # "CLOSED"
    OBVIOUS
  <2>3. Value(WithoutTrade(at, 0, "STALE"), day) = Value(cache, day)
    BY <1>1, <2>1, <2>2, CloseFacts
  <2>4. /\ cache' = WithoutTrade(at, 0, "STALE")
        /\ disk' \in {WithoutTrade(at, 0, "STALE"), disk}
    BY <2>1 DEF SavesOrNot, Saves, SaveRaises
  <2> QED  BY <2>1, <2>3, <2>4, ValuedAtStartup
<1>d. CASE TradesChecked  BY <1>d, ValuedStill DEF TradesChecked, loopVars
<1>e. CASE \E e \in Entries : RecoverFilled(e)
  <2>1. PICK e \in Entries : RecoverFilled(e)  BY <1>e
  <2>2. /\ mode = "pending" /\ UNCHANGED <<mode, day, booked, unsaved>>
        /\ SavesOrNot(WithTrade(e))
    BY <2>1 DEF RecoverFilled
  <2>3. Value(WithTrade(e), day) = Value(cache, day)  BY AddValue
  <2>4. cache' = WithTrade(e) /\ disk' \in {WithTrade(e), disk}
    BY <2>2 DEF SavesOrNot, Saves, SaveRaises
  <2> QED  BY <2>2, <2>3, <2>4, ValuedAtStartup
<1>f. CASE \E e \in Entries : RecoverLive(e)  BY <1>f, ValuedStill DEF RecoverLive
<1>g. CASE \E e \in Entries : RecoverDead(e)  BY <1>g, ValuedStill DEF RecoverDead
<1>h. CASE \E e \in Entries : RecoverSkipped(e)  BY <1>h, ValuedStill DEF RecoverSkipped
<1>i. CASE PendingCleared  BY <1>i, ValuedStill DEF PendingCleared
<1>j. CASE ClearDay
  <2>1. /\ mode = "clear" /\ mode' = "trim" /\ UNCHANGED <<day, booked, unsaved>>
        /\ cache' = DayCleared /\ disk' = DayCleared
    BY <1>j DEF ClearDay, Saves
  <2>2. Value(DayCleared, day) = Value(cache, day)  BY <1>1, ClearFacts
  <2> QED  BY <2>1, <2>2, ValuedAtStartup
<1>k. CASE Trim
  <2>1. mode = "trim" /\ mode' = "running" /\ UNCHANGED <<day, booked, unsaved>>
    BY <1>k DEF Trim
  <2>2. /\ cache' = Trimmed /\ Value(Trimmed, day) = Value(cache, day)
        /\ dailyPnl' = Result(Trimmed, day)
    BY <1>k, TrimStep
  <2> QED  BY <2>1, <2>2 DEF Valued
<1>l. CASE InitializeRaises
  BY <1>l DEF InitializeRaises, ProcessEnds, Valued
<1>m. CASE Send  BY <1>m, ValuedStill DEF Send
<1>n. CASE Record  BY <1>n, ValuedStill DEF Record
<1>o. CASE Untrack  BY <1>o, ValuedStill DEF Untrack
<1>p. CASE \E e \in Entries : Activate(e)
  <2>1. PICK e \in Entries : Activate(e)  BY <1>p
  <2>2. /\ mode = "running" /\ UNCHANGED <<mode, day, unsaved, dailyPnl, booked>>
        /\ SavesOrNot(WithTrade(e))
    BY <2>1 DEF Activate, Trading
  <2> QED  BY <2>2, AddValued
<1>q. CASE \E e \in Entries : AbortEntry(e)  BY <1>q, ValuedStill DEF AbortEntry
<1>r. CASE \E e \in Entries : CancelEntry(e)  BY <1>r, ValuedStill DEF CancelEntry
<1>s. CASE \E i \in Entries : PartialExit(i)
  <2>1. PICK i \in Entries : PartialExit(i)  BY <1>s
  <2>2. /\ mode = "running" /\ UNCHANGED <<mode, day, unsaved>>
        /\ i \in 1..Len(cache.active)
        /\ cache.active[i].partial = 0 /\ SavesOrNot(WithPartial(i))
        /\ dailyPnl' = dailyPnl + 1 /\ booked' = booked + 1
    BY <1>1, <2>1 DEF PartialExit, Trading
  <2>3. cache.active[i].day = day
    BY <2>2, ActiveIndex DEF Inv, Fresh, AllOf
  <2>4. /\ Result(WithPartial(i), day) = Result(cache, day) + 1
        /\ Value(WithPartial(i), day) = Value(cache, day) + 1
    BY <1>1, <2>2, <2>3, PartialFacts
  <2>5. cache' = WithPartial(i)  BY <2>2 DEF SavesOrNot, Saves, SaveRaises
  <2>6. 1 \in Int  OBVIOUS
  <2> QED  BY <2>2, <2>4, <2>5, <2>6, ValuedInSession
<1>t. CASE \E i \in Entries : \E final \in {-1, 1} : CloseTrade(i, final)
  <2>1. PICK i \in Entries, final \in {-1, 1} : CloseTrade(i, final)  BY <1>t
  <2>2. /\ mode = "running" /\ UNCHANGED <<mode, day, unsaved>>
        /\ i \in 1..Len(cache.active)
        /\ SavesOrNot(WithoutTrade(i, TotalPnl(i, final), "CLOSED"))
        /\ dailyPnl' = dailyPnl + final /\ booked' = booked + final
    BY <1>1, <2>1 DEF CloseTrade, Trading
  <2> QED  BY <2>2, CloseValued
<1>u. CASE SqOffTime  BY <1>u, ValuedStill DEF SqOffTime
<1>v. CASE SqOffCleared  BY <1>v, ValuedStill DEF SqOffCleared
<1>w. CASE SessionEnds  BY <1>w, ValuedStill DEF SessionEnds
<1>x. CASE Exit  BY <1>x DEF Exit, ProcessEnds, Valued
<1>y. CASE \E e \in Entries : SqOffActivate(e)
  <2>1. PICK e \in Entries : SqOffActivate(e)  BY <1>y
  <2>2. /\ mode = "sqcancel" /\ UNCHANGED <<mode, day, unsaved, dailyPnl, booked>>
        /\ SavesOrNot(WithTrade(e))
    BY <2>1 DEF SqOffActivate
  <2> QED  BY <2>2, AddValued
<1>z. CASE \E e \in Entries : SqOffCancel(e)  BY <1>z, ValuedStill DEF SqOffCancel
<1>3. CASE \E final \in {-1, 1}, sold \in BOOLEAN :
              SquareOff(final, sold) \/ SquareOffRaises(final, sold)
  <2>1. PICK final \in {-1, 1}, sold \in BOOLEAN :
               SquareOff(final, sold) \/ SquareOffRaises(final, sold)
    BY <1>3
  <2>2. /\ mode = "squareoff" /\ mode' \in {"squareoff", "running"}
        /\ UNCHANGED <<day, unsaved>> /\ at \in 1..Len(cache.active)
        /\ dailyPnl' = dailyPnl + final /\ booked' = booked + final
    BY <1>1, <2>1 DEF SquareOff, SquareOffRaises
  <2>3. SavesOrNot(WithoutTrade(at, TotalPnl(at, final), "CLOSED"))
    BY <2>1 DEF SquareOff, SquareOffRaises, SavesOrNot
  <2> QED  BY <2>2, <2>3, CloseValued
<1>5. CASE \E e \in Entries : BrokerFill(e) \/ BrokerExit(e)
  BY <1>5, ValuedStill DEF BrokerFill, BrokerExit
<1>7. CASE NewDay
  <2>1. mode = "down" /\ mode' = "down" /\ day' = day + 1 /\ disk' = disk /\ booked' = 0
    BY <1>7 DEF NewDay
  <2>2. day \in Int /\ BookOK(disk, day)
    BY Days DEF Inv, Control, Books
  <2>3. Value(disk, day + 1) = 0  BY <2>2, BookNextDay
  <2> QED  BY <2>1, <2>3 DEF Valued
<1>8. CASE Crash  BY <1>8 DEF Crash, ProcessEnds, Valued
<1> QED
  BY <1>a, <1>b, <1>c, <1>d, <1>e, <1>f, <1>g, <1>h, <1>i, <1>j, <1>k, <1>l, <1>m, <1>n,
     <1>o, <1>p, <1>q, <1>r, <1>s, <1>t, <1>u, <1>v, <1>w, <1>x, <1>y, <1>z,
     <1>3, <1>5, <1>7, <1>8
  DEF Next, Startup, Session, SessionEnd

LEMMA ValuedStarted == Init => Valued
<1> SUFFICES ASSUME Init PROVE Valued  OBVIOUS
<1>1. disk = EmptyBook /\ mode = "down" /\ booked = 0 /\ day = 1  BY DEF Init
<1>2. EmptyBook.active = <<>> /\ EmptyBook.closed = <<>>  BY DEF EmptyBook
<1>3. Value(EmptyBook, 1) = 0
  BY <1>2, Weights, WorthOfEmpty DEF Value, Result
<1> QED  BY <1>1, <1>3 DEF Valued, Up

LEMMA ValuedShows == Inv /\ Valued => PnlSurvives
<1> SUFFICES ASSUME Inv, Valued, Up, ~unsaved PROVE booked = dailyPnl + LostPartials(cache)
  BY DEF PnlSurvives
<1>1. cache \in Book /\ mode # "down"  BY DEF Inv, Books, BookOK, Up
<1>2. LostPartials(cache) = Worth(LostOn(day), cache.closed)  BY <1>1, LostPartialsIs
<1> QED  BY <1>1, <1>2 DEF Valued, Value

\* Unless a crash lost a write that had failed, daily_pnl is what the day's
\* processes booked, less the partial profits of trades that startups gave up.
THEOREM ResultSurvives == Spec => []PnlSurvives
<1>1. Inv /\ [Next]_vars => Inv'  BY Preserved
<1>2. Inv /\ Valued /\ [Next]_vars => Valued'
  <2> SUFFICES ASSUME Inv, Valued, [Next]_vars PROVE Valued'  OBVIOUS
  <2>1. CASE Next  BY <2>1, ValuedStep
  <2>2. CASE UNCHANGED vars
    BY <2>2, ValuedStill DEF vars, fileVars, ghostVars, Up
  <2> QED  BY <2>1, <2>2
<1> QED  BY <1>1, <1>2, Started, ValuedStarted, ValuedShows, PTL DEF Spec

-----------------------------------------------------------------------------
(* Positions and their records.                                            *)

\* Where the record of entry e is, when the process is where it is.
Covered(e) ==
    /\ mode = "down" => e \in pendDisk \/ Has(disk, e, day)
    /\ mode \in {"reconcile", "pending"} =>
         /\ e \in pendDisk \/ Has(cache, e, day)
         /\ e \in queue \cup pend \/ Has(cache, e, day)
    /\ mode \in {"clear", "trim"} => e \in pend \/ Has(cache, e, day)
    /\ mode = "running" =>
         e \in pend \/ Has(cache, e, day) \/ (doing = "sent" /\ e = entry)
    /\ mode = "sqcancel" => e \in queue \/ Has(cache, e, day)
    /\ mode \in {"squareoff", "ended"} => Has(cache, e, day)

\* As long as no write failed, every order that can fill and every open position
\* is known, or excused; with what the lists of entries hold between two writes.
Tracked ==
    faults = 0 =>
      /\ mode # "down" => cache = disk
      /\ \A e \in held \cup live : e \in excused \/ Covered(e)
      /\ mode \in {"reconcile", "pending"} => pend \cup queue \subseteq pendDisk
      /\ mode = "reconcile" => queue = pendDisk
      /\ mode \in {"running", "sqcancel"} => pend \subseteq pendDisk \cup resumed
      /\ mode = "sqcancel" => queue \subseteq pend
      /\ doing = "activated" => entry \in excused \/ Has(cache, entry, day)

\* As long as no write failed, what is saved is on file.
LEMMA NoFault ==
    ASSUME faults \in 0..MaxFaults, faults' = 0
    PROVE  /\ \A c : SavesOrNot(c) => faults = 0 /\ cache' = c /\ disk' = c
           /\ \A c : Saves(c) => faults = 0 /\ cache' = c /\ disk' = c
           /\ \A c : ~SaveRaises(c)
           /\ \A S : SavesPending(S) => faults = 0 /\ pendDisk' = S
<1>1. faults \in Nat  BY Bounds
<1>2. faults' # faults + 1  BY <1>1
<1> QED  BY <1>2 DEF SavesOrNot, Saves, SaveRaises, SavesPending

LEMMA AddHas ==
    ASSUME Inv, NEW e \in Entries
    PROVE  /\ \A x : Has(cache, x, day) => Has(WithTrade(e), x, day)
           /\ Has(WithTrade(e), e, day)
<1>1. day \in 1..MaxDays /\ BookOK(cache, day)  BY DEF Inv, Control, Books
<1>2. Carries(cache, WithTrade(e)) /\ Has(WithTrade(e), e, day)  BY <1>1, AddFacts
<1> QED  BY <1>2, HasStays

LEMMA CloseHas ==
    ASSUME Inv, NEW i \in 1..Len(cache.active), NEW pnl \in -1..2,
           NEW status \in {"CLOSED", "STALE", "EXPIRED"}, status = "CLOSED" => Up,
           NEW x, Has(cache, x, day)
    PROVE  Has(WithoutTrade(i, pnl, status), x, day)
<1> DEFINE c == WithoutTrade(i, pnl, status)
<1>1. day \in 1..MaxDays /\ BookOK(cache, day)  BY DEF Inv, Control, Books
<1>2. status = "CLOSED" => AllRecent(cache, day)  BY DEF Inv, Fresh
<1>3. Carries(cache, c)  BY <1>1, <1>2, CloseFacts
<1> HIDE DEF c
<1>4. Has(c, x, day)  BY <1>3, HasStays
<1> QED  BY <1>4 DEF c

LEMMA PartialHas ==
    ASSUME Inv, Up, NEW i \in 1..Len(cache.active), cache.active[i].partial = 0,
           NEW x, Has(cache, x, day)
    PROVE  Has(WithPartial(i), x, day)
<1>1. day \in 1..MaxDays /\ BookOK(cache, day)  BY DEF Inv, Control, Books
<1>2. cache.active[i].day = day  BY ActiveIndex DEF Inv, Fresh, AllOf
<1>3. Carries(cache, WithPartial(i))  BY <1>1, <1>2, PartialFacts
<1> QED  BY <1>3, HasStays

\* The book is rewritten, and nothing else that matters here changes.
LEMMA TrackedBooks ==
    ASSUME Tracked, faults = 0, cache' = disk',
           \A x : Has(cache, x, day) => Has(cache', x, day),
           day' = day, mode # "down",
           mode' = mode, UNCHANGED <<pend, pendDisk, resumed, queue, doing, entry, live,
                                     excused>>,
           held' \subseteq held
    PROVE  Tracked'
BY DEF Tracked, Covered

LEMMA TrackedStep ==
    ASSUME Inv, Tracked, Next, faults' = 0
    PROVE  Tracked'
<1>1. /\ DOMAIN cache.active = 1..Len(cache.active) /\ at \in Nat /\ 1 <= at
      /\ day \in 1..MaxDays /\ BookOK(cache, day)
  BY ActiveIndex DEF Inv, Control, Books
<1>2. /\ \A c : SavesOrNot(c) => faults = 0 /\ cache' = c /\ disk' = c
      /\ \A c : Saves(c) => faults = 0 /\ cache' = c /\ disk' = c
      /\ \A c : ~SaveRaises(c)
      /\ \A S : SavesPending(S) => faults = 0 /\ pendDisk' = S
  BY NoFault DEF Inv, Control
<1>3. /\ mode = "down" => pend = {} /\ resumed = {}
      /\ mode \in {"reconcile", "pending", "clear", "trim"} => pend = resumed
      /\ doing # "idle" => mode = "running"
      /\ held \subseteq filled /\ live \cap filled = {} /\ resumed \subseteq pend
      /\ mode \in Modes
  BY DEF Inv, Control
<1> USE DEF Up, fileVars, ghostVars, pendVars, loopVars, brokerVars, Modes
<1>a. CASE Boot  BY <1>3, <1>a DEF Boot, Tracked, Covered
<1>b. CASE CarryOver  BY <1>b DEF CarryOver, Tracked, Covered
<1>c. CASE CloseStale
  <2>1. /\ mode = "reconcile" /\ at \in 1..Len(cache.active)
        /\ cache' = WithoutTrade(at, 0, "STALE") /\ disk' = cache' /\ faults = 0
    BY <1>1, <1>2, <1>c DEF CloseStale
  <2>2. 0 \in -1..2 /\ "STALE" \in {"CLOSED", "STALE", "EXPIRED"} /\ "STALE" # "CLOSED"
    OBVIOUS
  <2>3. \A x : Has(cache, x, day) => Has(cache', x, day)
    BY <2>1, <2>2, CloseHas
  <2> QED  BY <1>c, <2>1, <2>3, TrackedBooks DEF CloseStale
<1>d. CASE TradesChecked  BY <1>d DEF TradesChecked, Tracked, Covered
<1>e. CASE \E e \in Entries : RecoverFilled(e)
  <2>1. PICK e \in Entries : RecoverFilled(e)  BY <1>e
  <2>2. cache' = WithTrade(e) /\ disk' = cache' /\ faults = 0
    BY <1>2, <2>1 DEF RecoverFilled
  <2>3. Has(cache', e, day) /\ \A x : Has(cache, x, day) => Has(cache', x, day)
    BY <2>2, AddHas
  <2> QED  BY <1>3, <2>1, <2>2, <2>3 DEF RecoverFilled, Tracked, Covered
<1>f. CASE \E e \in Entries : RecoverLive(e)
  BY <1>3, <1>f DEF RecoverLive, Tracked, Covered
<1>g. CASE \E e \in Entries : RecoverDead(e)
  BY <1>3, <1>g DEF RecoverDead, Tracked, Covered
<1>h. CASE \E e \in Entries : RecoverSkipped(e)
  BY <1>3, <1>h DEF RecoverSkipped, Tracked, Covered
<1>i. CASE PendingCleared  BY <1>2, <1>3, <1>i DEF PendingCleared, Tracked, Covered
<1>j. CASE ClearDay
  <2>1. cache' = DayCleared /\ disk' = cache' /\ faults = 0  BY <1>2, <1>j DEF ClearDay
  <2>2. Carries(cache, DayCleared)  BY <1>1, ClearFacts
  <2>3. \A x : Has(cache, x, day) => Has(cache', x, day)  BY <2>1, <2>2, HasStays
  <2> QED  BY <1>3, <1>j, <2>1, <2>3 DEF ClearDay, Tracked, Covered
<1>k. CASE Trim
  <2>1. /\ cache' = Trimmed /\ disk' = Trimmed
        /\ \A x : Has(cache, x, day) => Has(Trimmed, x, day)
    BY <1>k, TrimStep
  <2>2. faults = 0  BY <1>2, <1>k DEF Trim
  <2> QED  BY <1>3, <1>k, <2>1, <2>2 DEF Trim, Tracked, Covered
<1>l. CASE InitializeRaises
  <2>1. faults \in Nat /\ faults' = faults + 1
    BY <1>l, Bounds DEF InitializeRaises, Inv, Control
  <2> QED  BY <2>1
<1>m. CASE Send  BY <1>3, <1>m DEF Send, Trading, Tracked, Covered
<1>n. CASE Record  BY <1>2, <1>3, <1>n DEF Record, Tracked, Covered
<1>o. CASE Untrack  BY <1>2, <1>3, <1>o DEF Untrack, Tracked, Covered
<1>p. CASE \E e \in Entries : Activate(e)
  <2>1. PICK e \in Entries : Activate(e)  BY <1>p
  <2>2. cache' = WithTrade(e) /\ disk' = cache' /\ faults = 0
    BY <1>2, <2>1 DEF Activate
  <2>3. Has(cache', e, day) /\ \A x : Has(cache, x, day) => Has(cache', x, day)
    BY <2>2, AddHas
  <2> QED  BY <1>3, <2>1, <2>2, <2>3 DEF Activate, Trading, Tracked, Covered
<1>q. CASE \E e \in Entries : AbortEntry(e)
  BY <1>3, <1>q DEF AbortEntry, Trading, Tracked, Covered
<1>r. CASE \E e \in Entries : CancelEntry(e)
  BY <1>2, <1>3, <1>r DEF CancelEntry, Trading, Tracked, Covered
<1>s. CASE \E i \in Entries : PartialExit(i)
  <2>1. PICK i \in Entries : PartialExit(i)  BY <1>s
  <2>2. /\ mode = "running" /\ i \in 1..Len(cache.active) /\ cache.active[i].partial = 0
        /\ cache' = WithPartial(i) /\ disk' = cache' /\ faults = 0
    BY <1>1, <1>2, <2>1 DEF PartialExit, Trading
  <2>3. \A x : Has(cache, x, day) => Has(cache', x, day)  BY <2>2, PartialHas
  <2> QED  BY <2>1, <2>2, <2>3, TrackedBooks DEF PartialExit
<1>t. CASE \E i \in Entries : \E final \in {-1, 1} : CloseTrade(i, final)
  <2>1. PICK i \in Entries, final \in {-1, 1} : CloseTrade(i, final)  BY <1>t
  <2>2. /\ mode = "running" /\ i \in 1..Len(cache.active)
        /\ cache' = WithoutTrade(i, TotalPnl(i, final), "CLOSED")
        /\ disk' = cache' /\ faults = 0 /\ held' \subseteq held
    BY <1>1, <1>2, <2>1 DEF CloseTrade, Trading
  <2>3. TotalPnl(i, final) \in -1..2  BY <2>2, TotalPnlIs DEF Inv
  <2>4. \A x : Has(cache, x, day) => Has(cache', x, day)  BY <2>2, <2>3, CloseHas
  <2> QED  BY <2>1, <2>2, <2>4, TrackedBooks DEF CloseTrade
<1>u. CASE SqOffTime  BY <1>3, <1>u DEF SqOffTime, Tracked, Covered
<1>v. CASE SqOffCleared  BY <1>2, <1>3, <1>v DEF SqOffCleared, Tracked, Covered
<1>w. CASE SessionEnds  BY <1>3, <1>w DEF SessionEnds, Tracked, Covered
<1>x. CASE Exit  BY <1>3, <1>x DEF Exit, ProcessEnds, Tracked, Covered
<1>y. CASE \E e \in Entries : SqOffActivate(e)
  <2>1. PICK e \in Entries : SqOffActivate(e)  BY <1>y
  <2>2. cache' = WithTrade(e) /\ disk' = cache' /\ faults = 0
    BY <1>2, <2>1 DEF SqOffActivate
  <2>3. Has(cache', e, day) /\ \A x : Has(cache, x, day) => Has(cache', x, day)
    BY <2>2, AddHas
  <2> QED  BY <1>3, <2>1, <2>2, <2>3 DEF SqOffActivate, Tracked, Covered
<1>z. CASE \E e \in Entries : SqOffCancel(e)
  BY <1>3, <1>z DEF SqOffCancel, Tracked, Covered
<1>4. CASE \E final \in {-1, 1}, sold \in BOOLEAN :
              SquareOff(final, sold) \/ SquareOffRaises(final, sold)
  <2>1. PICK final \in {-1, 1}, sold \in BOOLEAN : SquareOff(final, sold)
    BY <1>2, <1>4 DEF SquareOffRaises
  <2>2. /\ mode = "squareoff" /\ at \in 1..Len(cache.active)
        /\ cache' = WithoutTrade(at, TotalPnl(at, final), "CLOSED")
        /\ disk' = cache' /\ faults = 0 /\ held' \subseteq held
    BY <1>1, <1>2, <2>1 DEF SquareOff
  <2>3. TotalPnl(at, final) \in -1..2  BY <2>2, TotalPnlIs DEF Inv
  <2>4. \A x : Has(cache, x, day) => Has(cache', x, day)  BY <2>2, <2>3, CloseHas
  <2> QED  BY <2>1, <2>2, <2>4, TrackedBooks DEF SquareOff
<1>5. CASE \E e \in Entries : BrokerFill(e) \/ BrokerExit(e)
  BY <1>5 DEF BrokerFill, BrokerExit, Tracked, Covered
<1>7. CASE NewDay  BY <1>3, <1>7 DEF NewDay, Tracked, Covered
<1>8. CASE Crash  BY <1>3, <1>8 DEF Crash, ProcessEnds, Tracked, Covered
<1> QED
  BY <1>a, <1>b, <1>c, <1>d, <1>e, <1>f, <1>g, <1>h, <1>i, <1>j, <1>k, <1>l, <1>m, <1>n,
     <1>o, <1>p, <1>q, <1>r, <1>s, <1>t, <1>u, <1>v, <1>w, <1>x, <1>y, <1>z,
     <1>4, <1>5, <1>7, <1>8
  DEF Next, Startup, Session, SessionEnd

LEMMA TrackedShows == Inv /\ Tracked => KnownPositions
<1> SUFFICES ASSUME Inv, Tracked, Up, faults = 0, doing = "idle",
                    NEW e \in held, e \notin excused
             PROVE  Recorded(e)
  BY DEF KnownPositions
<1>1. cache \in Book  BY DEF Inv, Books, BookOK
<1>2. Covered(e) /\ (mode = "sqcancel" => queue \subseteq pend)  BY DEF Tracked
<1>3. e \in pend \/ Has(cache, e, day)  BY <1>2 DEF Covered, Up
<1>4. CASE Has(cache, e, day)
  <2>1. PICK t \in Lines(cache) : t.entry = e  BY <1>4 DEF Has
  <2>2. PICK i \in DOMAIN AllTrades(cache) : AllTrades(cache)[i] = t
    BY <1>1, <2>1, LineIsAt
  <2> QED  BY <2>1, <2>2 DEF Recorded
<1> QED  BY <1>3, <1>4 DEF Recorded

\* As long as writes succeed, every open position has a record in the session: its
\* entry is pending or a trade of the book, except those the trader knowingly left.
THEOREM PositionsAreKnown == Spec => []KnownPositions
<1>1. Inv /\ [Next]_vars => Inv'  BY Preserved
<1>2. Inv /\ Tracked /\ [Next]_vars => Tracked'
  <2> SUFFICES ASSUME Inv, Tracked, [Next]_vars, faults' = 0 PROVE Tracked'
    BY DEF Tracked
  <2>1. CASE Next  BY <2>1, TrackedStep
  <2>2. CASE UNCHANGED vars
    BY <2>2 DEF vars, fileVars, pendVars, loopVars, brokerVars, ghostVars, Tracked, Covered
  <2> QED  BY <2>1, <2>2
<1>3. Init => Tracked  BY DEF Init, Tracked
<1> QED  BY <1>1, <1>2, <1>3, Started, TrackedShows, PTL DEF Spec

=============================================================================
