--------------------------- MODULE SessionProofs ---------------------------
(***************************************************************************)
(* Proofs about the main loop of a session, for every threshold, length of *)
(* pass, number of trades and number of writes that fail: no trade is      *)
(* exited twice or forgotten, and the trader is not blind for longer than  *)
(* its threshold, a pass, and a pass for each write that failed.           *)
(***************************************************************************)
EXTENDS Session, SequenceTheorems, TLAPS

\* Trades not opened yet have no exit, and the list names no trade twice.
Books ==
    /\ \A t \in Trades : t > opened => exits[t] = 0
    /\ \A i \in 1..Len(active), j \in 1..Len(active) : active[i] = active[j] => i = j
    /\ ExitOnce

\* No exit has been asked for what is still listed; the kill switch, which
\* leaves the list as it is, ends the session.
ListedNotExited == \A i \in 1..Len(active) : exits[active[i]] = 0

\* A pass that begins with the heartbeat due may be one pass over the limit,
\* until the heartbeat looks at it; a step that raises has used up a fault.
Slack ==
    IF pc \in {"flatten", "ended"} \/ (due /\ pc \in {"top", "cancel", "exit"})
    THEN 1 ELSE 0
Allowance(n) == FlattenAfter + LongPass * n
BlindWithin == blind <= Allowance(faults + Slack)

Inv ==
    /\ TypeOK /\ Books /\ BlindWithin
    /\ pc # "ended" => ListedNotExited

USE SessionAssumption

-----------------------------------------------------------------------------
(* Lemmas about the operators.                                             *)

\* The list without its i-th member.
LEMMA RemoveAtProperties ==
    ASSUME NEW S, NEW s \in Seq(S), NEW i \in 1..Len(s)
    PROVE  /\ RemoveAt(s, i) \in Seq(S) /\ Len(RemoveAt(s, i)) = Len(s) - 1
           /\ \A j \in 1..(Len(s) - 1) :
                RemoveAt(s, i)[j] = IF j < i THEN s[j] ELSE s[j + 1]
<1> DEFINE a == SubSeq(s, 1, i - 1)
           b == SubSeq(s, i + 1, Len(s))
<1>1. /\ Len(s) \in Nat /\ \A k \in 1..Len(s) : s[k] \in S
  BY LenProperties, ElementOfSeq
<1>2. a \in Seq(S) /\ Len(a) = i - 1 /\ \A j \in 1..(i - 1) : a[j] = s[j]
  <2>1. \A k \in 1..(i - 1) : s[k] \in S  BY <1>1
  <2>2. /\ a \in Seq(S) /\ Len(a) = (IF 1 <= i - 1 THEN i - 1 - 1 + 1 ELSE 0)
        /\ \A j \in 1..(i - 1 - 1 + 1) : a[j] = s[1 + j - 1]
    BY <1>1, <2>1, SubSeqProperties
  <2> QED  BY <1>1, <2>2
<1>3. /\ b \in Seq(S) /\ Len(b) = Len(s) - i
      /\ \A j \in 1..(Len(s) - i) : b[j] = s[i + j]
  <2>1. \A k \in (i + 1)..Len(s) : s[k] \in S  BY <1>1
  <2>2. /\ b \in Seq(S)
        /\ Len(b) = (IF i + 1 <= Len(s) THEN Len(s) - (i + 1) + 1 ELSE 0)
        /\ \A j \in 1..(Len(s) - (i + 1) + 1) : b[j] = s[(i + 1) + j - 1]
    BY <1>1, <2>1, SubSeqProperties
  <2> QED  BY <1>1, <2>2, SMTT(30)
<1>4. RemoveAt(s, i) = a \o b  BY DEF RemoveAt
<1> HIDE DEF a, b
<1>5. /\ a \o b \in Seq(S) /\ Len(a \o b) = Len(a) + Len(b)
      /\ \A j \in 1..(Len(a) + Len(b)) :
            (a \o b)[j] = IF j <= Len(a) THEN a[j] ELSE b[j - Len(a)]
  BY <1>2, <1>3, ConcatProperties
<1>6. ASSUME NEW j \in 1..(Len(s) - 1)
      PROVE  (a \o b)[j] = IF j < i THEN s[j] ELSE s[j + 1]
  <2>1. CASE j < i  BY <1>1, <1>2, <1>3, <1>5, <2>1
  <2>2. CASE ~(j < i)
    <3>1. j - (i - 1) \in 1..(Len(s) - i) /\ i + (j - (i - 1)) = j + 1
      BY <1>1, <2>2
    <3>2. j \in 1..(Len(a) + Len(b)) /\ ~(j <= Len(a)) /\ Len(a) = i - 1
      BY <1>1, <1>2, <1>3, <2>2
    <3>3. (a \o b)[j] = b[j - (i - 1)]  BY <1>5, <3>2
    <3> QED  BY <1>3, <2>2, <3>1, <3>3
  <2> QED  BY <2>1, <2>2
<1> QED  BY <1>1, <1>2, <1>3, <1>4, <1>5, <1>6, SMTT(30)

LEMMA MinOfTwo ==
    ASSUME NEW a \in Nat, NEW b \in Nat
    PROVE  Min({a, b}) \in 0..b
<1>1. \E x \in {a, b} : \A y \in {a, b} : x <= y  OBVIOUS
<1>2. Min({a, b}) \in {a, b} /\ \A y \in {a, b} : Min({a, b}) <= y
  BY <1>1 DEF Min
<1> QED  BY <1>2

\* A longer allowance is no shorter.
LEMMA AllowanceGrows ==
    ASSUME NEW m \in Nat, NEW n \in Nat, m <= n
    PROVE  /\ Allowance(m) \in Nat /\ Allowance(n) \in Nat
           /\ Allowance(m) <= Allowance(n)
           /\ Allowance(m + 1) = Allowance(m) + LongPass
<1>1. LongPass * m <= LongPass * n  OBVIOUS
<1>2. LongPass * (m + 1) = LongPass * m + LongPass  OBVIOUS
<1>3. LongPass * m \in Nat /\ LongPass * n \in Nat  OBVIOUS
<1> QED  BY <1>1, <1>2, <1>3 DEF Allowance

-----------------------------------------------------------------------------
(* What the tracker and the broker do to the books.                        *)

BookTypes ==
    /\ active \in Seq(1..opened) /\ opened \in 0..MaxTrades
    /\ exits \in [Trades -> Nat]

LEMMA BooksDomain ==
    ASSUME BookTypes
    PROVE  /\ Len(active) \in Nat /\ DOMAIN active = 1..Len(active)
           /\ \A i \in 1..Len(active) : active[i] \in 1..opened /\ active[i] \in Trades
           /\ 1..opened \subseteq Trades /\ opened \in Nat
<1>1. active \in Seq(1..opened) /\ opened \in 0..MaxTrades  BY DEF BookTypes
<1>2. Len(active) \in Nat /\ DOMAIN active = 1..Len(active)  BY <1>1, LenProperties
<1>3. \A i \in 1..Len(active) : active[i] \in 1..opened  BY <1>1, ElementOfSeq
<1> QED  BY <1>1, <1>2, <1>3 DEF Trades

\* A write succeeds or is counted.
Counted(next, raised) ==
    \/ pc' = next /\ faults' = faults
    \/ pc' = raised /\ faults' = faults + 1 /\ faults < MaxFaults

\* The new trade is listed, without an exit.
LEMMA ActivatesKeepsBooks ==
    ASSUME BookTypes, Books, ListedNotExited, NEW next, Activates(next)
    PROVE  BookTypes' /\ Books' /\ ListedNotExited' /\ Counted(next, "sleep")
<1> DEFINE n == opened + 1
<1>1. /\ opened < MaxTrades /\ opened' = n /\ exits' = exits
      /\ active' = Append(active, n) /\ Counted(next, "sleep")
  BY DEF Activates, Saves, Fault, Counted
<1>2. /\ n \in Trades /\ n \in Nat /\ n > opened /\ exits[n] = 0 /\ exits \in [Trades -> Nat]
  BY <1>1, BooksDomain DEF Books, BookTypes, Trades
<1>3. active \in Seq(1..n)
  <2>1. 1..opened \subseteq 1..n  BY <1>2, BooksDomain
  <2> QED  BY <2>1, SeqMonotonic DEF BookTypes
<1>4. /\ active' \in Seq(1..n) /\ Len(active') = Len(active) + 1
      /\ \A i \in 1..Len(active) : active'[i] = active[i]
      /\ active'[Len(active) + 1] = n
  <2>1. n \in 1..n  BY <1>2, BooksDomain
  <2> QED  BY <1>1, <1>3, <2>1, AppendProperties
<1>5. BookTypes'  BY <1>1, <1>2, <1>4, BooksDomain DEF BookTypes
<1> HIDE DEF n
<1>6. \A i \in 1..Len(active') :
        \/ i \in 1..Len(active) /\ active'[i] = active[i] /\ active[i] \in 1..opened
        \/ i = Len(active) + 1 /\ active'[i] = n
  BY <1>4, BooksDomain
<1>7. ListedNotExited'
  BY <1>1, <1>2, <1>6 DEF ListedNotExited
<1>8. \A i \in 1..Len(active'), j \in 1..Len(active') : active'[i] = active'[j] => i = j
  <2> SUFFICES ASSUME NEW i \in 1..Len(active'), NEW j \in 1..Len(active'),
                      active'[i] = active'[j]
               PROVE  i = j
    OBVIOUS
  <2>1. \A k \in 1..Len(active) : active[k] # n  BY <1>2, BooksDomain
  <2> QED  BY <1>6, <2>1 DEF Books
<1>9. ExitOnce'
  <2> SUFFICES ASSUME NEW t \in 1..opened'
               PROVE  exits[t] <= 1 /\ (exits[t] = 0 => \E i \in 1..Len(active') : active'[i] = t)
    BY <1>1 DEF ExitOnce, Contains
  <2>1. CASE t = n
    <3>1. Len(active) + 1 \in 1..Len(active')  BY <1>4, BooksDomain
    <3> QED  BY <1>2, <1>4, <2>1, <3>1
  <2>2. CASE t \in 1..opened
    <3>1. exits[t] <= 1 /\ (exits[t] = 0 => \E i \in 1..Len(active) : active[i] = t)
      BY <2>2 DEF Books, ExitOnce, Contains
    <3>2. \A i \in 1..Len(active) : i \in 1..Len(active') /\ active'[i] = active[i]
      BY <1>4, BooksDomain
    <3> QED  BY <3>1, <3>2
  <2> QED  BY <1>1, <1>2, <2>1, <2>2, BooksDomain, SMTT(30) DEF n
<1>10. \A t \in Trades : t > opened' => exits'[t] = 0
  BY <1>1, <1>2, BooksDomain DEF Books, Trades, n
<1> QED  BY <1>1, <1>5, <1>7, <1>8, <1>9, <1>10 DEF Books

\* The trade that is exited leaves the list, which keeps the others.
LEMMA ClosesKeepsBooks ==
    ASSUME BookTypes, Books, ListedNotExited, NEW i, NEW next, NEW raised,
           Closes(i, next, raised)
    PROVE  BookTypes' /\ Books' /\ ListedNotExited' /\ Counted(next, raised)
<1> DEFINE x == active[i]
           n == Len(active)
<1>1. /\ i \in DOMAIN active /\ opened' = opened /\ active' = RemoveAt(active, i)
      /\ exits' = [exits EXCEPT ![x] = @ + 1] /\ Counted(next, raised)
  BY DEF Closes, Saves, Fault, Counted
<1>2. /\ n \in Nat /\ i \in 1..n /\ x \in Trades /\ x \in 1..opened /\ exits[x] = 0
  BY <1>1, BooksDomain DEF ListedNotExited
<1>3. /\ \A t \in Trades : exits'[t] = IF t = x THEN 1 ELSE exits[t]
      /\ exits' \in [Trades -> Nat]
  BY <1>1, <1>2 DEF BookTypes
<1>4. /\ active' \in Seq(1..opened) /\ Len(active') = n - 1
      /\ \A j \in 1..(n - 1) : active'[j] = IF j < i THEN active[j] ELSE active[j + 1]
  <2>1. active \in Seq(1..opened) /\ i \in 1..Len(active)  BY <1>2 DEF BookTypes
  <2>2. /\ RemoveAt(active, i) \in Seq(1..opened)
        /\ Len(RemoveAt(active, i)) = Len(active) - 1
        /\ \A j \in 1..(Len(active) - 1) :
             RemoveAt(active, i)[j] = IF j < i THEN active[j] ELSE active[j + 1]
    BY <2>1, RemoveAtProperties
  <2> QED  BY <1>1, <2>2
<1>5. BookTypes'  BY <1>1, <1>3, <1>4 DEF BookTypes
<1> DEFINE old(j) == IF j < i THEN j ELSE j + 1
<1>6. \A j \in 1..(n - 1) : old(j) \in 1..n /\ old(j) # i /\ active'[j] = active[old(j)]
  BY <1>2, <1>4
<1>7. \A j \in 1..(n - 1), k \in 1..(n - 1) : old(j) = old(k) => j = k
  BY <1>2
<1>8. \A k \in 1..n : k # i => \E j \in 1..(n - 1) : old(j) = k
  <2> SUFFICES ASSUME NEW k \in 1..n, k # i PROVE \E j \in 1..(n - 1) : old(j) = k
    OBVIOUS
  <2>1. CASE k < i
    <3>1. k \in 1..(n - 1) /\ old(k) = k  BY <1>2, <2>1
    <3> QED  BY <3>1
  <2>2. CASE k > i
    <3>1. k - 1 \in 1..(n - 1) /\ old(k - 1) = k  BY <1>2, <2>2
    <3> QED  BY <3>1
  <2> QED  BY <1>2, <2>1, <2>2
<1> HIDE DEF old, x, n
<1>9. \A j \in 1..n : active[j] = x => j = i
  BY <1>2 DEF Books, n, x
<1>10. ListedNotExited'
  <2> SUFFICES ASSUME NEW j \in 1..(n - 1) PROVE exits'[active'[j]] = 0
    BY <1>4 DEF ListedNotExited
  <2>1. /\ active'[j] = active[old(j)] /\ old(j) \in 1..n /\ active[old(j)] # x
    BY <1>6, <1>9
  <2>2. active[old(j)] \in Trades /\ exits[active[old(j)]] = 0
    BY <2>1, BooksDomain DEF ListedNotExited, n
  <2> QED  BY <1>3, <2>1, <2>2
<1>11. \A j \in 1..Len(active'), k \in 1..Len(active') : active'[j] = active'[k] => j = k
  <2> SUFFICES ASSUME NEW j \in 1..(n - 1), NEW k \in 1..(n - 1), active'[j] = active'[k]
               PROVE  j = k
    BY <1>4
  <2>1. /\ old(j) \in 1..n /\ old(k) \in 1..n /\ active[old(j)] = active[old(k)]
    BY <1>6
  <2>2. old(j) = old(k)  BY <2>1 DEF Books, n
  <2> QED  BY <1>7, <2>2
<1>12. ExitOnce'
  <2> SUFFICES ASSUME NEW t \in 1..opened
               PROVE  /\ exits'[t] <= 1
                      /\ exits'[t] = 0 => \E j \in 1..Len(active') : active'[j] = t
    BY <1>1 DEF ExitOnce, Contains
  <2>1. t \in Trades  BY BooksDomain
  <2>2. CASE t = x  BY <1>3, <2>1, <2>2
  <2>3. CASE t # x
    <3>1. exits[t] <= 1 /\ (exits[t] = 0 => \E k \in 1..n : active[k] = t)
      BY DEF Books, ExitOnce, Contains, n
    <3>2. ASSUME NEW k \in 1..n, active[k] = t
          PROVE  \E j \in 1..Len(active') : active'[j] = t
      <4>1. k # i  BY <2>3, <3>2 DEF x
      <4>2. PICK j \in 1..(n - 1) : old(j) = k  BY <1>8, <3>2, <4>1
      <4> QED  BY <1>4, <1>6, <3>2, <4>2
    <3> QED  BY <1>3, <2>1, <2>3, <3>1, <3>2
  <2> QED  BY <2>2, <2>3
<1>13. \A t \in Trades : t > opened' => exits'[t] = 0
  BY <1>1, <1>2, <1>3, BooksDomain DEF Books, Trades
<1> QED  BY <1>1, <1>5, <1>10, <1>11, <1>12, <1>13 DEF Books

\* Everything listed is exited once more; the list stays, or is emptied.
LEMMA SellsAllKeepsBooks ==
    ASSUME BookTypes, Books, ListedNotExited, SellsAll, opened' = opened,
           active' = active \/ active' = <<>>
    PROVE  BookTypes' /\ Books' /\ (active' = <<>> => ListedNotExited')
<1>1. /\ \A t \in Trades : exits'[t] = exits[t] + (IF Contains(active, t) THEN 1 ELSE 0)
      /\ exits' \in [Trades -> Nat]
  BY DEF SellsAll, BookTypes
<1>2. /\ \A t \in 1..opened : /\ exits[t] <= 1 /\ t \in Trades /\ exits[t] \in Nat
                              /\ exits[t] = 0 => Contains(active, t)
                              /\ Contains(active, t) => exits[t] = 0
      /\ \A t \in Trades : t > opened => exits[t] = 0 /\ ~Contains(active, t)
  <2>1. ASSUME NEW t \in Trades, Contains(active, t) PROVE t \in 1..opened /\ exits[t] = 0
    BY <2>1, BooksDomain DEF Contains, ListedNotExited
  <2>2. ASSUME NEW t \in Trades, t > opened PROVE exits[t] = 0 /\ ~Contains(active, t)
    BY <2>1, <2>2, BooksDomain DEF Books
  <2>3. ASSUME NEW t \in 1..opened
        PROVE  /\ exits[t] <= 1 /\ t \in Trades /\ exits[t] \in Nat
               /\ exits[t] = 0 => Contains(active, t)
    BY <2>3, BooksDomain DEF Books, ExitOnce, BookTypes
  <2> QED  BY <2>1, <2>2, <2>3
<1>3. \A t \in 1..opened : exits'[t] = 1  BY <1>1, <1>2
<1>4. BookTypes'
  <2>1. active' \in Seq(1..opened)  BY EmptySeq DEF BookTypes
  <2> QED  BY <1>1, <2>1 DEF BookTypes
<1>5. ExitOnce'  BY <1>3 DEF ExitOnce
<1>6. \A t \in Trades : t > opened' => exits'[t] = 0  BY <1>1, <1>2
<1>7. \A i \in 1..Len(active'), j \in 1..Len(active') : active'[i] = active'[j] => i = j
  <2>1. Len(<<>>) = 0  BY EmptySeq
  <2> QED  BY <2>1 DEF Books
<1>8. active' = <<>> => ListedNotExited'
  <2>1. Len(<<>>) = 0  BY EmptySeq
  <2> QED  BY <2>1 DEF ListedNotExited
<1> QED  BY <1>4, <1>5, <1>6, <1>7, <1>8 DEF Books

LEMMA BooksUnchanged ==
    ASSUME BookTypes, Books, UNCHANGED <<active, opened, exits>>
    PROVE  BookTypes' /\ Books' /\ (ListedNotExited => ListedNotExited')
BY DEF BookTypes, Books, ExitOnce, ListedNotExited, Contains

-----------------------------------------------------------------------------
(* The minutes without an answer.                                          *)

\* They grow no faster than the allowance, where only Wake lets time pass.
LEMMA BlindKept ==
    ASSUME TypeOK, BlindWithin, blind' \in {0, blind}, faults' \in Nat,
           \/ faults' = faults /\ Slack' >= Slack
           \/ faults' = faults + 1
    PROVE  BlindWithin'
<1> DEFINE f == faults'
           s == Slack'
           b == blind'
<1>1. /\ faults \in Nat /\ Slack \in {0, 1} /\ f \in Nat /\ s \in {0, 1}
      /\ blind \in Nat /\ b \in {0, blind}
      /\ (f = faults /\ s >= Slack) \/ f = faults + 1
  BY DEF TypeOK, Slack
<1> HIDE DEF f, s, b
<1>2. faults + Slack <= f + s  BY <1>1
<1>3. /\ Allowance(faults + Slack) \in Nat /\ Allowance(f + s) \in Nat
      /\ Allowance(faults + Slack) <= Allowance(f + s)
  BY <1>1, <1>2, AllowanceGrows
<1>4. b <= Allowance(f + s)  BY <1>1, <1>3 DEF BlindWithin
<1> QED  BY <1>4 DEF BlindWithin, Allowance, f, s, b

-----------------------------------------------------------------------------
(* The types of the rest of the state.                                     *)

ClockTypes ==
    /\ pc \in {"top", "flatten", "resync", "sanitize", "check", "hours", "market",
              "cancel", "exit", "work", "sleep", "ended"}
    /\ period \in Periods /\ now \in Periods /\ late \in 0..(SqPasses + 1)
    /\ fails \in 0..HaltAfter
    /\ why \in {"none", "kill", "sqoff", "loss", "flatten"}
LinkTypes ==
    /\ due \in BOOLEAN /\ reconnecting \in BOOLEAN /\ killFile \in BOOLEAN
    /\ blind \in Nat /\ faults \in 0..MaxFaults
    /\ pending \in 0..MaxTrades /\ queue \in 0..MaxTrades /\ at \in Nat \ {0}

LEMMA FlagRead ==
    ASSUME LinkTypes, PricesRead
    PROVE  reconnecting' \in BOOLEAN
BY DEF LinkTypes, PricesRead

LEMMA TypeParts ==
    /\ TypeOK <=> ClockTypes /\ LinkTypes /\ BookTypes
    /\ TypeOK' <=> (ClockTypes /\ LinkTypes /\ BookTypes)'
<1> USE DEF TypeOK, ClockTypes, LinkTypes, BookTypes
<1>1. TypeOK <=> ClockTypes /\ LinkTypes /\ BookTypes  OBVIOUS
<1>2. TypeOK' <=> (ClockTypes /\ LinkTypes /\ BookTypes)'  OBVIOUS
<1> QED  BY <1>1, <1>2

LEMMA QuoteTypes ==
    ASSUME fails \in 0..HaltAfter, blind \in Nat, Quote
    PROVE  fails' \in 0..HaltAfter /\ blind' \in {0, blind}
<1>1. Min({fails + 1, HaltAfter}) \in 0..HaltAfter  BY MinOfTwo
<1> QED  BY <1>1 DEF Quote, Calls

-----------------------------------------------------------------------------
(* The steps.                                                              *)

LEMMA KillSwitchInv == ASSUME Inv, KillSwitch PROVE Inv'
<1> USE DEF Inv
<1>1. ClockTypes /\ LinkTypes /\ BookTypes  BY TypeParts
<1>2. BookTypes' /\ Books' /\ (pc' # "ended" => ListedNotExited')
  BY <1>1, BooksUnchanged DEF KillSwitch, BeginPass, bookVars
<1>3. ClockTypes' /\ LinkTypes'
  BY <1>1, TypeParts
  DEF KillSwitch, BeginPass, ClockTypes, LinkTypes, clockVars, linkVars,
      bookVars, loopVars
<1>4. BlindWithin'
  BY <1>1, <1>3, BlindKept
  DEF KillSwitch, BeginPass, Slack, LinkTypes, clockVars, linkVars, bookVars,
      loopVars
<1> QED  BY <1>2, <1>3, <1>4, TypeParts

LEMMA NoHeartbeatInv == ASSUME Inv, NoHeartbeat PROVE Inv'
<1> USE DEF Inv
<1>1. ClockTypes /\ LinkTypes /\ BookTypes  BY TypeParts
<1>2. BookTypes' /\ Books' /\ (pc' # "ended" => ListedNotExited')
  BY <1>1, BooksUnchanged DEF NoHeartbeat, BeginPass, bookVars
<1>3. ClockTypes' /\ LinkTypes'
  BY <1>1, TypeParts
  DEF NoHeartbeat, BeginPass, ClockTypes, LinkTypes, clockVars, linkVars,
      bookVars, loopVars
<1>4. BlindWithin'
  BY <1>1, <1>3, BlindKept
  DEF NoHeartbeat, BeginPass, Slack, LinkTypes, clockVars, linkVars, bookVars,
      loopVars
<1> QED  BY <1>2, <1>3, <1>4, TypeParts

LEMMA HeartbeatInv == ASSUME Inv, Heartbeat PROVE Inv'
<1> USE DEF Inv
<1>1. ClockTypes /\ LinkTypes /\ BookTypes  BY TypeParts
<1>2. BookTypes' /\ Books' /\ (pc' # "ended" => ListedNotExited')
  BY <1>1, BooksUnchanged DEF Heartbeat, BeginPass, bookVars
<1>3. ClockTypes' /\ LinkTypes'
  <2>1. pc' \in {"flatten", "resync", "check"}  BY DEF Heartbeat
  <2>2. now' = period /\ late' \in 0..(SqPasses + 1)
    BY <1>1 DEF Heartbeat, BeginPass, ClockTypes
  <2>3. /\ due' = FALSE
        /\ UNCHANGED <<period, blind, reconnecting, fails, killFile, pending, queue,
                       at, why, faults>>
    BY DEF Heartbeat, bookVars, loopVars
  <2> QED  BY <1>1, <2>1, <2>2, <2>3 DEF ClockTypes, LinkTypes
<1>4. BlindWithin'
  <2>1. blind' = blind /\ faults' = faults /\ faults \in Nat /\ blind \in Nat
    BY <1>1 DEF Heartbeat, BeginPass, linkVars, LinkTypes
  <2>2. CASE FlattenDue
    <3>1. pc' = "flatten"  BY <2>2 DEF Heartbeat
    <3> QED  BY <2>1, <3>1, BlindKept DEF Slack
  <2>3. CASE ~FlattenDue
    <3>1. blind <= FlattenAfter /\ Slack' \in {0, 1}
      BY <2>1, <2>3 DEF FlattenDue, Slack
    <3> DEFINE s == Slack'
    <3>2. s \in {0, 1}  BY <3>1
    <3> HIDE DEF s
    <3>3. LongPass * (faults + s) \in Nat  BY <2>1, <3>2
    <3>4. blind <= FlattenAfter + LongPass * (faults + s)  BY <2>1, <3>1, <3>3
    <3> QED  BY <2>1, <3>4 DEF BlindWithin, Allowance, s
  <2> QED  BY <2>2, <2>3
<1> QED  BY <1>2, <1>3, <1>4, TypeParts

LEMMA FlattenInv == ASSUME Inv, Flatten PROVE Inv'
<1> USE DEF Inv
<1>1. ClockTypes /\ LinkTypes /\ BookTypes  BY TypeParts
<1>2. BookTypes' /\ Books' /\ (pc' # "ended" => ListedNotExited')
  BY <1>1, SellsAllKeepsBooks DEF Flatten
<1>3. ClockTypes' /\ LinkTypes'
  <2>1. killFile' \in BOOLEAN  BY <1>1 DEF Flatten, LinkTypes
  <2> QED
    BY <1>1, <2>1 DEF Flatten, Fault, ClockTypes, LinkTypes, clockVars, linkVars
<1>4. BlindWithin'
  BY <1>1, <1>3, BlindKept
  DEF Flatten, Fault, Slack, LinkTypes, clockVars, linkVars, bookVars, loopVars
<1> QED  BY <1>2, <1>3, <1>4, TypeParts

LEMMA ResyncVerifiedInv == ASSUME Inv, ResyncVerified PROVE Inv'
<1> USE DEF Inv
<1>1. ClockTypes /\ LinkTypes /\ BookTypes  BY TypeParts
<1>2. BookTypes' /\ Books' /\ (pc' # "ended" => ListedNotExited')
  BY <1>1, BooksUnchanged DEF ResyncVerified, bookVars
<1>3. ClockTypes' /\ LinkTypes'
  <2>1. /\ pc' = "sanitize" /\ reconnecting' = FALSE /\ blind' = 0 /\ at' = 1
        /\ UNCHANGED <<period, now, late, due, fails, killFile, pending, queue, why,
                       faults>>
    BY DEF ResyncVerified, clockVars, bookVars
  <2>2. reconnecting' \in BOOLEAN /\ due' \in BOOLEAN /\ killFile' \in BOOLEAN
    BY <1>1, <2>1 DEF LinkTypes
  <2>3. blind' \in Nat /\ at' \in Nat \ {0}  BY <2>1
  <2> QED  BY <1>1, <2>1, <2>2, <2>3 DEF ClockTypes, LinkTypes
<1>4. BlindWithin'
  BY <1>1, <1>3, BlindKept
  DEF ResyncVerified, Slack, LinkTypes, clockVars, linkVars, bookVars, loopVars
<1> QED  BY <1>2, <1>3, <1>4, TypeParts

LEMMA ResyncUnverifiedInv == ASSUME Inv, ResyncUnverified PROVE Inv'
<1> USE DEF Inv
<1>1. ClockTypes /\ LinkTypes /\ BookTypes  BY TypeParts
<1>2. BookTypes' /\ Books' /\ (pc' # "ended" => ListedNotExited')
  BY <1>1, BooksUnchanged DEF ResyncUnverified, Calls, bookVars
<1>3. ClockTypes' /\ LinkTypes'
  BY <1>1, TypeParts
  DEF ResyncUnverified, Calls, ClockTypes, LinkTypes, clockVars, linkVars,
      bookVars, loopVars
<1>4. BlindWithin'
  BY <1>1, <1>3, BlindKept
  DEF ResyncUnverified, Calls, Slack, LinkTypes, clockVars, linkVars, bookVars,
      loopVars
<1> QED  BY <1>2, <1>3, <1>4, TypeParts

LEMMA SanitizePassesInv == ASSUME Inv, SanitizePasses PROVE Inv'
<1> USE DEF Inv
<1>1. ClockTypes /\ LinkTypes /\ BookTypes  BY TypeParts
<1>2. BookTypes' /\ Books' /\ (pc' # "ended" => ListedNotExited')
  BY <1>1, BooksUnchanged DEF SanitizePasses, bookVars
<1>3. ClockTypes' /\ LinkTypes'
  BY <1>1, TypeParts
  DEF SanitizePasses, ClockTypes, LinkTypes, clockVars, linkVars, bookVars,
      loopVars
<1>4. BlindWithin'
  BY <1>1, <1>3, BlindKept
  DEF SanitizePasses, Slack, LinkTypes, clockVars, linkVars, bookVars, loopVars
<1> QED  BY <1>2, <1>3, <1>4, TypeParts

LEMMA SanitizeClosesInv == ASSUME Inv, SanitizeCloses PROVE Inv'
<1> USE DEF Inv
<1>1. ClockTypes /\ LinkTypes /\ BookTypes  BY TypeParts
<1>b. BookTypes' /\ Books' /\ ListedNotExited' /\ Counted("sanitize", "check")
  BY <1>1, ClosesKeepsBooks DEF SanitizeCloses
<1>2. BookTypes' /\ Books' /\ (pc' # "ended" => ListedNotExited')  BY <1>b
<1>3. ClockTypes' /\ LinkTypes'
  BY <1>1, <1>b, TypeParts
  DEF SanitizeCloses, Counted, ClockTypes, LinkTypes, clockVars, linkVars,
      bookVars, loopVars
<1>4. BlindWithin'
  BY <1>1, <1>b, <1>3, BlindKept
  DEF SanitizeCloses, Counted, Slack, LinkTypes, clockVars, linkVars, bookVars,
      loopVars
<1> QED  BY <1>2, <1>3, <1>4, TypeParts

LEMMA SanitizeEndsInv == ASSUME Inv, SanitizeEnds PROVE Inv'
<1> USE DEF Inv
<1>1. ClockTypes /\ LinkTypes /\ BookTypes  BY TypeParts
<1>2. BookTypes' /\ Books' /\ (pc' # "ended" => ListedNotExited')
  BY <1>1, BooksUnchanged DEF SanitizeEnds, bookVars
<1>3. ClockTypes' /\ LinkTypes'
  BY <1>1, TypeParts
  DEF SanitizeEnds, ClockTypes, LinkTypes, clockVars, linkVars, bookVars,
      loopVars
<1>4. BlindWithin'
  BY <1>1, <1>3, BlindKept
  DEF SanitizeEnds, Slack, LinkTypes, clockVars, linkVars, bookVars, loopVars
<1> QED  BY <1>2, <1>3, <1>4, TypeParts

LEMMA HeartbeatCheckInv == ASSUME Inv, HeartbeatCheck PROVE Inv'
<1> USE DEF Inv
<1>1. ClockTypes /\ LinkTypes /\ BookTypes  BY TypeParts
<1>2. BookTypes' /\ Books' /\ (pc' # "ended" => ListedNotExited')
  BY <1>1, BooksUnchanged DEF HeartbeatCheck, bookVars
<1>c. fails' \in 0..HaltAfter /\ blind' \in {0, blind}
  BY <1>1, QuoteTypes DEF HeartbeatCheck, ClockTypes, LinkTypes
<1>3. ClockTypes' /\ LinkTypes'
  BY <1>1, <1>c, TypeParts
  DEF HeartbeatCheck, ClockTypes, LinkTypes, clockVars, linkVars, bookVars,
      loopVars
<1>4. BlindWithin'
  BY <1>1, <1>c, <1>3, BlindKept
  DEF HeartbeatCheck, Slack, LinkTypes, clockVars, linkVars, bookVars, loopVars
<1> QED  BY <1>2, <1>3, <1>4, TypeParts

LEMMA OutsideHoursInv == ASSUME Inv, OutsideHours PROVE Inv'
<1> USE DEF Inv
<1>1. ClockTypes /\ LinkTypes /\ BookTypes  BY TypeParts
<1>2. BookTypes' /\ Books' /\ (pc' # "ended" => ListedNotExited')
  BY <1>1, BooksUnchanged DEF OutsideHours, bookVars
<1>3. ClockTypes' /\ LinkTypes'
  BY <1>1, TypeParts
  DEF OutsideHours, ClockTypes, LinkTypes, clockVars, linkVars, bookVars,
      loopVars
<1>4. BlindWithin'
  BY <1>1, <1>3, BlindKept
  DEF OutsideHours, Slack, LinkTypes, clockVars, linkVars, bookVars, loopVars
<1> QED  BY <1>2, <1>3, <1>4, TypeParts

LEMMA SquareOffTimeInv == ASSUME Inv, SquareOffTime PROVE Inv'
<1> USE DEF Inv
<1>1. ClockTypes /\ LinkTypes /\ BookTypes  BY TypeParts
<1>2. BookTypes' /\ Books' /\ (pc' # "ended" => ListedNotExited')
  BY <1>1, BooksUnchanged DEF SquareOffTime, Trading, bookVars
<1>3. ClockTypes' /\ LinkTypes'
  BY <1>1, TypeParts
  DEF SquareOffTime, Trading, ClockTypes, LinkTypes, clockVars, linkVars,
      bookVars, loopVars
<1>4. BlindWithin'
  BY <1>1, <1>3, BlindKept
  DEF SquareOffTime, Trading, Slack, LinkTypes, clockVars, linkVars, bookVars,
      loopVars
<1> QED  BY <1>2, <1>3, <1>4, TypeParts

LEMMA DailyLossInv == ASSUME Inv, DailyLoss PROVE Inv'
<1> USE DEF Inv
<1>1. ClockTypes /\ LinkTypes /\ BookTypes  BY TypeParts
<1>2. BookTypes' /\ Books' /\ (pc' # "ended" => ListedNotExited')
  BY <1>1, BooksUnchanged DEF DailyLoss, Trading, Calls, bookVars
<1>c. reconnecting' \in BOOLEAN  BY <1>1, FlagRead DEF DailyLoss
<1>3. ClockTypes' /\ LinkTypes'
  BY <1>1, <1>c, TypeParts
  DEF DailyLoss, Trading, Calls, ClockTypes, LinkTypes, clockVars, linkVars,
      bookVars, loopVars
<1>4. BlindWithin'
  BY <1>1, <1>3, BlindKept
  DEF DailyLoss, Trading, Calls, Slack, LinkTypes, clockVars, linkVars,
      bookVars, loopVars
<1> QED  BY <1>2, <1>3, <1>4, TypeParts

LEMMA WithinLossInv == ASSUME Inv, WithinLoss PROVE Inv'
<1> USE DEF Inv
<1>1. ClockTypes /\ LinkTypes /\ BookTypes  BY TypeParts
<1>2. BookTypes' /\ Books' /\ (pc' # "ended" => ListedNotExited')
  BY <1>1, BooksUnchanged DEF WithinLoss, Trading, Calls, bookVars
<1>c. reconnecting' \in BOOLEAN  BY <1>1, FlagRead DEF WithinLoss
<1>3. ClockTypes' /\ LinkTypes'
  BY <1>1, <1>c, TypeParts
  DEF WithinLoss, Trading, Calls, ClockTypes, LinkTypes, clockVars, linkVars,
      bookVars, loopVars
<1>4. BlindWithin'
  BY <1>1, <1>3, BlindKept
  DEF WithinLoss, Trading, Calls, Slack, LinkTypes, clockVars, linkVars,
      bookVars, loopVars
<1> QED  BY <1>2, <1>3, <1>4, TypeParts

LEMMA MarketCheckInv == ASSUME Inv, MarketCheck PROVE Inv'
<1> USE DEF Inv
<1>1. ClockTypes /\ LinkTypes /\ BookTypes  BY TypeParts
<1>2. BookTypes' /\ Books' /\ (pc' # "ended" => ListedNotExited')
  BY <1>1, BooksUnchanged DEF MarketCheck, bookVars
<1>c. fails' \in 0..HaltAfter /\ blind' \in {0, blind}
  BY <1>1, QuoteTypes DEF MarketCheck, ClockTypes, LinkTypes
<1>3. ClockTypes' /\ LinkTypes'
  BY <1>1, <1>c, TypeParts
  DEF MarketCheck, ClockTypes, LinkTypes, clockVars, linkVars, bookVars,
      loopVars
<1>4. BlindWithin'
  BY <1>1, <1>c, <1>3, BlindKept
  DEF MarketCheck, Slack, LinkTypes, clockVars, linkVars, bookVars, loopVars
<1> QED  BY <1>2, <1>3, <1>4, TypeParts

LEMMA CancelEntryInv == ASSUME Inv, CancelEntry PROVE Inv'
<1> USE DEF Inv
<1>1. ClockTypes /\ LinkTypes /\ BookTypes  BY TypeParts
<1>2. BookTypes' /\ Books' /\ (pc' # "ended" => ListedNotExited')
  BY <1>1, BooksUnchanged DEF CancelEntry, Calls, bookVars
<1>3. ClockTypes' /\ LinkTypes'
  BY <1>1, TypeParts
  DEF CancelEntry, Calls, ClockTypes, LinkTypes, clockVars, linkVars, bookVars,
      loopVars
<1>4. BlindWithin'
  BY <1>1, <1>3, BlindKept
  DEF CancelEntry, Calls, Slack, LinkTypes, clockVars, linkVars, bookVars,
      loopVars
<1> QED  BY <1>2, <1>3, <1>4, TypeParts

LEMMA CancelFindsFilledInv == ASSUME Inv, CancelFindsFilled PROVE Inv'
<1> USE DEF Inv
<1>1. ClockTypes /\ LinkTypes /\ BookTypes  BY TypeParts
<1>b. BookTypes' /\ Books' /\ ListedNotExited' /\ Counted("cancel", "sleep")
  BY <1>1, ActivatesKeepsBooks DEF CancelFindsFilled, Calls
<1>2. BookTypes' /\ Books' /\ (pc' # "ended" => ListedNotExited')  BY <1>b
<1>3. ClockTypes' /\ LinkTypes'
  BY <1>1, <1>b, TypeParts
  DEF CancelFindsFilled, Calls, Counted, ClockTypes, LinkTypes, clockVars,
      linkVars, bookVars, loopVars
<1>4. BlindWithin'
  BY <1>1, <1>b, <1>3, BlindKept
  DEF CancelFindsFilled, Calls, Counted, Slack, LinkTypes, clockVars, linkVars,
      bookVars, loopVars
<1> QED  BY <1>2, <1>3, <1>4, TypeParts

LEMMA CancelEndsInv == ASSUME Inv, CancelEnds PROVE Inv'
<1> USE DEF Inv
<1>1. ClockTypes /\ LinkTypes /\ BookTypes  BY TypeParts
<1>2. BookTypes' /\ Books' /\ (pc' # "ended" => ListedNotExited')
  BY <1>1, BooksUnchanged DEF CancelEnds, bookVars
<1>3. ClockTypes' /\ LinkTypes'
  BY <1>1, TypeParts
  DEF CancelEnds, ClockTypes, LinkTypes, clockVars, linkVars, bookVars, loopVars
<1>4. BlindWithin'
  BY <1>1, <1>3, BlindKept
  DEF CancelEnds, Slack, LinkTypes, clockVars, linkVars, bookVars, loopVars
<1> QED  BY <1>2, <1>3, <1>4, TypeParts

LEMMA ExitTradeInv == ASSUME Inv, ExitTrade PROVE Inv'
<1> USE DEF Inv
<1>1. ClockTypes /\ LinkTypes /\ BookTypes  BY TypeParts
<1>b. BookTypes' /\ Books' /\ ListedNotExited' /\ Counted("exit", "sleep")
  BY <1>1, ClosesKeepsBooks DEF ExitTrade
<1>2. BookTypes' /\ Books' /\ (pc' # "ended" => ListedNotExited')  BY <1>b
<1>3. ClockTypes' /\ LinkTypes'
  BY <1>1, <1>b, TypeParts
  DEF ExitTrade, Calls, Counted, ClockTypes, LinkTypes, clockVars, linkVars,
      bookVars, loopVars
<1>4. BlindWithin'
  BY <1>1, <1>b, <1>3, BlindKept
  DEF ExitTrade, Calls, Counted, Slack, LinkTypes, clockVars, linkVars,
      bookVars, loopVars
<1> QED  BY <1>2, <1>3, <1>4, TypeParts

LEMMA ExitEndsInv == ASSUME Inv, ExitEnds PROVE Inv'
<1> USE DEF Inv
<1>1. ClockTypes /\ LinkTypes /\ BookTypes  BY TypeParts
<1>2. BookTypes' /\ Books' /\ (pc' # "ended" => ListedNotExited')
  BY <1>1, BooksUnchanged DEF ExitEnds, bookVars
<1>3. ClockTypes' /\ LinkTypes'
  BY <1>1, TypeParts
  DEF ExitEnds, ClockTypes, LinkTypes, clockVars, linkVars, bookVars, loopVars
<1>4. BlindWithin'
  BY <1>1, <1>3, BlindKept
  DEF ExitEnds, Slack, LinkTypes, clockVars, linkVars, bookVars, loopVars
<1> QED  BY <1>2, <1>3, <1>4, TypeParts

LEMMA KillExitsInv == ASSUME Inv, KillExits PROVE Inv'
<1> USE DEF Inv
<1>1. ClockTypes /\ LinkTypes /\ BookTypes  BY TypeParts
<1>2. BookTypes' /\ Books' /\ (pc' # "ended" => ListedNotExited')
  BY <1>1, SellsAllKeepsBooks DEF KillExits
<1>3. ClockTypes' /\ LinkTypes'
  BY <1>1, TypeParts
  DEF KillExits, ClockTypes, LinkTypes, clockVars, linkVars, bookVars, loopVars
<1>4. BlindWithin'
  BY <1>1, <1>3, BlindKept
  DEF KillExits, Slack, LinkTypes, clockVars, linkVars, bookVars, loopVars
<1> QED  BY <1>2, <1>3, <1>4, TypeParts

LEMMA PlaceEntryInv == ASSUME Inv, PlaceEntry PROVE Inv'
<1> USE DEF Inv
<1>1. ClockTypes /\ LinkTypes /\ BookTypes  BY TypeParts
<1>2. BookTypes' /\ Books' /\ (pc' # "ended" => ListedNotExited')
  BY <1>1, BooksUnchanged DEF PlaceEntry, Works, bookVars
<1>3. ClockTypes' /\ LinkTypes'
  <2>1. pending' \in 0..MaxTrades
    BY <1>1 DEF PlaceEntry, LinkTypes, BookTypes
  <2>2. reconnecting' \in BOOLEAN  BY <1>1, FlagRead DEF PlaceEntry
  <2> QED
    BY <1>1, <2>1, <2>2 DEF PlaceEntry, Works, ClockTypes, LinkTypes, clockVars, loopVars
<1>4. BlindWithin'
  BY <1>1, <1>3, BlindKept
  DEF PlaceEntry, Works, Slack, LinkTypes, clockVars, linkVars, bookVars,
      loopVars
<1> QED  BY <1>2, <1>3, <1>4, TypeParts

LEMMA ActivateEntryInv == ASSUME Inv, ActivateEntry PROVE Inv'
<1> USE DEF Inv
<1>1. ClockTypes /\ LinkTypes /\ BookTypes  BY TypeParts
<1>b. BookTypes' /\ Books' /\ ListedNotExited' /\ Counted("sleep", "sleep")
  BY <1>1, ActivatesKeepsBooks DEF ActivateEntry, Works
<1>2. BookTypes' /\ Books' /\ (pc' # "ended" => ListedNotExited')  BY <1>b
<1>c. reconnecting' \in BOOLEAN  BY <1>1, FlagRead DEF ActivateEntry
<1>3. ClockTypes' /\ LinkTypes'
  BY <1>1, <1>c, <1>b, TypeParts
  DEF ActivateEntry, Works, Counted, ClockTypes, LinkTypes, clockVars, linkVars,
      bookVars, loopVars
<1>4. BlindWithin'
  BY <1>1, <1>b, <1>3, BlindKept
  DEF ActivateEntry, Works, Counted, Slack, LinkTypes, clockVars, linkVars,
      bookVars, loopVars
<1> QED  BY <1>2, <1>3, <1>4, TypeParts

LEMMA LoseEntryInv == ASSUME Inv, LoseEntry PROVE Inv'
<1> USE DEF Inv
<1>1. ClockTypes /\ LinkTypes /\ BookTypes  BY TypeParts
<1>2. BookTypes' /\ Books' /\ (pc' # "ended" => ListedNotExited')
  BY <1>1, BooksUnchanged DEF LoseEntry, Works, Calls, bookVars
<1>c. reconnecting' \in BOOLEAN  BY <1>1, FlagRead DEF LoseEntry
<1>3. ClockTypes' /\ LinkTypes'
  BY <1>1, <1>c, TypeParts
  DEF LoseEntry, Works, Calls, ClockTypes, LinkTypes, clockVars, linkVars,
      bookVars, loopVars
<1>4. BlindWithin'
  BY <1>1, <1>3, BlindKept
  DEF LoseEntry, Works, Calls, Slack, LinkTypes, clockVars, linkVars, bookVars,
      loopVars
<1> QED  BY <1>2, <1>3, <1>4, TypeParts

LEMMA CloseTradeInv == ASSUME Inv, CloseTrade PROVE Inv'
<1> USE DEF Inv
<1>1. ClockTypes /\ LinkTypes /\ BookTypes  BY TypeParts
<1>a. PICK i \in DOMAIN active : Closes(i, "sleep", "sleep")  BY DEF CloseTrade
<1>b. BookTypes' /\ Books' /\ ListedNotExited' /\ Counted("sleep", "sleep")
  BY <1>1, <1>a, ClosesKeepsBooks DEF CloseTrade, Works
<1>2. BookTypes' /\ Books' /\ (pc' # "ended" => ListedNotExited')  BY <1>b
<1>c. reconnecting' \in BOOLEAN  BY <1>1, FlagRead DEF CloseTrade
<1>3. ClockTypes' /\ LinkTypes'
  BY <1>1, <1>c, <1>b, TypeParts
  DEF CloseTrade, Works, Counted, ClockTypes, LinkTypes, clockVars, linkVars,
      bookVars, loopVars
<1>4. BlindWithin'
  BY <1>1, <1>b, <1>3, BlindKept
  DEF CloseTrade, Works, Counted, Slack, LinkTypes, clockVars, linkVars,
      bookVars, loopVars
<1> QED  BY <1>2, <1>3, <1>4, TypeParts

LEMMA NothingDoneInv == ASSUME Inv, NothingDone PROVE Inv'
<1> USE DEF Inv
<1>1. ClockTypes /\ LinkTypes /\ BookTypes  BY TypeParts
<1>2. BookTypes' /\ Books' /\ (pc' # "ended" => ListedNotExited')
  BY <1>1, BooksUnchanged DEF NothingDone, Works, Calls, bookVars
<1>c. reconnecting' \in BOOLEAN  BY <1>1, FlagRead DEF NothingDone
<1>3. ClockTypes' /\ LinkTypes'
  BY <1>1, <1>c, TypeParts
  DEF NothingDone, Works, Calls, ClockTypes, LinkTypes, clockVars, linkVars,
      bookVars, loopVars
<1>4. BlindWithin'
  BY <1>1, <1>3, BlindKept
  DEF NothingDone, Works, Calls, Slack, LinkTypes, clockVars, linkVars,
      bookVars, loopVars
<1> QED  BY <1>2, <1>3, <1>4, TypeParts

LEMMA WakeInv == ASSUME Inv, Wake PROVE Inv'
<1> USE DEF Inv
<1>1. ClockTypes /\ LinkTypes /\ BookTypes  BY TypeParts
<1>2. BookTypes' /\ Books' /\ (pc' # "ended" => ListedNotExited')
  BY <1>1, BooksUnchanged DEF Wake, bookVars
<1>3. ClockTypes' /\ LinkTypes'
  BY <1>1, TypeParts
  DEF Wake, ClockTypes, LinkTypes, clockVars, linkVars, bookVars, loopVars
<1>4. BlindWithin'
  <2>1. CASE pc = "sleep"
    <3>1. PICK d \in 0..LongPass : blind' = blind + d /\ due' = (due \/ d > 0)
      BY DEF Wake
    <3>2. pc' = "top" /\ faults' = faults /\ Slack = 0 /\ blind <= Allowance(faults)
          /\ faults \in Nat /\ blind \in Nat
      BY <1>1, <2>1 DEF Wake, Slack, BlindWithin, LinkTypes
    <3>3. /\ Allowance(faults) \in Nat
          /\ Allowance(faults + 1) = Allowance(faults) + LongPass
      BY <3>2, AllowanceGrows
    <3>4. CASE due'
      <4>1. Slack' = 1  BY <3>2, <3>4 DEF Slack
      <4>2. blind + d <= Allowance(faults + 1)  BY <3>1, <3>2, <3>3
      <4> QED  BY <3>1, <3>2, <4>1, <4>2 DEF BlindWithin, Allowance
    <3>5. CASE ~due'
      <4>1. Slack' = 0  BY <3>2, <3>5 DEF Slack
      <4>2. ~(d > 0)  BY <3>1, <3>5
      <4>3. d = 0 /\ d \in Nat  BY <4>2
      <4>4. blind + d <= Allowance(faults + 0)  BY <3>2, <4>3
      <4> QED  BY <3>1, <3>2, <4>1, <4>4 DEF BlindWithin, Allowance
    <3> QED  BY <3>4, <3>5
  <2> QED  BY <2>1 DEF Wake
<1> QED  BY <1>2, <1>3, <1>4, TypeParts

LEMMA ClockInv == ASSUME Inv, Clock PROVE Inv'
<1> USE DEF Inv
<1>1. ClockTypes /\ LinkTypes /\ BookTypes  BY TypeParts
<1>2. BookTypes' /\ Books' /\ (pc' # "ended" => ListedNotExited')
  BY <1>1, BooksUnchanged DEF Clock, bookVars
<1>3. ClockTypes' /\ LinkTypes'
  <2>1. period \in Periods /\ period # "after"  BY <1>1 DEF Clock, ClockTypes
  <2>2. period' \in Periods  BY <2>1 DEF Clock, Periods
  <2> QED
    BY <1>1, <2>2 DEF Clock, ClockTypes, LinkTypes, linkVars, bookVars, loopVars
<1>4. BlindWithin'
  BY <1>1, <1>3, BlindKept
  DEF Clock, Slack, LinkTypes, clockVars, linkVars, bookVars, loopVars
<1> QED  BY <1>2, <1>3, <1>4, TypeParts

LEMMA TouchKillFileInv == ASSUME Inv, TouchKillFile PROVE Inv'
<1> USE DEF Inv
<1>1. ClockTypes /\ LinkTypes /\ BookTypes  BY TypeParts
<1>2. BookTypes' /\ Books' /\ (pc' # "ended" => ListedNotExited')
  BY <1>1, BooksUnchanged DEF TouchKillFile, bookVars
<1>3. ClockTypes' /\ LinkTypes'
  BY <1>1, TypeParts
  DEF TouchKillFile, ClockTypes, LinkTypes, clockVars, linkVars, bookVars,
      loopVars
<1>4. BlindWithin'
  BY <1>1, <1>3, BlindKept
  DEF TouchKillFile, Slack, LinkTypes, clockVars, linkVars, bookVars, loopVars
<1> QED  BY <1>2, <1>3, <1>4, TypeParts

-----------------------------------------------------------------------------
(* The invariant, and what it says of a session.                           *)

LEMMA InitInv == ASSUME Init PROVE Inv
<1> USE DEF Init
<1>1. BookTypes /\ Books /\ ListedNotExited
  <2>1. active \in Seq(1..opened) /\ Len(active) = 0  BY EmptySeq
  <2> QED  BY <2>1 DEF BookTypes, Books, ListedNotExited, ExitOnce
<1>2. ClockTypes /\ LinkTypes
  <2>1. /\ 0 \in 0..(SqPasses + 1) /\ 0 \in 0..HaltAfter
        /\ 0 \in 0..MaxFaults /\ 0 \in 0..MaxTrades
    OBVIOUS
  <2>2. ClockTypes  BY <2>1 DEF ClockTypes
  <2>3. due \in BOOLEAN /\ reconnecting \in BOOLEAN /\ killFile \in BOOLEAN  OBVIOUS
  <2>4. blind \in Nat /\ at \in Nat \ {0}  OBVIOUS
  <2>5. LinkTypes  BY <2>1, <2>3, <2>4 DEF LinkTypes
  <2> QED  BY <2>2, <2>5
<1>3. BlindWithin
  <2>1. Slack = 0  BY DEF Slack
  <2> QED  BY <2>1 DEF BlindWithin, Allowance
<1> QED  BY <1>1, <1>2, <1>3, TypeParts DEF Inv

LEMMA StutterInv == ASSUME Inv, UNCHANGED vars PROVE Inv'
<1> USE DEF Inv, vars, clockVars, linkVars, bookVars, loopVars
<1>1. ClockTypes /\ LinkTypes /\ BookTypes  BY TypeParts
<1>2. BookTypes' /\ Books' /\ (pc' # "ended" => ListedNotExited')
  BY <1>1, BooksUnchanged
<1>3. ClockTypes' /\ LinkTypes'  BY <1>1 DEF ClockTypes, LinkTypes
<1>4. BlindWithin'  BY DEF BlindWithin, Slack, Allowance
<1> QED  BY <1>2, <1>3, <1>4, TypeParts

LEMMA StepInv == ASSUME Inv, [Next]_vars PROVE Inv'
<1>1. CASE HeartbeatSteps
  BY <1>1, NoHeartbeatInv, HeartbeatInv, FlattenInv, ResyncVerifiedInv,
     ResyncUnverifiedInv, SanitizePassesInv, SanitizeClosesInv, SanitizeEndsInv,
     HeartbeatCheckInv DEF HeartbeatSteps
<1>2. CASE Guards
  BY <1>2, OutsideHoursInv, SquareOffTimeInv, DailyLossInv, WithinLossInv,
     MarketCheckInv DEF Guards
<1>3. CASE Ending
  BY <1>3, KillSwitchInv, CancelEntryInv, CancelFindsFilledInv, CancelEndsInv,
     ExitTradeInv, ExitEndsInv, KillExitsInv DEF Ending
<1>4. CASE Work
  BY <1>4, PlaceEntryInv, ActivateEntryInv, LoseEntryInv, CloseTradeInv,
     NothingDoneInv DEF Work
<1>5. CASE Wake  BY <1>5, WakeInv
<1>6. CASE Clock  BY <1>6, ClockInv
<1>7. CASE TouchKillFile  BY <1>7, TouchKillFileInv
<1>8. CASE UNCHANGED vars  BY <1>8, StutterInv
<1> QED
  BY <1>1, <1>2, <1>3, <1>4, <1>5, <1>6, <1>7, <1>8 DEF Next, Pass

\* The inductive invariant of the main loop, for every path through a pass that
\* raises, ends the session or goes on.
THEOREM InvHolds == Spec => []Inv
<1>1. Init => Inv  BY InitInv
<1>2. Inv /\ [Next]_vars => Inv'  BY StepInv
<1> QED  BY <1>1, <1>2, PTL DEF Spec

\* However a session goes and ends, no trade is exited twice, and none leaves
\* the list without an exit.
THEOREM ExitedOnce == Spec => []ExitOnce
<1>1. Inv => ExitOnce  BY DEF Inv, Books
<1> QED  BY <1>1, InvHolds, PTL

\* The heartbeat stops a trader that has no answer from the broker in time.
THEOREM BlindnessBounded == Spec => []BlindIsBounded
<1>1. ASSUME Inv PROVE BlindIsBounded
  <2>1. TypeOK /\ blind <= Allowance(faults + Slack)  BY <1>1 DEF Inv, BlindWithin
  <2>2. faults \in 0..MaxFaults /\ Slack \in {0, 1} /\ blind \in Nat
    BY <2>1 DEF TypeOK, Slack
  <2>3. faults + Slack \in Nat /\ 1 + MaxFaults \in Nat /\ faults + Slack <= 1 + MaxFaults
    BY <2>2
  <2>4. /\ Allowance(faults + Slack) \in Nat /\ Allowance(1 + MaxFaults) \in Nat
        /\ Allowance(faults + Slack) <= Allowance(1 + MaxFaults)
    BY <2>3, AllowanceGrows
  <2>5. blind <= Allowance(1 + MaxFaults)  BY <2>1, <2>2, <2>4
  <2> QED  BY <2>1, <2>5 DEF BlindIsBounded, Allowance
<1> QED  BY <1>1, InvHolds, PTL
=============================================================================
