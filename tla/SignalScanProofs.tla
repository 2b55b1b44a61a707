--------------------------- MODULE SignalScanProofs ---------------------------
(***************************************************************************)
(* Proofs about the alerts of the RSI strategy, for every set of option    *)
(* symbols, validity, number of bars and number of restarts.               *)
(*                                                                         *)
(* The inductive invariant ties an alert's age to the bars it has seen,    *)
(* what was ordered to the last bar scanned, and the two files to each     *)
(* other.  The age counts what the history variable lived counts, and may  *)
(* be ahead of it: it survives a restart.  While a startup asks about the  *)
(* saved entries, those it has still to look at agree with the alerts it   *)
(* has restored.                                                           *)
(***************************************************************************)
EXTENDS SignalScan, TLAPS

\* The alert was noted at a bar that has closed, and has aged if that is a
\* later bar than its own.
AgeOfBars(a) ==
    a.alert # None =>
        /\ a.proc # None /\ a.alert <= a.proc /\ a.proc <= bar
        /\ a.alert < a.proc => a.age > 0

\* An alert is at least as old as it has lived in this run, and was noted at
\* the bar last scanned; the alerts on file are sane.
AlertsAged ==
    \A s \in Symbols :
        /\ AgeOfBars(strat[s]) /\ AgeOfBars(sfile[s])
        /\ strat[s].alert # None =>
              lived[s] <= strat[s].age /\ (seen[s] # None => strat[s].proc = seen[s])
        /\ seen[s] = None => lived[s] = 0
        /\ seen[s] # None => seen[s] <= bar

\* A scan asks about bars not seen yet, and its candidates are alerts of the
\* current bar for which this run has ordered nothing.
ScanSane ==
    /\ ~scanning => todo = {} /\ raised = {}
    /\ \A s \in todo : s \notin raised /\ (seen[s] = None \/ seen[s] < bar)
    /\ \A s \in raised :
         strat[s].alert = bar /\ seen[s] = bar /\ <<s, bar, restarts>> \notin placed

\* Whatever this run has ordered, it has scanned.
OrderedOnce ==
    \A s \in Symbols, b \in Bars, r \in 0..MaxRestarts : <<s, b, r>> \in placed =>
        /\ r <= restarts
        /\ r = restarts => seen[s] # None /\ b <= seen[s]

\* Entries and alerts belong together, in memory and, between the handlers,
\* on file, but for the entries astray.
FilesAgree ==
    /\ unsaved \in {{}, {"strategy"}, {"pending", "strategy"}}
    /\ unsaved = {"strategy"} => pfile = pending
    /\ \A s \in Symbols :
         /\ pending[s] # None => pending[s] = strat[s].alert \/ s \in astray
         /\ ~starting /\ unsaved = {} /\ pfile[s] # None =>
              pfile[s] = sfile[s].alert \/ s \in astray

Inv == TypeOK /\ AlertsAged /\ ScanSane /\ OrderedOnce /\ FilesAgree

\* A startup comes before the first scan; the entries that it has still to look
\* at have their alerts back, but for those that the crash tore from them.
StartSane ==
    starting =>
        /\ ~scanning /\ unsaved = {}
        /\ \A s \in unread :
             /\ pending[s] = None
             /\ s \notin torn /\ pfile[s] # None => pfile[s] = strat[s].alert

USE SignalScanAssumption DEF Bars, None

-----------------------------------------------------------------------------
LEMMA FreshFacts ==
    /\ Fresh \in States /\ Fresh.alert = None
    /\ NoStates \in [Symbols -> States] /\ NoEntries \in [Symbols -> Bars \cup {None}]
    /\ \A s \in Symbols : NoStates[s] = Fresh /\ NoEntries[s] = None
BY DEF Fresh, States, NoStates, NoEntries

LEMMA InitInv == ASSUME Init PROVE Inv
<1>1. TypeOK
  <2>1. bar \in Bars /\ restarts \in 0..MaxRestarts /\ lived \in [Symbols -> Nat]
    BY DEF Init
  <2> QED  BY <2>1, FreshFacts DEF Init, TypeOK
<1>2. AlertsAged  BY FreshFacts DEF Init, AlertsAged, AgeOfBars
<1>3. ScanSane /\ OrderedOnce  BY DEF Init, ScanSane, OrderedOnce
<1>4. FilesAgree  BY FreshFacts DEF Init, FilesAgree
<1> QED  BY <1>1, <1>2, <1>3, <1>4 DEF Inv

-----------------------------------------------------------------------------
(* The files.                                                              *)

LEMMA WritePendingInv == ASSUME Inv, WritePending PROVE Inv'
<1> USE DEF Inv, WritePending, scanVars, startVars
<1>1. unsaved = {"pending", "strategy"} /\ unsaved' = {"strategy"}
  BY DEF FilesAgree
<1>2. TypeOK'  BY <1>1 DEF TypeOK
<1>3. AlertsAged' /\ ScanSane' /\ OrderedOnce'
  BY DEF AlertsAged, AgeOfBars, ScanSane, OrderedOnce
<1>4. FilesAgree'  BY <1>1 DEF FilesAgree
<1> QED  BY <1>2, <1>3, <1>4

LEMMA WriteStrategyInv == ASSUME Inv, WriteStrategy PROVE Inv'
<1> USE DEF Inv, WriteStrategy, scanVars, startVars
<1>1. TypeOK'  BY DEF TypeOK
<1>2. AlertsAged' /\ ScanSane' /\ OrderedOnce'
  BY DEF AlertsAged, AgeOfBars, ScanSane, OrderedOnce
<1>3. FilesAgree'  BY DEF FilesAgree
<1> QED  BY <1>1, <1>2, <1>3

LEMMA CheckpointInv == ASSUME Inv, Checkpoint PROVE Inv'
<1> USE DEF Inv, Checkpoint, scanVars, startVars
<1>1. TypeOK'  BY DEF TypeOK
<1>2. AlertsAged' /\ ScanSane' /\ OrderedOnce'
  BY DEF AlertsAged, AgeOfBars, ScanSane, OrderedOnce
<1>3. FilesAgree'  BY DEF FilesAgree
<1> QED  BY <1>1, <1>2, <1>3

-----------------------------------------------------------------------------
(* The scan.                                                               *)

LEMMA NewBarInv == ASSUME Inv, NewBar PROVE Inv'
<1> USE DEF Inv, NewBar, scanVars, fileVars, startVars
<1>1. TypeOK'  BY DEF TypeOK
<1>2. AlertsAged'
  <2>1. \A s \in Symbols : strat[s] \in States /\ sfile[s] \in States
                           /\ seen[s] \in Bars \cup {None}
    BY DEF TypeOK
  <2> QED  BY <2>1 DEF TypeOK, States, AlertsAged, AgeOfBars
<1>3. ScanSane' /\ OrderedOnce'  BY DEF ScanSane, OrderedOnce
<1>4. FilesAgree'  BY DEF FilesAgree
<1> QED  BY <1>1, <1>2, <1>3, <1>4

LEMMA StartScanInv == ASSUME Inv, StartScan PROVE Inv'
<1> USE DEF Inv, StartScan, fileVars, startVars
<1>1. TypeOK'  BY DEF TypeOK
<1>2. AlertsAged' /\ OrderedOnce'  BY DEF AlertsAged, AgeOfBars, OrderedOnce
<1>3. ScanSane'  BY DEF ScanSane, Scannable, TypeOK
<1>4. FilesAgree'  BY DEF FilesAgree
<1> QED  BY <1>1, <1>2, <1>3, <1>4

\* The records that check_signal makes of an alert.
LEMMA StateFacts ==
    ASSUME NEW a \in States, NEW b \in Bars
    PROVE  /\ a.alert \in Bars \cup {None} /\ a.age \in 0..Validity
           /\ a.proc \in Bars \cup {None}
           /\ Cleared(a) = [alert |-> None, age |-> 0, proc |-> a.proc]
           /\ [a EXCEPT !.proc = b] = [alert |-> a.alert, age |-> a.age, proc |-> b]
           /\ [Cleared(a) EXCEPT !.proc = b] = [alert |-> None, age |-> 0, proc |-> b]
           /\ \A n : [a EXCEPT !.age = n, !.proc = b] = [alert |-> a.alert, age |-> n, proc |-> b]
<1>1. /\ a = [alert |-> a.alert, age |-> a.age, proc |-> a.proc]
      /\ a.alert \in Bars \cup {None} /\ a.age \in 0..Validity
      /\ a.proc \in Bars \cup {None}
  BY DEF States
<1>2. Cleared(a) = [alert |-> None, age |-> 0, proc |-> a.proc]
  <2> DEFINE c == [a EXCEPT !.alert = None]
  <2>1. c = [alert |-> None, age |-> a.age, proc |-> a.proc]  BY <1>1
  <2>2. Cleared(a) = [c EXCEPT !.age = 0]  BY DEF Cleared
  <2> QED  BY <2>1, <2>2
<1>3. [a EXCEPT !.proc = b] = [alert |-> a.alert, age |-> a.age, proc |-> b]
  BY <1>1
<1>4. [Cleared(a) EXCEPT !.proc = b] = [alert |-> None, age |-> 0, proc |-> b]
  BY <1>2
<1>5. ASSUME NEW n
      PROVE  [a EXCEPT !.age = n, !.proc = b] = [alert |-> a.alert, age |-> n, proc |-> b]
  <2> DEFINE c == [a EXCEPT !.age = n]
  <2>1. c = [alert |-> a.alert, age |-> n, proc |-> a.proc]  BY <1>1
  <2>2. [a EXCEPT !.age = n, !.proc = b] = [c EXCEPT !.proc = b]  OBVIOUS
  <2> HIDE DEF c
  <2> QED  BY <2>1, <2>2
<1> QED  BY <1>1, <1>2, <1>3, <1>4, <1>5

LEMMA RecordsAreStates ==
    ASSUME NEW alert \in Bars \cup {None}, NEW age \in 0..Validity,
           NEW proc \in Bars \cup {None}
    PROVE  [alert |-> alert, age |-> age, proc |-> proc] \in States
BY DEF States

\* An alert that is cleared is no alert.
LEMMA ClearedFacts ==
    ASSUME NEW a \in States PROVE Cleared(a) \in States /\ Cleared(a).alert = None
<1>1. 0 \in Bars /\ 0 \in 0..Validity  OBVIOUS
<1>2. a.proc \in Bars \cup {None} /\ Cleared(a) = [alert |-> None, age |-> 0, proc |-> a.proc]
  BY <1>1, StateFacts
<1>3. Cleared(a) \in States  BY <1>1, <1>2, RecordsAreStates
<1> QED  BY <1>2, <1>3

\* What check_signal leaves of an alert: it ages, it is new, or there is none.
LEMMA CheckedFacts ==
    ASSUME Inv, NEW s \in Symbols
    PROVE  /\ Checked(s) \in States
           /\ Keeps(s) => /\ Checked(s).alert = strat[s].alert
                          /\ Checked(s).age = AgeAt(strat[s])
                          /\ Checked(s).proc = bar
           /\ Raises(s) => /\ Checked(s).alert = bar /\ Checked(s).proc = bar
                           /\ strat[s].alert = None
           /\ ~Keeps(s) /\ ~Raises(s) => Checked(s).alert = None
<1> DEFINE a == strat[s]
<1>1. a \in States /\ bar \in Bars /\ 0 \in 0..Validity  BY DEF Inv, TypeOK
<1>2. a.alert \in Bars \cup {None} /\ a.age \in 0..Validity /\ a.proc \in Bars \cup {None}
  BY <1>1, StateFacts
<1>3. CASE Expires(a)
  <2>1. ~Keeps(s) /\ ~Raises(s) /\ ~Negates(s)
    BY <1>3 DEF Keeps, Raises, Negates, Expires
  <2>2. Checked(s) = Cleared(a)  BY <1>3, <2>1 DEF Checked
  <2> QED  BY <1>1, <2>1, <2>2, ClearedFacts
<1>4. CASE ~Expires(a) /\ Negates(s)
  <2>1. Checked(s) = [Cleared(a) EXCEPT !.proc = bar] /\ ~Keeps(s) /\ ~Raises(s)
    BY <1>4 DEF Checked, Keeps, Raises, Negates
  <2>2. Checked(s) = [alert |-> None, age |-> 0, proc |-> bar]
    BY <1>1, <2>1, StateFacts
  <2> QED  BY <1>1, <2>1, <2>2, RecordsAreStates
<1>5. CASE Keeps(s)
  <2>1. Checked(s) = [a EXCEPT !.age = AgeAt(a), !.proc = bar] /\ ~Raises(s)
    BY <1>5 DEF Checked, Keeps, Raises, Negates
  <2>2. AgeAt(a) \in 0..Validity  BY <1>2, <1>5 DEF Keeps, Expires, AgeAt
  <2>3. Checked(s) = [alert |-> a.alert, age |-> AgeAt(a), proc |-> bar]
    BY <1>1, <2>1, StateFacts
  <2>4. Checked(s) \in States  BY <1>1, <1>2, <2>2, <2>3, RecordsAreStates
  <2> QED  BY <1>5, <2>1, <2>3, <2>4
<1>6. CASE Raises(s)
  <2>1. Checked(s) = [alert |-> bar, age |-> 0, proc |-> bar] /\ ~Keeps(s)
    BY <1>6 DEF Checked, Keeps, Raises, Negates, Expires
  <2>2. strat[s].alert = None  BY <1>6 DEF Raises
  <2> QED  BY <1>1, <1>6, <2>1, <2>2, RecordsAreStates
<1>7. CASE ~Expires(a) /\ ~Negates(s) /\ ~Keeps(s) /\ ~Raises(s)
  <2>1. Checked(s) = [a EXCEPT !.proc = bar] /\ a.alert = None
    BY <1>7 DEF Checked, Keeps
  <2>2. Checked(s) = [alert |-> None, age |-> a.age, proc |-> bar]
    BY <1>1, <2>1, StateFacts
  <2> QED  BY <1>1, <1>2, <1>7, <2>2, RecordsAreStates
<1> QED  BY <1>3, <1>4, <1>5, <1>6, <1>7

\* The alert of the symbol that gets its answer is as old as it has lived.
LEMMA AskedAge ==
    ASSUME Inv, NEW s \in Symbols, Ask(s), strat'[s].alert # None
    PROVE  /\ strat'[s].proc = bar /\ strat'[s].alert <= bar
           /\ strat'[s].alert < bar => strat'[s].age > 0
           /\ lived'[s] <= strat'[s].age
<1> DEFINE a == strat[s]
<1>1. a \in States /\ bar \in Bars /\ lived[s] \in Nat /\ seen[s] \in Bars \cup {None}
  BY DEF Inv, TypeOK
<1>2. a.alert \in Bars \cup {None} /\ a.age \in 0..Validity /\ a.proc \in Bars \cup {None}
  BY <1>1 DEF States
<1>3. /\ strat'[s] = Checked(s)
      /\ lived'[s] = IF ~Keeps(s) THEN 0
                     ELSE IF bar > a.alert /\ seen[s] # bar THEN lived[s] + 1
                     ELSE lived[s]
  BY DEF Ask, Inv, TypeOK
<1>4. Checked(s) \in States  BY CheckedFacts
<1>5. CASE Keeps(s)
  <2>1. /\ strat'[s].alert = a.alert /\ strat'[s].age = AgeAt(a)
        /\ strat'[s].proc = bar /\ a.alert # None
    BY <1>3, <1>5, CheckedFacts DEF Keeps
  <2>2. /\ a.proc # None /\ a.alert <= a.proc /\ a.proc <= bar
        /\ a.alert < a.proc => a.age > 0
        /\ lived[s] <= a.age /\ (seen[s] # None => a.proc = seen[s])
        /\ seen[s] = None => lived[s] = 0
    BY <2>1 DEF Inv, AlertsAged, AgeOfBars
  <2>3. AgeAt(a) = IF bar > a.proc /\ bar > a.alert THEN a.age + 1 ELSE a.age
    BY <2>2 DEF AgeAt
  <2> HIDE DEF a
  <2> QED  BY <1>1, <1>2, <1>3, <1>5, <2>1, <2>2, <2>3
<1>6. CASE Raises(s)
  <2>1. strat'[s].alert = bar /\ strat'[s].proc = bar /\ a.alert = None
    BY <1>3, <1>6, CheckedFacts
  <2>2. ~Keeps(s)  BY <2>1 DEF Keeps
  <2>3. lived'[s] = 0 /\ strat'[s].age \in Nat  BY <1>3, <1>4, <2>2 DEF States
  <2> QED  BY <1>1, <2>1, <2>3
<1> QED  BY <1>3, <1>5, <1>6, CheckedFacts

\* The step shared by the answers: all but the entries and the files.
LEMMA AskInv ==
    ASSUME Inv, NEW s \in Symbols, Ask(s), UNCHANGED <<pfile, sfile>>,
           \/ raised' = raised
           \/ Raises(s) /\ raised' = raised \cup {s}
    PROVE  /\ strat' \in [Symbols -> States] /\ seen' \in [Symbols -> Bars \cup {None}]
           /\ lived' \in [Symbols -> Nat] /\ todo' \subseteq Symbols
           /\ raised' \subseteq Symbols
           /\ AlertsAged' /\ ScanSane' /\ OrderedOnce'
<1>1. /\ strat \in [Symbols -> States] /\ seen \in [Symbols -> Bars \cup {None}]
      /\ lived \in [Symbols -> Nat] /\ todo \subseteq Symbols /\ raised \subseteq Symbols
      /\ bar \in Bars /\ placed \subseteq Symbols \X Bars \X (0..MaxRestarts)
  BY DEF Inv, TypeOK
<1>2. /\ s \in todo /\ todo' = todo \ {s}
      /\ strat' = [strat EXCEPT ![s] = Checked(s)] /\ seen' = [seen EXCEPT ![s] = bar]
      /\ UNCHANGED <<bar, scanning, placed, restarts>>
  BY DEF Ask
<1>3. strat' \in [Symbols -> States] /\ seen' \in [Symbols -> Bars \cup {None}]
      /\ todo' \subseteq Symbols /\ raised' \subseteq Symbols
  BY <1>1, <1>2, CheckedFacts
<1>4. /\ lived' \in [Symbols -> Nat]
      /\ \A p \in Symbols \ {s} : lived'[p] = lived[p]
  BY <1>1 DEF Ask
<1>5. \A p \in Symbols \ {s} : strat'[p] = strat[p] /\ seen'[p] = seen[p]
  BY <1>1, <1>2
<1>6. seen'[s] = bar /\ bar # None  BY <1>1, <1>2
<1>7. AlertsAged'
  <2> SUFFICES ASSUME NEW p \in Symbols
               PROVE  /\ AgeOfBars(strat[p])' /\ AgeOfBars(sfile[p])'
                      /\ strat'[p].alert # None =>
                            /\ lived'[p] <= strat'[p].age
                            /\ seen'[p] # None => strat'[p].proc = seen'[p]
                      /\ seen'[p] = None => lived'[p] = 0
                      /\ seen'[p] # None => seen'[p] <= bar'
    BY DEF AlertsAged
  <2>1. AgeOfBars(sfile[p])'  BY <1>2 DEF Inv, AlertsAged, AgeOfBars
  <2>2. CASE p = s
    BY <1>1, <1>2, <1>6, <2>1, <2>2, AskedAge DEF AgeOfBars
  <2>3. CASE p # s
    BY <1>2, <1>4, <1>5, <2>1, <2>3 DEF Inv, AlertsAged, AgeOfBars
  <2> QED  BY <2>2, <2>3
<1>8. ScanSane'
  <2>1. scanning  BY <1>2 DEF Inv, ScanSane
  <2>2. \A p \in todo' : p \notin raised' /\ (seen'[p] = None \/ seen'[p] < bar)
    BY <1>1, <1>2, <1>5 DEF Inv, ScanSane
  <2>3. ASSUME NEW p \in raised'
        PROVE  strat'[p].alert = bar /\ seen'[p] = bar /\ <<p, bar, restarts>> \notin placed
    <3>1. CASE p = s
      <4>1. s \notin raised  BY <1>2 DEF Inv, ScanSane
      <4>2. Raises(s)  BY <3>1, <4>1
      <4>3. strat'[s].alert = bar  BY <1>1, <1>2, <4>2, CheckedFacts
      <4>4. seen[s] = None \/ seen[s] < bar  BY <1>2 DEF Inv, ScanSane
      <4>5. <<s, bar, restarts>> \notin placed
        BY <1>1, <4>4 DEF Inv, OrderedOnce, TypeOK
      <4> QED  BY <1>6, <3>1, <4>3, <4>5
    <3>2. CASE p # s  BY <1>1, <1>5, <3>2 DEF Inv, ScanSane
    <3> QED  BY <3>1, <3>2
  <2> QED  BY <1>2, <2>1, <2>2, <2>3 DEF ScanSane
<1>9. OrderedOnce'
  <2> SUFFICES ASSUME NEW p \in Symbols, NEW b \in Bars, <<p, b, restarts>> \in placed
               PROVE  seen'[p] # None /\ b <= seen'[p]
    BY <1>2 DEF Inv, OrderedOnce
  <2>1. restarts \in 0..MaxRestarts  BY DEF Inv, TypeOK
  <2>2. seen[p] # None /\ b <= seen[p]  BY <2>1 DEF Inv, OrderedOnce
  <2>3. seen[p] <= bar  BY <2>2 DEF Inv, AlertsAged
  <2>4. seen[p] \in Bars  BY <1>1, <2>2
  <2> QED  BY <1>1, <1>5, <1>6, <2>2, <2>3, <2>4
<1> QED  BY <1>3, <1>4, <1>7, <1>8, <1>9

\* An entry keeps its alert while the strategy answers to keep it, and an
\* entry without one was astray before.
LEMMA AskedAlert ==
    ASSUME Inv, NEW s \in Symbols, Ask(s), ~(Expires(strat[s]) \/ Negates(s)),
           NEW p \in Symbols, pending[p] # None
    PROVE  pending[p] = strat'[p].alert \/ p \in astray
<1>1. strat'[p] = IF p = s THEN Checked(s) ELSE strat[p]  BY DEF Ask, Inv, TypeOK
<1>2. pending[p] = strat[p].alert \/ p \in astray  BY DEF Inv, FilesAgree
<1>3. CASE p = s /\ strat[s].alert # None
  <2>1. Keeps(s)  BY <1>3 DEF Keeps
  <2> QED  BY <1>1, <1>2, <1>3, <2>1, CheckedFacts
<1>4. CASE p = s /\ strat[s].alert = None  BY <1>2, <1>4
<1>5. CASE p # s  BY <1>1, <1>2, <1>5
<1> QED  BY <1>3, <1>4, <1>5

LEMMA AskOnlyInv == ASSUME Inv, NEW s \in Symbols, AskOnly(s) PROVE Inv'
<1>1. Ask(s) /\ UNCHANGED <<bar, kind, scanning, placed, restarts, starting, unread, torn>>
      /\ UNCHANGED <<pending, trade, unsaved, pfile, sfile, astray>>
  BY DEF AskOnly, Ask, fileVars, startVars
<1>2. raised' = raised \/ (Raises(s) /\ raised' = raised \cup {s})  BY DEF AskOnly
<1>3. /\ strat' \in [Symbols -> States] /\ seen' \in [Symbols -> Bars \cup {None}]
      /\ lived' \in [Symbols -> Nat] /\ todo' \subseteq Symbols
      /\ raised' \subseteq Symbols
      /\ AlertsAged' /\ ScanSane' /\ OrderedOnce'
  BY <1>1, <1>2, AskInv
<1>4. TypeOK'  BY <1>1, <1>3 DEF Inv, TypeOK
<1>5. FilesAgree'
  <2>1. ASSUME NEW p \in Symbols, pending[p] # None
        PROVE  pending[p] = strat'[p].alert \/ p \in astray
    <3>1. CASE ~(Expires(strat[s]) \/ Negates(s))  BY <1>1, <2>1, <3>1, AskedAlert
    <3>2. CASE pending[s] = None
      BY <2>1, <3>2 DEF AskOnly, Ask, Inv, TypeOK, FilesAgree
    <3> QED  BY <3>1, <3>2 DEF AskOnly
  <2> QED  BY <1>1, <2>1 DEF Inv, FilesAgree
<1> QED  BY <1>3, <1>4, <1>5 DEF Inv

LEMMA AskAndCancelInv == ASSUME Inv, NEW s \in Symbols, AskAndCancel(s) PROVE Inv'
<1>1. Ask(s) /\ UNCHANGED <<bar, kind, scanning, placed, restarts, starting, unread, torn>>
      /\ UNCHANGED <<raised, pfile, sfile>>
  BY DEF AskAndCancel, Ask, fileVars, SavesBoth, startVars
<1>2. /\ strat' \in [Symbols -> States] /\ seen' \in [Symbols -> Bars \cup {None}]
      /\ lived' \in [Symbols -> Nat] /\ todo' \subseteq Symbols
      /\ raised' \subseteq Symbols
      /\ AlertsAged' /\ ScanSane' /\ OrderedOnce'
  BY <1>1, AskInv
<1>3. \A p \in Symbols \ {s} : strat'[p] = strat[p]
  BY DEF AskAndCancel, Ask, Inv, TypeOK
<1>4. CASE Untracked(s) /\ trade' \in {trade, TRUE} /\ SavesBoth
  <2>1. TypeOK'
    <3>1. pending' \in [Symbols -> Bars \cup {None}] /\ astray' \subseteq Symbols
      BY <1>4 DEF Untracked, Inv, TypeOK
    <3>2. trade' \in BOOLEAN /\ unsaved' \subseteq {"pending", "strategy"}
      BY <1>4 DEF SavesBoth, Inv, TypeOK
    <3> QED  BY <1>1, <1>2, <3>1, <3>2 DEF Inv, TypeOK
  <2>2. unsaved' = {"pending", "strategy"}  BY <1>4 DEF SavesBoth
  <2>3. ASSUME NEW p \in Symbols, pending'[p] # None
        PROVE  pending'[p] = strat'[p].alert \/ p \in astray'
    <3>1. p # s /\ pending'[p] = pending[p] /\ (p \in astray => p \in astray')
      BY <1>4, <2>3 DEF Untracked, Inv, TypeOK
    <3> QED  BY <1>3, <2>3, <3>1 DEF Inv, FilesAgree
  <2>4. FilesAgree'  BY <2>2, <2>3 DEF FilesAgree
  <2> QED  BY <1>2, <2>1, <2>4 DEF Inv
<1>5. CASE astray' = astray \cup {s} /\ UNCHANGED <<pending, trade, fileVars>>
  <2>1. TypeOK'  BY <1>1, <1>2, <1>5 DEF fileVars, Inv, TypeOK
  <2>2. FilesAgree'  BY <1>1, <1>3, <1>5 DEF fileVars, Inv, FilesAgree
  <2> QED  BY <1>2, <2>1, <2>2 DEF Inv
<1> QED  BY <1>4, <1>5 DEF AskAndCancel

\* The end of a scan leaves no candidate.
LEMMA EndsScanInv == ASSUME Inv, EndsScan, UNCHANGED <<sfile, placed>>,
                            UNCHANGED strat
                     PROVE  AlertsAged' /\ ScanSane' /\ OrderedOnce'
BY DEF Inv, EndsScan, AlertsAged, AgeOfBars, ScanSane, OrderedOnce

LEMMA NothingPlacedInv == ASSUME Inv, NothingPlaced PROVE Inv'
<1>1. AlertsAged' /\ ScanSane' /\ OrderedOnce'
  BY EndsScanInv DEF NothingPlaced, fileVars
<1>2. TypeOK' /\ FilesAgree'
  BY DEF NothingPlaced, EndsScan, fileVars, startVars, Inv, TypeOK, FilesAgree
<1> QED  BY <1>1, <1>2 DEF Inv

LEMMA AlertConsumedInv == ASSUME Inv, NEW s \in Symbols, AlertConsumed(s) PROVE Inv'
<1>1. /\ EndsScan /\ strat' = [strat EXCEPT ![s] = Cleared(strat[s])]
      /\ UNCHANGED <<pending, unsaved, pfile, sfile, placed, astray>>
      /\ \A p \in Symbols : pending[p] = None
  BY DEF AlertConsumed, fileVars, Busy
<1>2. strat[s] \in States  BY DEF Inv, TypeOK
<1>3. /\ strat' \in [Symbols -> States] /\ strat'[s].alert = None
      /\ \A p \in Symbols \ {s} : strat'[p] = strat[p]
  BY <1>1, <1>2, ClearedFacts DEF Inv, TypeOK
<1>4. TypeOK'  BY <1>1, <1>3 DEF EndsScan, startVars, Inv, TypeOK
<1>5. AlertsAged'  BY <1>1, <1>3 DEF EndsScan, Inv, AlertsAged, AgeOfBars
<1>6. ScanSane' /\ OrderedOnce'  BY <1>1 DEF EndsScan, Inv, ScanSane, OrderedOnce
<1>7. FilesAgree'  BY <1>1 DEF EndsScan, startVars, Inv, FilesAgree
<1> QED  BY <1>4, <1>5, <1>6, <1>7 DEF Inv

LEMMA EntryPlacedInv == ASSUME Inv, NEW s \in Symbols, EntryPlaced(s) PROVE Inv'
<1>1. /\ EndsScan /\ s \in raised
      /\ pending' = [pending EXCEPT ![s] = strat[s].alert]
      /\ placed' = placed \cup {<<s, strat[s].alert, restarts>>}
      /\ unsaved' = {"pending", "strategy"}
      /\ UNCHANGED <<strat, pfile, sfile, astray>>
      /\ \A p \in Symbols : pending[p] = None
  BY DEF EntryPlaced, SavesEntry, SavesBoth, Busy
<1>2. strat[s].alert = bar /\ seen[s] = bar /\ bar \in Bars /\ restarts \in 0..MaxRestarts
  BY <1>1 DEF Inv, ScanSane, TypeOK
<1>3. TypeOK'
  <2>1. pending' \in [Symbols -> Bars \cup {None}]  BY <1>1, <1>2 DEF Inv, TypeOK
  <2>2. placed' \subseteq Symbols \X Bars \X (0..MaxRestarts)
    BY <1>1, <1>2 DEF Inv, TypeOK
  <2> QED  BY <1>1, <2>1, <2>2 DEF EndsScan, startVars, Inv, TypeOK
<1>4. AlertsAged' /\ ScanSane'
  BY <1>1 DEF EndsScan, Inv, AlertsAged, AgeOfBars, ScanSane
<1>5. OrderedOnce'
  <2> SUFFICES ASSUME NEW p \in Symbols, NEW b \in Bars, NEW r \in 0..MaxRestarts,
                      <<p, b, r>> \in placed'
               PROVE  /\ r <= restarts
                      /\ r = restarts => seen[p] # None /\ b <= seen[p]
    BY <1>1 DEF EndsScan, OrderedOnce
  <2>1. CASE <<p, b, r>> = <<s, bar, restarts>>
    <3>1. p = s /\ b = bar /\ r = restarts  BY <2>1
    <3> QED  BY <1>2, <3>1
  <2>2. CASE <<p, b, r>> \in placed  BY <2>2 DEF Inv, OrderedOnce
  <2> QED  BY <1>1, <1>2, <2>1, <2>2
<1>6. FilesAgree'
  <2>1. ASSUME NEW p \in Symbols, pending'[p] # None
        PROVE  pending'[p] = strat'[p].alert
    BY <1>1, <2>1 DEF Inv, TypeOK
  <2> QED  BY <1>1, <2>1 DEF FilesAgree
<1> QED  BY <1>3, <1>4, <1>5, <1>6 DEF Inv

-----------------------------------------------------------------------------
(* Outside the scan.                                                       *)

LEMMA ResolveInv == ASSUME Inv, NEW s \in Symbols, Resolve(s) PROVE Inv'
<1>1. /\ pending' = [pending EXCEPT ![s] = None] /\ astray' = astray \ {s}
      /\ strat' = [strat EXCEPT ![s] = Cleared(strat[s])] \/ strat' = strat
      /\ unsaved' = {"pending", "strategy"}
      /\ UNCHANGED <<pfile, sfile, bar, kind, seen, todo, scanning, raised, lived,
                     placed, restarts, starting, unread, torn>>
      /\ ~scanning
  BY DEF Resolve, Untracked, SavesBoth, scanVars, startVars
<1>2. trade' \in BOOLEAN  BY DEF Resolve, Inv, TypeOK
<1>3. strat[s] \in States  BY DEF Inv, TypeOK
<1>4. /\ strat' \in [Symbols -> States]
      /\ \A p \in Symbols : strat'[p] = strat[p] \/ (p = s /\ strat'[p].alert = None)
  BY <1>1, <1>3, ClearedFacts DEF Inv, TypeOK
<1>5. TypeOK'
  <2>1. pending' \in [Symbols -> Bars \cup {None}]  BY <1>1 DEF Inv, TypeOK
  <2> QED  BY <1>1, <1>2, <1>4, <2>1 DEF Inv, TypeOK
<1>6. AlertsAged'  BY <1>1, <1>4 DEF Inv, AlertsAged, AgeOfBars
<1>7. ScanSane' /\ OrderedOnce'  BY <1>1 DEF Inv, ScanSane, OrderedOnce
<1>8. FilesAgree'
  <2>1. ASSUME NEW p \in Symbols, pending'[p] # None
        PROVE  pending'[p] = strat'[p].alert \/ p \in astray'
    <3>1. p # s /\ pending'[p] = pending[p]  BY <1>1, <2>1 DEF Inv, TypeOK
    <3> QED  BY <1>1, <1>4, <2>1, <3>1 DEF Inv, FilesAgree
  <2> QED  BY <1>1, <2>1 DEF FilesAgree
<1> QED  BY <1>5, <1>6, <1>7, <1>8 DEF Inv

LEMMA TradeClosesInv == ASSUME Inv, TradeCloses PROVE Inv'
<1> USE DEF Inv, TradeCloses, scanVars, fileVars, startVars
<1>1. TypeOK' /\ FilesAgree'  BY DEF TypeOK, FilesAgree
<1>2. AlertsAged' /\ ScanSane' /\ OrderedOnce'
  BY DEF AlertsAged, AgeOfBars, ScanSane, OrderedOnce
<1> QED  BY <1>1, <1>2

LEMMA RestartInv == ASSUME Inv, Restart PROVE Inv'
<1>1. /\ strat' = sfile /\ sfile' = NoStates /\ pending' = NoEntries /\ astray' = {}
      /\ starting' = TRUE /\ unread' = {s \in Symbols : pfile[s] # None}
      /\ torn' = Symbols \/ torn' = astray
      /\ unsaved' = {} /\ seen' = NoEntries
      /\ todo' = {} /\ scanning' = FALSE /\ raised' = {} /\ trade' = FALSE
      /\ lived' = [s \in Symbols |-> 0] /\ restarts' = restarts + 1
      /\ restarts < MaxRestarts /\ UNCHANGED <<bar, kind, placed, pfile>>
  BY DEF Restart, ProcessedBars, Imported
<1>2. TypeOK'
  <2>1. restarts' \in 0..MaxRestarts  BY <1>1 DEF Inv, TypeOK
  <2>2. torn' \subseteq Symbols /\ unread' \subseteq Symbols  BY <1>1 DEF Inv, TypeOK
  <2> QED  BY <1>1, <2>1, <2>2, FreshFacts DEF Inv, TypeOK
<1>3. AlertsAged'
  <2>1. \A s \in Symbols : seen'[s] = None /\ lived'[s] = 0  BY <1>1, FreshFacts
  <2>2. \A s \in Symbols : strat'[s].age \in Nat
    BY <1>1 DEF Inv, TypeOK, States
  <2>3. \A s \in Symbols : AgeOfBars(strat[s])' /\ AgeOfBars(sfile[s])'
    BY <1>1, FreshFacts DEF Inv, AlertsAged, AgeOfBars
  <2> QED  BY <2>1, <2>2, <2>3 DEF AlertsAged
<1>4. ScanSane'  BY <1>1 DEF ScanSane
<1>5. OrderedOnce'
  <2> SUFFICES ASSUME NEW s \in Symbols, NEW b \in Bars, NEW r \in 0..MaxRestarts,
                      <<s, b, r>> \in placed
               PROVE  r < restarts'
    BY <1>1, <1>2 DEF OrderedOnce, TypeOK
  <2>1. r <= restarts /\ restarts \in Nat  BY DEF Inv, OrderedOnce, TypeOK
  <2> QED  BY <1>1, <2>1
<1>6. FilesAgree'  BY <1>1, FreshFacts DEF FilesAgree
<1> QED  BY <1>2, <1>3, <1>4, <1>5, <1>6 DEF Inv

\* A saved entry is resumed, found filled, or dropped.
LEMMA ReconcileInv == ASSUME Inv, StartSane, NEW s \in Symbols, Reconcile(s) PROVE Inv'
<1>1. /\ starting /\ s \in unread /\ unread' = unread \ {s}
      /\ UNCHANGED <<bar, kind, seen, todo, scanning, raised, trade, unsaved, pfile, lived,
                     placed, starting, torn, restarts>>
  BY DEF Reconcile, scanVars
<1>2. ~scanning /\ raised = {} /\ pending[s] = None /\ unsaved = {}
  BY <1>1 DEF StartSane, Inv, ScanSane
<1>3. CASE Resumed(s)
  <2>1. TypeOK'
    <3>1. pending' \in [Symbols -> Bars \cup {None}] /\ astray' \subseteq Symbols
      BY <1>3 DEF Resumed, Inv, TypeOK
    <3> QED  BY <1>1, <1>3, <3>1 DEF Resumed, Inv, TypeOK
  <2>2. AlertsAged' /\ ScanSane' /\ OrderedOnce'
    BY <1>1, <1>3 DEF Resumed, Inv, AlertsAged, AgeOfBars, ScanSane, OrderedOnce
  <2>3. FilesAgree'
    <3>1. ASSUME NEW p \in Symbols, pending'[p] # None
          PROVE  pending'[p] = strat'[p].alert \/ p \in astray'
      <4>1. CASE p = s  BY <1>3, <4>1 DEF Resumed, Inv, TypeOK
      <4>2. CASE p # s
        BY <1>3, <3>1, <4>2 DEF Resumed, Inv, TypeOK, FilesAgree
      <4> QED  BY <4>1, <4>2
    <3> QED  BY <1>1, <1>2, <3>1 DEF Inv, FilesAgree
  <2> QED  BY <2>1, <2>2, <2>3 DEF Inv
<1>4. CASE Filled(s)
  <2>1. strat' = [strat EXCEPT ![s] = Cleared(strat[s])]
    BY <1>4 DEF Filled
  <2>2. strat[s] \in States  BY DEF Inv, TypeOK
  <2>3. /\ strat' \in [Symbols -> States] /\ strat'[s].alert = None
        /\ \A p \in Symbols \ {s} : strat'[p] = strat[p]
    BY <2>1, <2>2, ClearedFacts DEF Inv, TypeOK
  <2>4. UNCHANGED <<pending, astray>> /\ (sfile' = sfile \/ sfile' = strat')
    BY <1>4 DEF Filled
  <2>5. TypeOK'  BY <1>1, <2>3, <2>4 DEF Inv, TypeOK
  <2>6. AlertsAged'
    <3>1. \A p \in Symbols : strat'[p] = strat[p] \/ strat'[p].alert = None
      BY <2>3
    <3>2. \A p \in Symbols : AgeOfBars(strat[p])'
      BY <1>1, <3>1 DEF Inv, AlertsAged, AgeOfBars
    <3>3. \A p \in Symbols : AgeOfBars(sfile[p])'
      BY <1>1, <2>4, <3>2 DEF Inv, AlertsAged, AgeOfBars
    <3> QED  BY <1>1, <3>1, <3>2, <3>3 DEF Inv, AlertsAged
  <2>7. ScanSane' /\ OrderedOnce'
    BY <1>1, <1>2 DEF Inv, ScanSane, OrderedOnce
  <2>8. FilesAgree'  BY <1>1, <1>2, <2>3, <2>4 DEF Inv, FilesAgree
  <2> QED  BY <2>5, <2>6, <2>7, <2>8 DEF Inv
<1>5. CASE UNCHANGED <<pending, astray, strat, sfile>>
  <2>1. TypeOK'  BY <1>1, <1>5 DEF Inv, TypeOK
  <2>2. AlertsAged' /\ ScanSane' /\ OrderedOnce' /\ FilesAgree'
    BY <1>1, <1>5 DEF Inv, AlertsAged, AgeOfBars, ScanSane, OrderedOnce, FilesAgree
  <2> QED  BY <2>1, <2>2 DEF Inv
<1> QED  BY <1>3, <1>4, <1>5 DEF Reconcile

LEMMA StartupDoneInv == ASSUME Inv, StartSane, StartupDone PROVE Inv'
<1> USE DEF Inv, StartupDone, scanVars
<1>1. TypeOK'  BY FreshFacts DEF TypeOK
<1>2. AlertsAged' /\ ScanSane' /\ OrderedOnce'
  BY DEF AlertsAged, AgeOfBars, ScanSane, OrderedOnce
<1>3. FilesAgree'  BY FreshFacts DEF FilesAgree, StartSane
<1> QED  BY <1>1, <1>2, <1>3

-----------------------------------------------------------------------------
(* The startup.                                                            *)

\* Nothing else runs before the startup is done.
LEMMA NothingElse ==
    ASSUME Inv, StartSane, starting, Next
    PROVE  Restart \/ StartupDone \/ \E s \in Symbols : Reconcile(s)
<1>1. ~scanning /\ unsaved = {} /\ todo = {}  BY DEF Inv, StartSane, ScanSane
<1>2. ~(WritePending \/ WriteStrategy \/ Checkpoint \/ NewBar \/ StartScan \/ NothingPlaced
        \/ TradeCloses)
  BY <1>1 DEF WritePending, WriteStrategy, Checkpoint, NewBar, StartScan, NothingPlaced,
     EndsScan, TradeCloses
<1>3. ASSUME NEW s \in Symbols
      PROVE  ~(AskOnly(s) \/ AskAndCancel(s) \/ AlertConsumed(s) \/ EntryPlaced(s)
               \/ Resolve(s))
  BY <1>1 DEF AskOnly, AskAndCancel, Ask, AlertConsumed, EntryPlaced, EndsScan, Resolve
<1> QED  BY <1>2, <1>3 DEF Next

\* Nothing else begins a startup.
LEMMA OnlyRestarts == ASSUME ~starting, [Next]_vars PROVE Restart \/ ~starting'
BY DEF Next, WritePending, WriteStrategy, Checkpoint, NewBar, StartScan, NothingPlaced,
   AskOnly, AskAndCancel, AlertConsumed, EntryPlaced, EndsScan, Ask, Resolve, Reconcile,
   StartupDone, TradeCloses, vars, startVars

LEMMA RestartSane == ASSUME Inv, Restart PROVE StartSane'
<1>1. /\ strat' = sfile /\ pending' = NoEntries /\ pfile' = pfile
      /\ unsaved' = {} /\ scanning' = FALSE
      /\ unread' \subseteq Symbols
      /\ torn' = IF starting \/ unsaved # {} THEN Symbols ELSE astray
  BY DEF Restart, Imported
<1>2. ASSUME NEW s \in Symbols, s \notin torn', pfile[s] # None
      PROVE  pfile[s] = sfile[s].alert
  <2>1. ~starting /\ unsaved = {} /\ s \notin astray  BY <1>1, <1>2
  <2> QED  BY <1>2, <2>1 DEF Inv, FilesAgree
<1> QED  BY <1>1, <1>2, FreshFacts DEF StartSane

\* What happens to one saved entry leaves the others to their alerts.
LEMMA ReconcileSane ==
    ASSUME Inv, StartSane, NEW s \in Symbols, Reconcile(s)
    PROVE  StartSane'
<1>1. /\ starting /\ unread' = unread \ {s}
      /\ UNCHANGED <<scanning, unsaved, pfile, torn>>
  BY DEF Reconcile, scanVars
<1>2. ASSUME NEW p \in unread, p # s
      PROVE  pending'[p] = pending[p] /\ strat'[p] = strat[p]
  <2>1. p \in Symbols  BY DEF Inv, TypeOK
  <2>2. CASE Resumed(s)  BY <1>2, <2>1, <2>2 DEF Resumed, Inv, TypeOK
  <2>3. CASE Filled(s)  BY <1>2, <2>1, <2>3 DEF Filled, Inv, TypeOK
  <2>4. CASE UNCHANGED <<pending, strat>>  BY <2>4
  <2> QED  BY <2>2, <2>3, <2>4 DEF Reconcile
<1> QED  BY <1>1, <1>2 DEF StartSane

LEMMA StartSaneKept == ASSUME Inv, StartSane, [Next]_vars PROVE StartSane'
<1>1. CASE ~starting
  <2>1. Restart \/ ~starting'  BY <1>1, OnlyRestarts
  <2> QED  BY <2>1, RestartSane DEF StartSane
<1>2. CASE starting /\ Next
  <2>1. CASE Restart  BY <2>1, RestartSane
  <2>2. CASE StartupDone  BY <2>2 DEF StartupDone, StartSane
  <2>3. CASE \E s \in Symbols : Reconcile(s)  BY <2>3, ReconcileSane
  <2> QED  BY <1>2, <2>1, <2>2, <2>3, NothingElse
<1>3. CASE UNCHANGED vars
  BY <1>3 DEF vars, scanVars, fileVars, startVars, StartSane
<1> QED  BY <1>1, <1>2, <1>3

-----------------------------------------------------------------------------
LEMMA NextInv == ASSUME Inv, StartSane, [Next]_vars PROVE Inv'
<1>1. CASE WritePending \/ WriteStrategy \/ Checkpoint
  BY <1>1, WritePendingInv, WriteStrategyInv, CheckpointInv
<1>2. CASE NewBar \/ StartScan \/ NothingPlaced
  BY <1>2, NewBarInv, StartScanInv, NothingPlacedInv
<1>3. CASE \E s \in Symbols :
             \/ AskOnly(s) \/ AskAndCancel(s) \/ AlertConsumed(s) \/ EntryPlaced(s)
             \/ Resolve(s)
  BY <1>3, AskOnlyInv, AskAndCancelInv, AlertConsumedInv, EntryPlacedInv, ResolveInv
<1>4. CASE TradeCloses \/ Restart \/ StartupDone
  BY <1>4, TradeClosesInv, RestartInv, StartupDoneInv
<1>6. CASE \E s \in Symbols : Reconcile(s)  BY <1>6, ReconcileInv
<1>5. CASE UNCHANGED vars
  BY <1>5 DEF vars, scanVars, fileVars, startVars, Inv, TypeOK, AlertsAged, AgeOfBars,
     ScanSane, OrderedOnce, FilesAgree
<1> QED  BY <1>1, <1>2, <1>3, <1>4, <1>5, <1>6 DEF Next

LEMMA Invariance == Spec => [](Inv /\ StartSane)
<1>1. Init => Inv /\ StartSane  BY InitInv DEF Init, StartSane
<1>2. Inv /\ StartSane /\ [Next]_vars => (Inv /\ StartSane)'  BY NextInv, StartSaneKept
<1> QED  BY <1>1, <1>2, PTL DEF Spec

-----------------------------------------------------------------------------
(* The theorems.                                                           *)

\* An alert outlives at most alert_validity_candles scanned bars in one run,
\* also one restored with its age.
THEOREM AlertsExpire == Spec => []AlertLives
<1>1. Inv => AlertLives
  <2> SUFFICES ASSUME Inv, NEW s \in Symbols, strat[s].alert # None
               PROVE  lived[s] <= Validity
    BY DEF Inv, AlertLives
  <2>1. strat[s] \in States /\ lived[s] \in Nat  BY DEF Inv, TypeOK
  <2>2. strat[s].age \in 0..Validity  BY <2>1 DEF States
  <2>3. lived[s] <= strat[s].age  BY DEF Inv, AlertsAged
  <2> QED  BY <2>1, <2>2, <2>3
<1> QED  BY <1>1, Invariance, PTL

\* No run of the process orders twice on one breakout bar of a symbol.
THEOREM OneOrderPerBar == Spec => BarUsedOnce
<1>1. ASSUME Inv, [Next]_vars, NEW s \in Symbols, NewEntry(s)
      PROVE  <<s, pending'[s], restarts>> \notin placed
  <2>1. EntryPlaced(s)
    <3>1. pending[s] = None /\ pending'[s] # None /\ ~starting  BY <1>1 DEF NewEntry
    <3>2. ~Restart
      <4>1. s \in Symbols /\ NoEntries[s] = None  BY FreshFacts
      <4> QED  BY <3>1, <4>1 DEF Restart
    <3>3. \E p \in Symbols : EntryPlaced(p) \/ AskAndCancel(p) \/ Resolve(p)
      BY <1>1, <3>1, <3>2 DEF Next, WritePending, WriteStrategy, Checkpoint, NewBar,
         StartScan, NothingPlaced, AskOnly, AlertConsumed, TradeCloses, Reconcile,
         StartupDone, vars
    <3>4. ASSUME NEW p \in Symbols, EntryPlaced(p) PROVE p = s
      BY <1>1, <3>1, <3>4 DEF EntryPlaced, Inv, TypeOK
    <3>5. ASSUME NEW p \in Symbols, AskAndCancel(p) \/ Resolve(p) PROVE FALSE
      BY <1>1, <3>1, <3>5 DEF AskAndCancel, Resolve, Untracked, Inv, TypeOK
    <3> QED  BY <3>3, <3>4, <3>5
  <2>2. s \in raised /\ pending'[s] = strat[s].alert
    BY <1>1, <2>1 DEF EntryPlaced, Inv, TypeOK
  <2> QED  BY <1>1, <2>2 DEF Inv, ScanSane
<1>2. Inv /\ [Next]_vars =>
        [\A s \in Symbols : NewEntry(s) => <<s, pending'[s], restarts>> \notin placed]_vars
  BY <1>1
<1> QED  BY <1>2, Invariance, PTL DEF Spec, BarUsedOnce

\* A startup brings back every entry with its alert, unless the crash fell
\* between the two writes of a handler or within another startup, or the entry
\* had lost its alert before.
THEOREM AlertsComeBack == Spec => RestoredTogether
<1>1. ASSUME Inv, StartSane, [Next]_vars, starting, NEW s \in Symbols,
             pending[s] = None, pending'[s] # None
      PROVE  pending'[s] = strat'[s].alert \/ s \in torn
  <2>1. Next /\ ~Restart /\ ~StartupDone
    <3>1. Next  BY <1>1 DEF vars
    <3>2. NoEntries[s] = None  BY FreshFacts
    <3> QED  BY <1>1, <3>1, <3>2 DEF Restart, StartupDone
  <2>2. PICK p \in Symbols : Reconcile(p)  BY <1>1, <2>1, NothingElse
  <2>3. Resumed(p) /\ p = s /\ s \in unread
    <3>1. Resumed(p) /\ p \in unread  BY <1>1, <2>2 DEF Reconcile, Filled
    <3>2. p = s  BY <1>1, <3>1 DEF Resumed, Inv, TypeOK
    <3> QED  BY <3>1, <3>2
  <2>4. pending'[s] = pfile[s] /\ strat'[s] = strat[s]
    <3>1. Resumed(s) /\ pending \in [Symbols -> Bars \cup {None}]
      BY <1>1, <2>3 DEF Inv, TypeOK
    <3> QED  BY <3>1 DEF Resumed
  <2> QED  BY <1>1, <2>3, <2>4 DEF StartSane
<1>2. Inv /\ StartSane /\ [Next]_vars =>
        [\A s \in Symbols : starting /\ pending[s] = None /\ pending'[s] # None =>
             pending'[s] = strat'[s].alert \/ s \in torn]_vars
  BY <1>1
<1> QED  BY <1>2, Invariance, PTL DEF Spec, RestoredTogether

=============================================================================
