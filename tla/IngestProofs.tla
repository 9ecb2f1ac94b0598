---------------------------- MODULE IngestProofs ----------------------------
(***************************************************************************)
(* Proofs about Ingest, for any number of watchers, items, keys, frames,   *)
(* connections and faults.                                                 *)
(***************************************************************************)
EXTENDS Ingest, TLAPS

\* What the proofs need of the types: the rows and states name items and rows
\* that exist, and dedup's connections are numbered as they were dialled.
Typed ==
  /\ papers \in Seq(Row)
  /\ inbox \in [Links -> Seq(Items)]
  /\ dedup \in [Links -> DedupStates]
  /\ keyword \in [Conns -> KeywordStates]
  /\ Kw!TypeOK
  /\ taken \subseteq Items
  /\ faults \in Nat

\* Writing a label list into a row changes nothing else; inserting a row changes
\* no other.
LEMMA RowWritten ==
  ASSUME papers \in Seq(Row), NEW r \in DOMAIN papers, NEW list \in SUBSET Labels,
         NEW kept \in SUBSET Labels,
         papers' = [papers EXCEPT ![r] = [item |-> @.item, sources |-> list, kept |-> kept]]
  PROVE  /\ papers' \in Seq(Row) /\ DOMAIN papers' = DOMAIN papers
         /\ \A q \in DOMAIN papers : papers'[q].item = papers[q].item
         /\ \A q \in DOMAIN papers \ {r} : papers'[q] = papers[q]
         /\ papers'[r].sources = list /\ papers'[r].kept = kept
<1>1. papers[r] \in Row
  OBVIOUS
<1>2. [item |-> papers[r].item, sources |-> list, kept |-> kept] \in Row
  BY <1>1 DEF Row
<1>3. QED
  BY <1>1, <1>2

LEMMA RowInserted ==
  ASSUME papers \in Seq(Row), NEW i \in Items,
         papers' = Append(papers, NewRow(i))
  PROVE  /\ papers' \in Seq(Row) /\ DOMAIN papers' = DOMAIN papers \cup {Len(papers) + 1}
         /\ Len(papers) + 1 \in DOMAIN papers'
         /\ \A q \in DOMAIN papers : papers'[q] = papers[q]
         /\ papers'[Len(papers) + 1] = NewRow(i)
<1>1. NewRow(i) \in Row
  BY DEF NewRow, Row, Labels
<1>2. QED
  BY <1>1

\* As rows are only added, what a goroutine may be doing stays legal.
LEMMA StatesGrow ==
  ASSUME DOMAIN papers \subseteq DOMAIN papers'
  PROVE  DedupStates \subseteq DedupStates' /\ KeywordStates \subseteq KeywordStates'
BY DEF DedupStates, KeywordStates

\* The connection of dedup keeps its type whatever is done with it.
LEMMA ConnTyped ==
  ASSUME IngestBoundsAssumption, Kw!TypeOK,
         \/ Kw!Dial \/ Kw!WriteFails \/ Kw!OwnerDies \/ Kw!PeerDies
         \/ UNCHANGED kwVars
         \/ \E i \in Items : Kw!Write(i)
         \/ \E n \in Conns : Kw!Read(n)
  PROVE  Kw!TypeOK'
<1> USE DEF Kw!TypeOK, Kw!Conns, Conns
<1>1. ASSUME NEW i \in Items, Kw!Write(i) PROVE Kw!TypeOK'
  BY <1>1 DEF Kw!Write
<1>2. ASSUME NEW n \in Conns, Kw!Read(n) PROVE Kw!TypeOK'
  <2>1. kwWire[n] \in Seq(Items) /\ kwWire[n] # << >>
    BY <1>2 DEF Kw!Read
  <2>2. Tail(kwWire[n]) \in Seq(Items)
    BY <2>1
  <2>3. QED
    BY <1>2, <2>2 DEF Kw!Read
<1>3. CASE Kw!Dial
  <2>1. CASE UNCHANGED Kw!vars
    BY <2>1 DEF Kw!vars
  <2>2. CASE /\ kwDialed < MaxConns
             /\ kwOut' = kwDialed + 1 /\ kwDialed' = kwDialed + 1
             /\ UNCHANGED <<kwCut, kwWire>>
    <3>1. kwDialed' \in 0 .. MaxConns /\ kwOut' \in 0 .. kwDialed'
      BY <2>2, IngestBoundsAssumption
    <3>2. kwCut' \subseteq 1 .. kwDialed'
      BY <2>2, IngestBoundsAssumption
    <3>3. QED
      BY <2>2, <3>1, <3>2
  <2>3. QED
    BY <1>3, <2>1, <2>2 DEF Kw!Dial
<1>4. CASE Kw!WriteFails \/ Kw!OwnerDies
  <2>1. kwOut' = 0 /\ UNCHANGED <<kwDialed, kwCut, kwWire>>
    BY <1>4 DEF Kw!WriteFails, Kw!OwnerDies
  <2>2. kwOut' \in 0 .. kwDialed'
    BY <2>1, IngestBoundsAssumption
  <2>3. QED
    BY <2>1, <2>2
<1>5. CASE Kw!PeerDies
  <2>1. [n \in 1 .. MaxConns |-> << >>] \in [1 .. MaxConns -> Seq(Items)]
    OBVIOUS
  <2>2. QED
    BY <1>5, <2>1 DEF Kw!PeerDies
<1>6. CASE UNCHANGED kwVars
  BY <1>6 DEF kwVars
<1>7. QED
  BY <1>1, <1>2, <1>3, <1>4, <1>5, <1>6

LEMMA TypedInit == Init => Typed
<1> SUFFICES ASSUME Init PROVE Typed
  OBVIOUS
<1>1. << >> \in Seq(Row) /\ << >> \in Seq(Items)
  OBVIOUS
<1>2. Kw!TypeOK
  BY <1>1, IngestBoundsAssumption DEF Init, Kw!Init, Kw!TypeOK, Kw!Conns
<1>3. Idle \in DedupStates /\ Idle \in KeywordStates
  BY DEF DedupStates, KeywordStates
<1>4. QED
  BY <1>1, <1>2, <1>3 DEF Init, Typed

\* What a goroutine of dedup holds.
LEMMA DedupHolds ==
  ASSUME Typed, NEW l \in Links
  PROVE  /\ dedup[l] \in DedupStates
         /\ dedup[l] # Idle => dedup[l].item \in Items
         /\ dedup[l].at \in {"merge", "update"} =>
              dedup[l].row \in DOMAIN papers /\ papers[dedup[l].row] \in Row
         /\ dedup[l].at = "update" => dedup[l].list \subseteq Labels
<1>1. dedup[l] \in DedupStates
  BY DEF Typed
<1>2. dedup[l] # Idle => dedup[l].item \in Items
  BY <1>1 DEF DedupStates
<1>3. dedup[l].at \in {"merge", "update"} => dedup[l].row \in DOMAIN papers
  BY <1>1 DEF DedupStates, Idle
<1>4. dedup[l].at = "update" => dedup[l].list \subseteq Labels
  BY <1>1 DEF DedupStates, Idle
<1>5. QED
  BY <1>1, <1>2, <1>3, <1>4 DEF Typed

\* What the end of a merge writes.
LEMMA UpdateWrites ==
  ASSUME Typed, NEW l \in Links, DedupUpdate(l)
  PROVE  LET r == dedup[l].row IN
         /\ r \in DOMAIN papers
         /\ papers' \in Seq(Row) /\ DOMAIN papers' = DOMAIN papers
         /\ \A q \in DOMAIN papers : papers'[q].item = papers[q].item
         /\ \A q \in DOMAIN papers \ {r} : papers'[q] = papers[q]
         /\ papers'[r].sources = dedup[l].list
         /\ papers'[r].kept = IF Overlaps(l) THEN papers[r].kept
                              ELSE papers[r].kept \cup {Label[dedup[l].item]}
<1> DEFINE r == dedup[l].row
           kept == IF Overlaps(l) THEN papers[r].kept
                   ELSE papers[r].kept \cup {Label[dedup[l].item]}
<1>1. /\ r \in DOMAIN papers /\ papers[r] \in Row
      /\ dedup[l].list \in SUBSET Labels /\ dedup[l].item \in Items
  BY DedupHolds DEF DedupUpdate, Idle
<1>2. kept \in SUBSET Labels
  BY <1>1 DEF Row, Labels
<1>3. papers' = [papers EXCEPT ![r] = [item |-> @.item, sources |-> dedup[l].list,
                                       kept |-> kept]]
  BY DEF DedupUpdate
<1> HIDE DEF kept, r
<1>4. /\ papers' \in Seq(Row) /\ DOMAIN papers' = DOMAIN papers
      /\ \A q \in DOMAIN papers : papers'[q].item = papers[q].item
      /\ \A q \in DOMAIN papers \ {r} : papers'[q] = papers[q]
      /\ papers'[r].sources = dedup[l].list /\ papers'[r].kept = kept
  BY <1>1, <1>2, <1>3, RowWritten DEF Typed
<1>5. QED
  BY <1>1, <1>4 DEF kept, r

\* A step of one goroutine of dedup is well typed if its next state is, and so
\* are the tables it leaves.
LEMMA DedupMoves ==
  ASSUME Typed, NEW l \in Links, NEW s \in DedupStates', DedupGoto(l, s),
         papers' \in Seq(Row), DOMAIN papers \subseteq DOMAIN papers',
         inbox' \in [Links -> Seq(Items)], Kw!TypeOK',
         taken' \subseteq Items, faults' \in Nat
  PROVE  Typed'
<1>1. dedup' \in [Links -> DedupStates'] /\ keyword' \in [Conns -> KeywordStates']
  BY StatesGrow DEF Typed, DedupGoto
<1>2. QED
  BY <1>1 DEF Typed, Conns

\* A restart of dedup is well typed.
LEMMA DedupRestartTyped ==
  ASSUME Typed, DedupRestarts, faults' \in Nat
  PROVE  Typed'
<1> USE DEF Typed
<1>1. Kw!TypeOK'
  BY ConnTyped, IngestBoundsAssumption DEF DedupRestarts
<1>2. << >> \in Seq(Items) /\ Idle \in DedupStates'
  BY DEF DedupStates
<1>3. UNCHANGED <<keyword, papers, taken>>
  BY DEF DedupRestarts, Lose
<1>4. keyword' \in [Conns -> KeywordStates'] /\ taken' \subseteq Items
  BY <1>3, StatesGrow
<1>5. QED
  BY <1>1, <1>2, <1>3, <1>4 DEF DedupRestarts, Conns

\* The steps of dedup are well typed.
LEMMA DedupTyped ==
  ASSUME Typed, NEW l \in Links, Dedup(l)
  PROVE  Typed'
<1> USE DEF Typed
<1>0. /\ DedupStates' = DedupStates \/ papers' # papers
      /\ Idle \in DedupStates'
  BY DEF DedupStates
<1>1. CASE DedupRead(l)
  <2>1. Head(inbox[l]) \in Items /\ Tail(inbox[l]) \in Seq(Items)
    BY <1>1 DEF DedupRead
  <2>2. [at |-> "find", item |-> Head(inbox[l])] \in DedupStates'
    BY <2>1 DEF DedupStates
  <2>3. /\ inbox' \in [Links -> Seq(Items)] /\ taken' \subseteq Items
        /\ UNCHANGED <<kwVars, papers, faults>>
    BY <1>1, <2>1 DEF DedupRead
  <2>4. Kw!TypeOK'
    BY <2>3, ConnTyped, IngestBoundsAssumption
  <2>5. DedupGoto(l, [at |-> "find", item |-> Head(inbox[l])])
    BY <1>1 DEF DedupRead
  <2>6. QED
    BY <2>2, <2>3, <2>4, <2>5, DedupMoves
<1>2. ASSUME NEW s \in DedupStates', DedupGoto(l, s),
             UNCHANGED <<inbox, kwVars, papers, taken>>, faults' \in Nat
      PROVE  Typed'
  <2>1. Kw!TypeOK'
    BY <1>2, ConnTyped, IngestBoundsAssumption
  <2>2. QED
    BY <1>2, <2>1, DedupMoves
<1>3. CASE DedupFind(l)
  <2>1. dedup[l].item \in Items /\ UNCHANGED <<inbox, kwVars, papers, taken, faults>>
    BY <1>3, DedupHolds DEF DedupFind, Idle, history
  <2>2. CASE DedupGoto(l, [at |-> "dial", item |-> dedup[l].item])
    <3>1. [at |-> "dial", item |-> dedup[l].item] \in DedupStates'
      BY <2>1 DEF DedupStates
    <3>2. QED
      BY <1>2, <2>1, <2>2, <3>1
  <2>3. ASSUME NEW r \in Matching(dedup[l].item),
               DedupGoto(l, [at |-> "merge", item |-> dedup[l].item, row |-> r])
        PROVE  Typed'
    <3>1. [at |-> "merge", item |-> dedup[l].item, row |-> r] \in DedupStates'
      BY <2>1, <2>3 DEF DedupStates, Matching
    <3>2. QED
      BY <1>2, <2>1, <2>3, <3>1
  <2>4. QED
    BY <1>3, <2>2, <2>3 DEF DedupFind
<1>4. CASE DedupMerge(l)
  <2>1. /\ dedup[l].item \in Items /\ dedup[l].row \in DOMAIN papers
        /\ papers[dedup[l].row].sources \subseteq Labels
        /\ UNCHANGED <<inbox, kwVars, papers, taken, faults>>
    BY <1>4, DedupHolds DEF DedupMerge, Idle, Row, history
  <2>2. CASE DedupGoto(l, Idle)
    BY <1>0, <1>2, <2>1, <2>2
  <2>3. CASE DedupGoto(l, [at |-> "update", item |-> dedup[l].item, row |-> dedup[l].row,
               list |-> papers[dedup[l].row].sources \cup {Label[dedup[l].item]}])
    <3>1. papers[dedup[l].row].sources \cup {Label[dedup[l].item]} \in SUBSET Labels
      BY <2>1 DEF Labels
    <3>2. [at |-> "update", item |-> dedup[l].item, row |-> dedup[l].row,
           list |-> papers[dedup[l].row].sources \cup {Label[dedup[l].item]}]
             \in DedupStates'
      BY <2>1, <3>1 DEF DedupStates
    <3>3. QED
      BY <1>2, <2>1, <2>3, <3>2
  <2>4. QED
    BY <1>4, <2>2, <2>3 DEF DedupMerge
<1>5. CASE DedupUpdate(l)
  <2>2. papers' \in Seq(Row) /\ DOMAIN papers' = DOMAIN papers
    BY <1>5, UpdateWrites
  <2>3. UNCHANGED <<inbox, kwVars, taken, faults>> /\ DedupGoto(l, Idle)
    BY <1>5 DEF DedupUpdate, history
  <2>4. Kw!TypeOK'
    BY <2>3, ConnTyped, IngestBoundsAssumption
  <2>5. QED
    BY <1>0, <2>2, <2>3, <2>4, DedupMoves
<1>6. CASE DedupFails(l)
  BY <1>0, <1>2, <1>6 DEF DedupFails, Fault, Lose
<1>7. CASE DedupDial(l)
  <2>1. dedup[l].item \in Items /\ UNCHANGED <<inbox, papers, taken>>
    BY <1>7, DedupHolds DEF DedupDial, Idle, history, Lose
  <2>2. CASE Kw!Dial /\ DedupGoto(l, [at |-> "send", item |-> dedup[l].item])
             /\ UNCHANGED faults
    <3>1. [at |-> "send", item |-> dedup[l].item] \in DedupStates'
      BY <2>1 DEF DedupStates
    <3>2. Kw!TypeOK'
      BY <2>2, ConnTyped, IngestBoundsAssumption
    <3>3. QED
      BY <2>1, <2>2, <3>1, <3>2, DedupMoves
  <2>3. CASE Fault("keyword") /\ DedupGoto(l, Idle) /\ UNCHANGED kwVars
    BY <1>0, <1>2, <2>1, <2>3 DEF Fault
  <2>4. QED
    BY <1>7, <2>2, <2>3 DEF DedupDial
<1>8. CASE DedupSend(l)
  <2>1. /\ dedup[l].item \in Items /\ UNCHANGED <<inbox, papers, taken, faults>>
        /\ Kw!Write(dedup[l].item) \/ Kw!WriteFails
        /\ DedupGoto(l, Idle)
    BY <1>8, DedupHolds DEF DedupSend, Idle, Lose
  <2>2. Kw!TypeOK'
    BY <2>1, ConnTyped, IngestBoundsAssumption
  <2>3. QED
    BY <1>0, <2>1, <2>2, DedupMoves
<1>9. CASE DedupPanic(l)
  BY <1>9, DedupRestartTyped DEF DedupPanic
<1>10. QED
  BY <1>1, <1>3, <1>4, <1>5, <1>6, <1>7, <1>8, <1>9 DEF Dedup

\* What a goroutine of keyword holds.
LEMMA KeywordHolds ==
  ASSUME Typed, NEW n \in Conns
  PROVE  /\ keyword[n] \in KeywordStates
         /\ keyword[n].at = "insert" => keyword[n].item \in Items
<1>1. keyword[n] \in KeywordStates
  BY DEF Typed
<1>2. QED
  BY <1>1 DEF KeywordStates, Idle

\* Reading a frame from dedup.
LEMMA FrameRead ==
  ASSUME Kw!TypeOK, NEW n \in Conns, Kw!Read(n)
  PROVE  /\ kwWire[n] \in Seq(Items) /\ kwWire[n] # << >>
         /\ Head(kwWire[n]) \in Items
<1>1. kwWire[n] \in Seq(Items) /\ kwWire[n] # << >>
  BY DEF Kw!Read, Kw!TypeOK, Kw!Conns, Conns
<1>2. QED
  BY <1>1

\* A step of one goroutine of keyword is well typed if its next state is, and so
\* are the tables it leaves.
LEMMA KeywordMoves ==
  ASSUME Typed, NEW n \in Conns, NEW s \in KeywordStates', KeywordGoto(n, s),
         papers' \in Seq(Row), DOMAIN papers \subseteq DOMAIN papers',
         Kw!TypeOK', taken' = taken, faults' \in Nat
  PROVE  Typed'
<1>1. dedup' \in [Links -> DedupStates'] /\ keyword' \in [Conns -> KeywordStates']
  BY StatesGrow DEF Typed, KeywordGoto
<1>2. inbox' \in [Links -> Seq(Items)] /\ taken' \subseteq Items
  BY DEF Typed, KeywordGoto
<1>3. QED
  BY <1>1, <1>2 DEF Typed, Conns

\* The steps of keyword are well typed.
LEMMA KeywordTyped ==
  ASSUME Typed, NEW n \in Conns, Keyword(n)
  PROVE  Typed'
<1>0. Idle \in KeywordStates'
  BY DEF KeywordStates
<1>1. CASE KeywordRead(n)
  <2>1. Head(kwWire[n]) \in Items /\ Kw!TypeOK'
    BY <1>1, FrameRead, ConnTyped, IngestBoundsAssumption DEF KeywordRead, Typed
  <2>2. UNCHANGED <<papers, taken, faults>> /\ papers' \in Seq(Row) /\ faults' \in Nat
    BY <1>1 DEF KeywordRead, history, Typed
  <2>3. CASE KeywordGoto(n, Idle)
    BY <1>0, <2>1, <2>2, <2>3, KeywordMoves
  <2>4. CASE KeywordGoto(n, [at |-> "insert", item |-> Head(kwWire[n])])
    <3>1. [at |-> "insert", item |-> Head(kwWire[n])] \in KeywordStates'
      BY <2>1 DEF KeywordStates
    <3>2. QED
      BY <2>1, <2>2, <2>4, <3>1, KeywordMoves
  <2>5. QED
    BY <1>1, <2>3, <2>4 DEF KeywordRead
<1>2. CASE KeywordInsert(n)
  <2>1. /\ keyword[n].item \in Items /\ faults' \in Nat /\ papers \in Seq(Row)
        /\ UNCHANGED <<kwVars, taken>> /\ KeywordGoto(n, Idle)
    BY <1>2, KeywordHolds DEF KeywordInsert, Fault, Typed, Lose, history
  <2>2. papers' \in Seq(Row) /\ DOMAIN papers \subseteq DOMAIN papers'
    <3>1. CASE papers' = Append(papers, NewRow(keyword[n].item))
      BY <2>1, <3>1, RowInserted
    <3>2. CASE UNCHANGED papers
      BY <2>1, <3>2
    <3>3. QED
      BY <1>2, <3>1, <3>2 DEF KeywordInsert
  <2>3. Kw!TypeOK'
    BY <2>1, ConnTyped, IngestBoundsAssumption DEF Typed
  <2>4. QED
    BY <1>0, <2>1, <2>2, <2>3, KeywordMoves
<1>3. QED
  BY <1>1, <1>2 DEF Keyword

\* No step, of whatever process, breaks the typing.
LEMMA TypedStep == Typed /\ [Next]_vars => Typed'
<1> SUFFICES ASSUME Typed, [Next]_vars PROVE Typed'
  OBVIOUS
<1>1. ASSUME UNCHANGED <<dedup, kwVars, keyword, papers, taken>>,
             inbox' \in [Links -> Seq(Items)], faults' \in Nat
      PROVE  Typed'
  <2>1. Kw!TypeOK'
    BY <1>1, ConnTyped, IngestBoundsAssumption DEF Typed
  <2>2. dedup' \in [Links -> DedupStates'] /\ keyword' \in [Conns -> KeywordStates']
    BY <1>1, StatesGrow DEF Typed
  <2>3. QED
    BY <1>1, <2>1, <2>2 DEF Typed, Conns
<1>2. ASSUME NEW l \in Links, NEW i \in Items, Send(l, i) PROVE Typed'
  <2>1. Append(inbox[l], i) \in Seq(Items)
    BY <1>2 DEF Typed
  <2>2. inbox' \in [Links -> Seq(Items)]
    BY <1>2, <2>1 DEF Send, Typed
  <2>3. QED
    BY <1>1, <1>2, <2>2 DEF Send, Typed, history
<1>3. ASSUME NEW i \in Items, AddManual(i) PROVE Typed'
  <2>1. papers' \in Seq(Row) /\ DOMAIN papers \subseteq DOMAIN papers'
    BY <1>3, RowInserted DEF AddManual, Typed
  <2>2. UNCHANGED <<inbox, dedup, kwVars, keyword, taken, faults>>
    BY <1>3 DEF AddManual, history
  <2>3. dedup' \in [Links -> DedupStates'] /\ keyword' \in [Conns -> KeywordStates']
    BY <2>1, <2>2, StatesGrow DEF Typed
  <2>4. Kw!TypeOK'
    BY <2>2, ConnTyped, IngestBoundsAssumption DEF Typed
  <2>5. QED
    BY <2>1, <2>2, <2>3, <2>4 DEF Typed, Conns
<1>4. CASE DedupCrash
  BY <1>4, DedupRestartTyped DEF DedupCrash, Fault, Typed
<1>5. CASE KeywordCrash
  <2>1. UNCHANGED <<inbox, dedup, papers, taken>> /\ faults' \in Nat
    BY <1>5 DEF KeywordCrash, Fault, Lose, Typed
  <2>2. Kw!TypeOK'
    BY <1>5, ConnTyped, IngestBoundsAssumption DEF KeywordCrash, Typed
  <2>3. dedup' \in [Links -> DedupStates']
    BY <2>1, StatesGrow DEF Typed
  <2>4. keyword' \in [Conns -> KeywordStates']
    BY <1>5 DEF KeywordCrash, KeywordStates
  <2>5. QED
    BY <2>1, <2>2, <2>3, <2>4 DEF Typed, Conns
<1>6. CASE UNCHANGED vars
  BY <1>1, <1>6 DEF vars, Typed, history, bounds
<1>7. QED
  BY <1>2, <1>3, <1>4, <1>5, <1>6, DedupTyped, KeywordTyped DEF Next

-----------------------------------------------------------------------------
(***************************************************************************)
(* What a step does to a row and to a goroutine of dedup.                  *)
(***************************************************************************)
\* A row keeps its item, and changes only as a merge writes its list back.
LEMMA RowsKept ==
  ASSUME Typed, [Next]_vars, NEW r \in DOMAIN papers
  PROVE  /\ r \in DOMAIN papers'
         /\ papers'[r].item = papers[r].item
         /\ papers'[r] = papers[r] \/ \E l \in Links : DedupUpdate(l) /\ dedup[l].row = r
<1>1. CASE UNCHANGED papers
  BY <1>1
<1>2. ASSUME NEW l \in Links, DedupUpdate(l)
      PROVE  /\ DOMAIN papers' = DOMAIN papers
             /\ papers'[r].item = papers[r].item
             /\ dedup[l].row # r => papers'[r] = papers[r]
  BY <1>2, UpdateWrites
<1>3. ASSUME NEW i \in Items, papers' = Append(papers, NewRow(i))
      PROVE  r \in DOMAIN papers' /\ papers'[r] = papers[r]
  BY <1>3, RowInserted DEF Typed
<1>4. ASSUME NEW n \in Conns, KeywordInsert(n)
      PROVE  r \in DOMAIN papers' /\ papers'[r] = papers[r]
  BY <1>1, <1>3, <1>4, KeywordHolds DEF KeywordInsert
<1>5. ASSUME NEW i \in Items, AddManual(i)
      PROVE  r \in DOMAIN papers' /\ papers'[r] = papers[r]
  BY <1>3, <1>5 DEF AddManual
<1>6. ASSUME NEW l \in Links, (\E i \in Items : Send(l, i)) \/ Dedup(l), ~DedupUpdate(l)
      PROVE  UNCHANGED papers
  BY <1>6 DEF Send, Dedup, DedupRead, DedupFind, DedupMerge, DedupFails, DedupDial,
     DedupSend, DedupPanic, DedupRestarts
<1>7. ASSUME NEW n \in Conns, KeywordRead(n) PROVE UNCHANGED papers
  BY <1>7 DEF KeywordRead
<1>8. ASSUME DedupCrash \/ KeywordCrash \/ UNCHANGED vars PROVE UNCHANGED papers
  BY <1>8 DEF DedupCrash, DedupRestarts, KeywordCrash, vars
<1>9. QED
  BY <1>1, <1>2, <1>4, <1>5, <1>6, <1>7, <1>8 DEF Next, Keyword

\* A new row is one that keyword or the API inserted, with its own label.
LEMMA RowsNew ==
  ASSUME Typed, [Next]_vars, NEW r \in DOMAIN papers', r \notin DOMAIN papers
  PROVE  \E i \in Items : papers'[r] = NewRow(i)
<1>1. ASSUME NEW i \in Items, papers' = Append(papers, NewRow(i))
      PROVE  papers'[r] = NewRow(i)
  BY <1>1, RowInserted DEF Typed
<1>2. ASSUME NEW n \in Conns, KeywordInsert(n)
      PROVE  \E i \in Items : papers'[r] = NewRow(i)
  BY <1>1, <1>2, KeywordHolds DEF KeywordInsert
<1>3. ASSUME NEW i \in Items, AddManual(i) PROVE papers'[r] = NewRow(i)
  BY <1>1, <1>3 DEF AddManual
<1>4. ASSUME NEW l \in Links, DedupUpdate(l) PROVE FALSE
  BY <1>4, UpdateWrites
<1>5. ASSUME NEW l \in Links, (\E i \in Items : Send(l, i)) \/ Dedup(l), ~DedupUpdate(l)
      PROVE  FALSE
  BY <1>5 DEF Send, Dedup, DedupRead, DedupFind, DedupMerge, DedupFails,
     DedupDial, DedupSend, DedupPanic, DedupRestarts
<1>6. ASSUME NEW n \in Conns, KeywordRead(n) PROVE FALSE
  BY <1>6 DEF KeywordRead
<1>7. ASSUME DedupCrash \/ KeywordCrash \/ UNCHANGED vars PROVE FALSE
  BY <1>7 DEF DedupCrash, DedupRestarts, KeywordCrash, vars
<1>8. QED
  BY <1>2, <1>3, <1>4, <1>5, <1>6, <1>7 DEF Next, Keyword

\* Where a goroutine of dedup goes.
LEMMA Goes ==
  ASSUME Typed, NEW l \in Links, NEW s, DedupGoto(l, s)
  PROVE  dedup'[l] = s /\ \A k \in Links \ {l} : dedup'[k] = dedup[k]
BY DEF Typed, DedupGoto

\* A goroutine of dedup moves by a step of its own, or goes with the process.
LEMMA DedupChanges ==
  ASSUME Typed, [Next]_vars, NEW l \in Links, dedup'[l] # dedup[l]
  PROVE  Dedup(l) \/ (DedupRestarts /\ dedup'[l] = Idle)
<1>1. ASSUME NEW k \in Links, k # l, Dedup(k), ~DedupPanic(k) PROVE FALSE
  BY <1>1 DEF Dedup, DedupRead, DedupFind, DedupMerge, DedupUpdate, DedupFails,
     DedupDial, DedupSend, DedupGoto, Typed
<1>2. ASSUME NEW k \in Links, NEW i \in Items, Send(k, i) PROVE FALSE
  BY <1>2 DEF Send
<1>3. ASSUME NEW n \in Conns, Keyword(n) PROVE FALSE
  BY <1>3 DEF Keyword, KeywordRead, KeywordInsert, KeywordGoto
<1>4. ASSUME KeywordCrash \/ (\E i \in Items : AddManual(i)) \/ UNCHANGED vars
      PROVE  FALSE
  BY <1>4 DEF KeywordCrash, AddManual, vars
<1>5. ASSUME DedupRestarts PROVE dedup'[l] = Idle
  BY <1>5 DEF DedupRestarts
<1>6. QED
  BY <1>1, <1>2, <1>3, <1>4, <1>5 DEF Next, DedupPanic, DedupCrash

-----------------------------------------------------------------------------
(***************************************************************************)
(* A row keeps its labels: as long as a merge holds a list it has read and *)
(* not yet written, the labels that are kept are those in the list.        *)
(***************************************************************************)
LabelsInv ==
  /\ LabelsKept
  /\ \A l \in Links : dedup[l].at = "update" =>
       papers[dedup[l].row].kept \cup {Label[dedup[l].item]} \subseteq dedup[l].list

LEMMA LabelsStep ==
  ASSUME Typed, LabelsInv, [Next]_vars
  PROVE  LabelsInv'
<1>1. ASSUME NEW r \in DOMAIN papers'
      PROVE  papers'[r].kept \subseteq papers'[r].sources
  <2>1. CASE r \notin DOMAIN papers
    BY <2>1, RowsNew DEF NewRow
  <2>2. CASE r \in DOMAIN papers /\ papers'[r] = papers[r]
    BY <2>2 DEF LabelsInv, LabelsKept
  <2>3. ASSUME NEW l \in Links, r \in DOMAIN papers, DedupUpdate(l), dedup[l].row = r
        PROVE  papers'[r].kept \subseteq papers'[r].sources
    <3>1. papers'[r].kept \subseteq papers[r].kept \cup {Label[dedup[l].item]}
      BY <2>3, UpdateWrites
    <3>2. papers[r].kept \cup {Label[dedup[l].item]} \subseteq dedup[l].list
      BY <2>3 DEF LabelsInv, DedupUpdate
    <3>3. papers'[r].sources = dedup[l].list
      BY <2>3, UpdateWrites
    <3>4. QED
      BY <3>1, <3>2, <3>3
  <2>4. QED
    BY <2>1, <2>2, <2>3, RowsKept
<1>2. ASSUME NEW l \in Links, dedup'[l].at = "update"
      PROVE  papers'[dedup'[l].row].kept \cup {Label[dedup'[l].item]} \subseteq dedup'[l].list
  <2>1. CASE dedup'[l] = dedup[l]
    <3> DEFINE r == dedup[l].row
    <3>1. /\ r \in DOMAIN papers
          /\ papers[r].kept \cup {Label[dedup[l].item]} \subseteq dedup[l].list
      BY <1>2, <2>1, DedupHolds DEF LabelsInv
    <3>2. CASE papers'[r] = papers[r]
      BY <2>1, <3>1, <3>2
    <3>3. ASSUME NEW k \in Links, DedupUpdate(k), dedup[k].row = r
          PROVE  papers'[r].kept = papers[r].kept
      <4>1. k # l
        <5>1. DedupUpdate(l) => dedup'[l] = Idle
          BY Goes DEF DedupUpdate
        <5>2. QED
          BY <1>2, <3>3, <5>1 DEF Idle
      <4>2. Overlaps(k)
        BY <1>2, <2>1, <3>3, <4>1 DEF Overlaps
      <4>3. QED
        BY <3>3, <4>2, UpdateWrites
    <3>4. QED
      BY <2>1, <3>1, <3>2, <3>3, RowsKept
  <2>2. CASE DedupMerge(l)
    <3>1. dedup[l].row \in DOMAIN papers /\ UNCHANGED papers
      BY <2>2, DedupHolds DEF DedupMerge
    <3>2. dedup'[l] = [at |-> "update", item |-> dedup[l].item, row |-> dedup[l].row,
            list |-> papers[dedup[l].row].sources \cup {Label[dedup[l].item]}]
      BY <1>2, <2>2, Goes DEF DedupMerge, Idle
    <3>3. QED
      BY <3>1, <3>2 DEF LabelsInv, LabelsKept
  <2>3. ASSUME Dedup(l), ~DedupMerge(l), dedup'[l] # dedup[l] PROVE FALSE
    BY <1>2, <2>3 DEF Dedup, DedupRead, DedupFind, DedupUpdate, DedupFails, DedupDial,
       DedupSend, DedupPanic, DedupRestarts, DedupGoto, Typed, Idle
  <2>4. QED
    BY <1>2, <2>1, <2>2, <2>3, DedupChanges DEF Idle
<1>3. QED
  BY <1>1, <1>2 DEF LabelsInv, LabelsKept

\* Whatever is merged into a row, by however many goroutines and whatever dies,
\* it keeps every label that was not written during another merge of it.
THEOREM LabelsStay == Spec => []LabelsKept
<1>1. Init => LabelsInv
  BY DEF Init, LabelsInv, LabelsKept, Idle
<1>2. Spec => [](Typed /\ LabelsInv)
  BY <1>1, TypedInit, TypedStep, LabelsStep, PTL DEF Spec
<1>3. QED
  BY <1>2, PTL DEF LabelsInv

-----------------------------------------------------------------------------
(***************************************************************************)
(* The shared connection.  The variable a goroutine has just seen set can  *)
(* be nil only because another found the connection cut.                   *)
(***************************************************************************)
\* A connection once cut stays cut.
LEMMA CutStep ==
  ASSUME Typed, [Next]_vars, kwCut # {}
  PROVE  kwCut' # {}
<1>1. ASSUME NEW l \in Links, (\E i \in Items : Send(l, i)) \/ Dedup(l)
      PROVE  UNCHANGED kwCut
  BY <1>1 DEF Send, Dedup, DedupRead, DedupFind, DedupMerge, DedupUpdate, DedupFails,
     DedupDial, DedupSend, DedupPanic, DedupRestarts, Kw!Dial, Kw!vars, Kw!Write,
     Kw!WriteFails, Kw!OwnerDies, kwVars
<1>2. ASSUME NEW n \in Conns, Keyword(n) PROVE UNCHANGED kwCut
  BY <1>2 DEF Keyword, KeywordRead, KeywordInsert, Kw!Read, kwVars
<1>3. ASSUME DedupCrash \/ (\E i \in Items : AddManual(i)) \/ UNCHANGED vars
      PROVE  UNCHANGED kwCut
  BY <1>3 DEF DedupCrash, DedupRestarts, Kw!OwnerDies, AddManual, vars, kwVars
<1>4. KeywordCrash => kwCut' = 1 .. kwDialed
  BY DEF KeywordCrash, Kw!PeerDies
<1>5. kwCut \subseteq 1 .. kwDialed
  BY DEF Typed, Kw!TypeOK
<1>6. QED
  BY <1>1, <1>2, <1>3, <1>4, <1>5 DEF Next

LEMMA NilStep ==
  ASSUME Typed, NilOnlyAfterCut, [Next]_vars
  PROVE  NilOnlyAfterCut'
<1> SUFFICES ASSUME NEW l \in Links, dedup'[l].at = "send", kwOut' = 0, kwCut' = {}
             PROVE  FALSE
  BY DEF NilOnlyAfterCut
<1>1. kwCut = {}
  BY CutStep
<1>2. ~DedupRestarts
  BY DEF DedupRestarts, Idle
<1>3. CASE dedup'[l] # dedup[l]
  <2>1. ASSUME NEW s, DedupGoto(l, s), s.at # "send" PROVE FALSE
    BY <2>1, Goes
  <2>2. DedupDial(l)
    BY <1>2, <1>3, <2>1, DedupChanges
       DEF Dedup, DedupRead, DedupFind, DedupMerge, DedupUpdate, DedupFails,
           DedupSend, DedupPanic, DedupCrash, Idle
  <2>3. Kw!Dial
    BY <2>1, <2>2 DEF DedupDial, Idle
  <2>4. QED
    BY <2>3 DEF Kw!Dial, Kw!vars, Typed, Kw!TypeOK
<1>4. CASE dedup'[l] = dedup[l]
  <2>1. kwOut # 0
    BY <1>1, <1>4 DEF NilOnlyAfterCut
  <2>2. ASSUME NEW k \in Links, (\E i \in Items : Send(k, i)) \/ Dedup(k)
        PROVE  UNCHANGED kwOut \/ kwOut' # 0
    BY <1>1, <1>2, <2>1, <2>2
       DEF Send, Dedup, DedupRead, DedupFind, DedupMerge, DedupUpdate, DedupFails,
           DedupDial, DedupSend, DedupPanic, Kw!Dial, Kw!vars, Kw!Write,
           Kw!WriteFails, kwVars
  <2>3. ASSUME NEW n \in Conns, Keyword(n) PROVE UNCHANGED kwOut
    BY <2>3 DEF Keyword, KeywordRead, KeywordInsert, Kw!Read, kwVars
  <2>4. ASSUME \/ DedupCrash \/ KeywordCrash \/ UNCHANGED vars
               \/ \E i \in Items : AddManual(i)
        PROVE  UNCHANGED kwOut
    BY <1>2, <2>4 DEF DedupCrash, KeywordCrash, Kw!PeerDies, AddManual, vars, kwVars
  <2>5. QED
    BY <2>1, <2>2, <2>3, <2>4 DEF Next
<1>5. QED
  BY <1>3, <1>4

\* A goroutine of dedup that is about to write finds the connection nil only if
\* keyword has died: the panic needs a death.
THEOREM NilsExplained == Spec => []NilOnlyAfterCut
<1>1. Init => NilOnlyAfterCut
  BY DEF Init, NilOnlyAfterCut, Idle
<1>2. Spec => [](Typed /\ NilOnlyAfterCut)
  BY <1>1, TypedInit, TypedStep, NilStep, PTL DEF Spec
<1>3. QED
  BY <1>2, PTL
-----------------------------------------------------------------------------
(***************************************************************************)
(* Nothing is lost but what a fault meets.  A goroutine that merges does   *)
(* so into a row that shares a key with its item, which is thus stored;    *)
(* every other frame is passed on, or given up by a step that says so.     *)
(***************************************************************************)
MergesMatch ==
  \A l \in Links : dedup[l].at \in {"merge", "update"} =>
    Keys[dedup[l].item] \cap Keys[papers[dedup[l].row].item] # {}

LossInv == MergesMatch /\ NothingLost

LEMMA MergeStep ==
  ASSUME Typed, MergesMatch, [Next]_vars
  PROVE  MergesMatch'
<1> SUFFICES ASSUME NEW l \in Links, dedup'[l].at \in {"merge", "update"}
             PROVE  Keys[dedup'[l].item] \cap Keys[papers'[dedup'[l].row].item] # {}
  BY DEF MergesMatch
<1>1. CASE dedup'[l] = dedup[l]
  BY <1>1, DedupHolds, RowsKept DEF MergesMatch
<1>2. CASE DedupFind(l)
  <2>1. PICK r \in Matching(dedup[l].item) :
          dedup'[l] = [at |-> "merge", item |-> dedup[l].item, row |-> r]
    <3>1. ~DedupGoto(l, [at |-> "dial", item |-> dedup[l].item])
      BY Goes
    <3>2. PICK r \in Matching(dedup[l].item) :
            DedupGoto(l, [at |-> "merge", item |-> dedup[l].item, row |-> r])
      BY <1>2, <3>1 DEF DedupFind
    <3>3. QED
      BY <3>2, Goes
  <2>2. UNCHANGED papers
    BY <1>2 DEF DedupFind
  <2>3. QED
    BY <2>1, <2>2 DEF Matching
<1>3. CASE DedupMerge(l)
  <2>1. dedup'[l].item = dedup[l].item /\ dedup'[l].row = dedup[l].row
    BY <1>3, Goes DEF DedupMerge, Idle
  <2>2. QED
    BY <1>3, <2>1 DEF DedupMerge, MergesMatch
<1>4. ASSUME Dedup(l), ~DedupFind(l), ~DedupMerge(l), ~DedupPanic(l) PROVE FALSE
  BY <1>4, Goes DEF Dedup, DedupRead, DedupUpdate, DedupFails, DedupDial, DedupSend, Idle
<1>5. ASSUME DedupRestarts PROVE FALSE
  BY <1>5 DEF DedupRestarts, Idle
<1>6. QED
  BY <1>1, <1>2, <1>3, <1>4, <1>5, DedupChanges DEF DedupPanic

\* Once stored, always stored.
LEMMA StaysStored ==
  ASSUME Typed, [Next]_vars, NEW i, Stored(i)
  PROVE  Stored(i)'
BY RowsKept DEF Stored

\* A frame on the wire stays there, or is the one keyword reads now, or dies
\* with keyword.
LEMMA FrameMoves ==
  ASSUME Typed, [Next]_vars, NEW n \in Conns, NEW k \in DOMAIN kwWire[n],
         kwWire[n][k] \notin lost'
  PROVE  \/ \E m \in DOMAIN kwWire'[n] : kwWire'[n][m] = kwWire[n][k]
         \/ KeywordRead(n) /\ kwWire[n][k] = Head(kwWire[n])
<1>1. kwWire \in [Conns -> Seq(Items)]
  BY DEF Typed, Kw!TypeOK, Kw!Conns, Conns
<1>2. ASSUME UNCHANGED kwWire
      PROVE  \E m \in DOMAIN kwWire'[n] : kwWire'[n][m] = kwWire[n][k]
  BY <1>2
<1>3. ASSUME NEW l \in Links, DedupSend(l)
      PROVE  \E m \in DOMAIN kwWire'[n] : kwWire'[n][m] = kwWire[n][k]
  <2>1. CASE Kw!WriteFails
    BY <1>2, <2>1 DEF Kw!WriteFails
  <2>2. CASE Kw!Write(dedup[l].item)
    <3>1. dedup[l].item \in Items
      BY <1>3, DedupHolds DEF DedupSend, Idle
    <3>2. kwWire'[n] = kwWire[n] \/ kwWire'[n] = Append(kwWire[n], dedup[l].item)
      BY <1>1, <2>2 DEF Kw!Write
    <3>3. k \in DOMAIN kwWire'[n] /\ kwWire'[n][k] = kwWire[n][k]
      BY <1>1, <3>1, <3>2
    <3>4. QED
      BY <3>3
  <2>3. QED
    BY <1>3, <2>1, <2>2 DEF DedupSend
<1>4. ASSUME NEW q \in Conns, KeywordRead(q)
      PROVE  \/ \E m \in DOMAIN kwWire'[n] : kwWire'[n][m] = kwWire[n][k]
             \/ KeywordRead(n) /\ kwWire[n][k] = Head(kwWire[n])
  <2>1. Kw!Read(q)
    BY <1>4 DEF KeywordRead
  <2>2. CASE q # n
    BY <1>1, <2>1, <2>2 DEF Kw!Read
  <2>3. CASE q = n /\ k = 1
    BY <1>1, <1>4, <2>3
  <2>4. CASE q = n /\ k # 1
    <3>1. kwWire'[n] = Tail(kwWire[n]) /\ kwWire[n] \in Seq(Items) /\ kwWire[n] # << >>
      BY <1>1, <2>1, <2>4 DEF Kw!Read
    <3>2. k - 1 \in DOMAIN kwWire'[n] /\ kwWire'[n][k - 1] = kwWire[n][k]
      BY <2>4, <3>1
    <3>3. QED
      BY <3>2
  <2>5. QED
    BY <2>2, <2>3, <2>4
<1>5. ASSUME NEW l \in Links, (\E i \in Items : Send(l, i)) \/ Dedup(l),
             ~DedupSend(l)
      PROVE  UNCHANGED kwWire
  BY <1>5 DEF Send, Dedup, DedupRead, DedupFind, DedupMerge, DedupUpdate,
     DedupFails, DedupDial, DedupPanic, DedupRestarts, Kw!OwnerDies, Kw!Dial, Kw!vars,
     kwVars
<1>6. ASSUME NEW q \in Conns, KeywordInsert(q) PROVE UNCHANGED kwWire
  BY <1>6 DEF KeywordInsert, kwVars
<1>7. CASE KeywordCrash
  BY <1>7 DEF KeywordCrash, Lose
<1>8. ASSUME DedupCrash \/ (\E i \in Items : AddManual(i)) \/ UNCHANGED vars
      PROVE  UNCHANGED kwWire
  BY <1>8 DEF DedupCrash, DedupRestarts, Kw!OwnerDies, AddManual, vars, kwVars
<1>9. QED
  BY <1>2, <1>3, <1>4, <1>5, <1>6, <1>7, <1>8 DEF Next, Keyword

\* What a goroutine of dedup has read and not finished is passed on, stored or
\* given up.
LEMMA DedupPasses ==
  ASSUME Typed, LossInv, [Next]_vars,
         NEW l \in Links, dedup[l] # Idle, NEW i, i = dedup[l].item, i \notin lost'
  PROVE  Stored(i)' \/ UnderWay(i)'
<1> USE DEF LossInv
<1>1. ASSUME dedup'[l] # Idle, dedup'[l].item = i PROVE UnderWay(i)'
  BY <1>1 DEF UnderWay
<1>2. CASE dedup'[l] = dedup[l]
  BY <1>1, <1>2
<1>3. CASE DedupFind(l)
  <2>1. CASE DedupGoto(l, [at |-> "dial", item |-> i])
    <3>1. dedup'[l] = [at |-> "dial", item |-> i]
      BY <2>1, Goes
    <3>2. QED
      BY <1>1, <3>1 DEF Idle
  <2>2. ASSUME NEW r, DedupGoto(l, [at |-> "merge", item |-> i, row |-> r])
        PROVE  UnderWay(i)'
    <3>1. dedup'[l] = [at |-> "merge", item |-> i, row |-> r]
      BY <2>2, Goes
    <3>2. QED
      BY <1>1, <3>1 DEF Idle
  <2>3. QED
    BY <1>3, <2>1, <2>2 DEF DedupFind
<1>4. CASE dedup[l].at \in {"merge", "update"}
  <2>1. dedup[l].row \in DOMAIN papers
    BY <1>4, DedupHolds
  <2>2. Stored(i)
    BY <1>4, <2>1 DEF MergesMatch, Stored
  <2>3. QED
    BY <2>2, StaysStored
<1>5. CASE DedupDial(l)
  <2>1. DedupGoto(l, [at |-> "send", item |-> i])
    BY <1>5 DEF DedupDial, Lose
  <2>2. dedup'[l] # Idle /\ dedup'[l].item = i
    BY <2>1, Goes DEF Idle
  <2>3. QED
    BY <1>1, <2>2
<1>6. CASE DedupSend(l)
  <2>1. i \in Items /\ kwOut \notin kwCut
    BY <1>6, DedupHolds DEF DedupSend, Lose
  <2>2. Kw!Write(i) /\ kwOut # 0
    BY <1>6, <2>1 DEF DedupSend, Kw!Write, Kw!WriteFails
  <2>3. /\ kwWire \in [Conns -> Seq(Items)] /\ kwOut \in Conns
        /\ kwWire' = [kwWire EXCEPT ![kwOut] = Append(@, i)]
    BY <2>1, <2>2, IngestBoundsAssumption DEF Kw!Write, Typed, Kw!TypeOK, Kw!Conns, Conns
  <2>4. kwWire'[kwOut] = Append(kwWire[kwOut], i) /\ kwWire[kwOut] \in Seq(Items)
    BY <2>3
  <2>5. /\ Len(kwWire[kwOut]) + 1 \in DOMAIN kwWire'[kwOut]
        /\ kwWire'[kwOut][Len(kwWire[kwOut]) + 1] = i
    BY <2>1, <2>4
  <2>6. QED
    BY <2>3, <2>5 DEF UnderWay
<1>7. CASE DedupRestarts
  <2>1. InHands(l) = {}
    BY <1>7 DEF DedupRestarts, Lose, InHands
  <2>2. dedup[l] \in DedupStates /\ dedup[l].at \notin {"find", "dial", "send"}
    BY <2>1, DedupHolds DEF InHands
  <2>3. dedup[l].at \in {"merge", "update"}
    BY <2>2 DEF DedupStates
  <2>4. QED
    BY <1>4, <2>3
<1>8. CASE DedupFails(l)
  <2>1. dedup[l].at # "find"
    BY <1>8 DEF DedupFails, Lose, InHands
  <2>2. QED
    BY <1>4, <1>8, <2>1 DEF DedupFails
<1>9. ASSUME DedupRead(l) PROVE FALSE
  BY <1>9 DEF DedupRead
<1>10. CASE DedupMerge(l) \/ DedupUpdate(l)
  BY <1>4, <1>10 DEF DedupMerge, DedupUpdate
<1>11. QED
  BY <1>2, <1>3, <1>5, <1>6, <1>7, <1>8, <1>9, <1>10, DedupChanges DEF Dedup, DedupPanic

\* So is what keyword has read.
LEMMA KeywordPasses ==
  ASSUME Typed, [Next]_vars, NEW n \in Conns, keyword[n].at = "insert",
         NEW i, i = keyword[n].item, i \notin lost'
  PROVE  Stored(i)' \/ UnderWay(i)'
<1>1. i \in Items
  BY KeywordHolds
<1>2. CASE keyword'[n] = keyword[n]
  BY <1>2 DEF UnderWay
<1>3. CASE KeywordInsert(n)
  <2>1. CASE Matching(i) # {}
    BY <2>1, StaysStored DEF Matching, Stored
  <2>2. CASE papers' = Append(papers, NewRow(i))
    <3>1. /\ Len(papers) + 1 \in DOMAIN papers'
          /\ papers'[Len(papers) + 1] = NewRow(i)
      BY <1>1, <2>2, RowInserted DEF Typed
    <3>2. papers'[Len(papers) + 1].item = i
      BY <3>1 DEF NewRow
    <3>3. QED
      BY <3>1, <3>2 DEF Stored
  <2>3. QED
    BY <1>3, <2>1, <2>2 DEF KeywordInsert, Lose
<1>4. ASSUME NEW m \in Conns, Keyword(m), ~(m = n /\ KeywordInsert(m))
      PROVE  keyword'[n] = keyword[n]
  BY <1>4 DEF Keyword, KeywordRead, KeywordInsert, KeywordGoto, Idle, Typed
<1>5. CASE KeywordCrash
  BY <1>5 DEF KeywordCrash, Lose
<1>6. ASSUME NEW l \in Links, (\E j \in Items : Send(l, j)) \/ Dedup(l)
      PROVE  keyword'[n] = keyword[n]
  BY <1>6 DEF Send, Dedup, DedupRead, DedupFind, DedupMerge, DedupUpdate,
     DedupFails, DedupDial, DedupSend, DedupPanic, DedupRestarts, DedupGoto
<1>7. ASSUME DedupCrash \/ (\E j \in Items : AddManual(j)) \/ UNCHANGED vars
      PROVE  keyword'[n] = keyword[n]
  BY <1>7 DEF DedupCrash, DedupRestarts, AddManual, vars
<1>8. QED
  BY <1>2, <1>3, <1>4, <1>5, <1>6, <1>7 DEF Next

\* Only dedup takes a frame in, for the first time or again, and then holds it.
LEMMA NewlyTaken ==
  ASSUME Typed, [Next]_vars, NEW i \in taken' \ lost', i \notin taken \ lost
  PROVE  UnderWay(i)'
<1>1. ASSUME NEW l \in Links, DedupRead(l) PROVE UnderWay(i)'
  <2>1. i = Head(inbox[l]) /\ dedup'[l] = [at |-> "find", item |-> Head(inbox[l])]
    BY <1>1, Goes DEF DedupRead
  <2>2. dedup'[l] # Idle /\ dedup'[l].item = i
    BY <2>1 DEF Idle
  <2>3. QED
    BY <2>2 DEF UnderWay
<1>2. SUFFICES ASSUME ~\E l \in Links : DedupRead(l) PROVE FALSE
  BY <1>1
<1>3. ASSUME taken' = taken, lost \subseteq lost' PROVE FALSE
  BY <1>3
<1>4. ASSUME NEW l \in Links, (\E j \in Items : Send(l, j)) \/ Dedup(l) PROVE FALSE
  BY <1>2, <1>3, <1>4 DEF Send, Dedup, DedupFind, DedupMerge, DedupUpdate, DedupFails,
     DedupDial, DedupSend, DedupPanic, DedupRestarts, Lose, history
<1>5. ASSUME NEW n \in Conns, Keyword(n) PROVE FALSE
  BY <1>3, <1>5 DEF Keyword, KeywordRead, KeywordInsert, Lose, history
<1>6. ASSUME DedupCrash \/ KeywordCrash \/ (\E j \in Items : AddManual(j)) PROVE FALSE
  BY <1>3, <1>6 DEF DedupCrash, DedupRestarts, KeywordCrash, Lose, AddManual, history
<1>7. ASSUME UNCHANGED vars PROVE FALSE
  BY <1>3, <1>7 DEF vars, history
<1>8. QED
  BY <1>4, <1>5, <1>6, <1>7 DEF Next

LEMMA LossStep ==
  ASSUME Typed, LossInv, [Next]_vars
  PROVE  LossInv'
<1>1. ASSUME NEW i \in (taken' \cap Admitted) \ lost'
      PROVE  Stored(i)' \/ UnderWay(i)'
  <2>1. CASE i \notin taken \ lost
    BY <1>1, <2>1, NewlyTaken
  <2>2. CASE Stored(i)
    BY <2>2, StaysStored
  <2>3. ASSUME NEW l \in Links, dedup[l] # Idle, dedup[l].item = i
        PROVE  Stored(i)' \/ UnderWay(i)'
    BY <1>1, <2>3, DedupPasses
  <2>4. ASSUME NEW n \in Conns, keyword[n].at = "insert", keyword[n].item = i
        PROVE  Stored(i)' \/ UnderWay(i)'
    BY <1>1, <2>4, KeywordPasses
  <2>5. ASSUME NEW n \in Conns, NEW k \in DOMAIN kwWire[n], kwWire[n][k] = i
        PROVE  UnderWay(i)'
    <3>1. CASE \E m \in DOMAIN kwWire'[n] : kwWire'[n][m] = i
      BY <3>1 DEF UnderWay
    <3>2. CASE KeywordRead(n) /\ Head(kwWire[n]) = i
      <4>1. KeywordGoto(n, [at |-> "insert", item |-> i])
        BY <1>1, <3>2 DEF KeywordRead
      <4>2. keyword'[n] = [at |-> "insert", item |-> i]
        BY <4>1 DEF KeywordGoto, Typed
      <4>3. QED
        BY <4>2 DEF UnderWay
    <3>3. QED
      BY <1>1, <2>5, <3>1, <3>2, FrameMoves
  <2>6. QED
    BY <1>1, <2>1, <2>2, <2>3, <2>4, <2>5 DEF LossInv, NothingLost, UnderWay
<1>2. NothingLost'
  BY <1>1 DEF NothingLost
<1>3. QED
  BY <1>2, MergeStep DEF LossInv

\* No interleaving of the goroutines of dedup and keyword with each other and
\* with the API loses an item that the title gate lets pass, and a fault loses
\* no frame but those it meets.
THEOREM NoneLost == Spec => []NothingLost
<1>1. Init => LossInv
  BY DEF Init, LossInv, MergesMatch, NothingLost, Idle
<1>2. Spec => [](Typed /\ LossInv)
  BY <1>1, TypedInit, TypedStep, LossStep, PTL DEF Spec
<1>3. QED
  BY <1>2, PTL DEF LossInv
=============================================================================
