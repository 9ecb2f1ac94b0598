------------------------ MODULE ScoringHelpersProofs ------------------------
(***************************************************************************)
(* Theorems about Scoring, and about the functions of Helpers for inputs   *)
(* of every size.                                                          *)
(***************************************************************************)
EXTENDS Scoring, Helpers, SequenceTheorems, FiniteSetTheorems, WellFoundedInduction, TLAPS

-----------------------------------------------------------------------------
(***************************************************************************)
(* Induction on the sets of numbers for which something holds.             *)
(***************************************************************************)

LEMMA LeastElement ==
  ASSUME NEW T \in SUBSET Nat, T # {}
  PROVE  \E m \in T : \A n \in T : m <= n
<1>1. PICK m \in T : \A n \in T : ~(<<n, m>> \in OpToRel(<, Nat))
  BY NatLessThanWellFounded, WFMin
<1>2. \A n \in T : ~(n < m)
  BY <1>1 DEF OpToRel
<1> QED
  BY <1>2

\* A set of numbers that is closed under the successor up to n has them all.
LEMMA UpwardInduction ==
  ASSUME NEW n \in Nat, NEW G \in SUBSET (0 .. n), 0 \in G,
         \A k \in 0 .. n - 1 : k \in G => k + 1 \in G
  PROVE  G = 0 .. n
<1> DEFINE Bad == (0 .. n) \ G
<1> SUFFICES ASSUME Bad # {} PROVE FALSE
  OBVIOUS
<1>1. Bad \in SUBSET Nat
  OBVIOUS
<1>2. PICK m \in Bad : \A k \in Bad : m <= k
  <2> HIDE DEF Bad
  <2> QED
    BY <1>1, LeastElement
<1>3. m # 0 /\ m \in 0 .. n /\ m - 1 \in 0 .. n - 1 /\ m - 1 \in G
  BY <1>2
<1> QED
  BY <1>3

\* One that is closed under the predecessor, from n down, has them all.
LEMMA DownwardInduction ==
  ASSUME NEW n \in Nat, NEW G \in SUBSET (0 .. n), n \in G,
         \A k \in 0 .. n - 1 : k + 1 \in G => k \in G
  PROVE  G = 0 .. n
<1> DEFINE H == {k \in 0 .. n : n - k \in G}
<1>1. 0 \in H /\ \A k \in 0 .. n - 1 : k \in H => k + 1 \in H
  <2>1. ASSUME NEW k \in 0 .. n - 1, k \in H PROVE k + 1 \in H
    <3>1. n - (k + 1) \in 0 .. n - 1 /\ n - (k + 1) + 1 \in G
      BY <2>1
    <3> QED
      BY <3>1
  <2> QED
    BY <2>1
<1>2. H = 0 .. n
  <2> HIDE DEF H
  <2>1. H \in SUBSET (0 .. n)
    BY DEF H
  <2> QED
    BY <1>1, <2>1, UpwardInduction
<1>3. ASSUME NEW k \in 0 .. n PROVE k \in G
  <2>1. n - k \in H
    <3> HIDE DEF H
    <3> QED
      BY <1>2, <1>3
  <2>2. n - (n - k) = k
    BY <1>3
  <2> QED
    BY <2>1, <2>2
<1> QED
  BY <1>3

-----------------------------------------------------------------------------
(***************************************************************************)
(* chunkText                                                               *)
(***************************************************************************)
SomeText(text) == text.length \in Nat /\ text.size \in Nat /\ text.overlap \in Int

Spans == Seq(Nat \X Nat)

\* One turn of the loop.
Turn(text, from, i) ==
  IF i + Size(text) >= text.length THEN << <<i, text.length>> >>
  ELSE << <<i, i + Size(text)>> >> \o from[i + Size(text) - Overlap(text)]

\* A chunk is longer than what it shares with the next one.
LEMMA SizeOverlap ==
  ASSUME NEW text, SomeText(text), MinSize \in Nat \ {0}
  PROVE  Size(text) \in Nat /\ Overlap(text) \in Nat /\ Overlap(text) < Size(text)
BY DEF SomeText, Size, Overlap

\* The loop always ends: the recursion of PiecesFrom has a solution.
LEMMA PiecesExist ==
  ASSUME NEW text, SomeText(text), MinSize \in Nat \ {0}
  PROVE  \E f : f = [i \in 0 .. text.length |-> Turn(text, f, i)]
<1> DEFINE last == text.length
           Solves(f, n) == \A i \in n .. last : f[i] = Turn(text, f, i)
           G == {n \in 0 .. last : \E f \in [0 .. last -> Spans] : Solves(f, n)}
<1>0. last \in Nat /\ Size(text) \in Nat /\ Overlap(text) \in Nat /\ Overlap(text) < Size(text)
  BY SizeOverlap DEF SomeText
<1>1. \A f \in [0 .. last -> Spans], i \in 0 .. last : Turn(text, f, i) \in Spans
  <2> SUFFICES ASSUME NEW f \in [0 .. last -> Spans], NEW i \in 0 .. last
               PROVE  Turn(text, f, i) \in Spans
    OBVIOUS
  <2>1. CASE i + Size(text) >= last
    <3>1. << <<i, last>> >> \in Spans
      BY <1>0 DEF Spans
    <3> QED
      BY <2>1, <3>1 DEF Turn
  <2>2. CASE ~(i + Size(text) >= last)
    <3>1. << <<i, i + Size(text)>> >> \in Spans
      BY <1>0 DEF Spans
    <3>2. f[i + Size(text) - Overlap(text)] \in Spans
      BY <1>0, <2>2
    <3> QED
      BY <2>2, <3>1, <3>2 DEF Turn, Spans
  <2> QED
    BY <2>1, <2>2
<1>2. last \in G
  <2> DEFINE f == [i \in 0 .. last |-> << <<i, last>> >>]
  <2>1. f \in [0 .. last -> Spans]
    BY <1>0 DEF Spans
  <2>2. Solves(f, last)
    BY <1>0 DEF Turn
  <2>3. last \in 0 .. last
    BY <1>0
  <2> HIDE DEF f, Solves
  <2> QED
    BY <2>1, <2>2, <2>3
<1>3. ASSUME NEW n \in 0 .. last - 1, n + 1 \in G PROVE n \in G
  <2>1. PICK f \in [0 .. last -> Spans] : Solves(f, n + 1)
    BY <1>3
  <2> DEFINE g == [f EXCEPT ![n] = Turn(text, f, n)]
  <2>2. g \in [0 .. last -> Spans]
    BY <1>0, <1>1, <2>1
  <2>3. ASSUME NEW i \in n .. last PROVE g[i] = Turn(text, g, i)
    <3>1. Turn(text, g, i) = Turn(text, f, i)
      <4>1. i + Size(text) >= last \/ g[i + Size(text) - Overlap(text)] = f[i + Size(text) - Overlap(text)]
        BY <1>0, <2>1
      <4> QED
        BY <4>1 DEF Turn
    <3>2. i \in 0 .. last
      BY <1>0
    <3>3. CASE i = n
      BY <2>1, <3>1, <3>2, <3>3
    <3>4. CASE i # n
      <4>1. i \in n + 1 .. last
        BY <1>0, <3>4
      <4> QED
        BY <2>1, <3>1, <3>2, <3>4, <4>1
    <3> QED
      BY <3>3, <3>4
  <2>4. n \in 0 .. last
    BY <1>0, <1>3
  <2> QED
    BY <2>2, <2>3, <2>4
<1>4. 0 \in G
  <2> HIDE DEF G
  <2>1. G \in SUBSET (0 .. last)
    BY DEF G
  <2> QED
    BY <1>0, <1>2, <1>3, <2>1, DownwardInduction
<1>5. PICK f \in [0 .. last -> Spans] : Solves(f, 0)
  BY <1>4
<1>6. f = [i \in 0 .. last |-> Turn(text, f, i)]
  BY <1>5
<1> QED
  BY <1>6

\* What PiecesFrom computes at each position.
LEMMA PiecesUnfold ==
  ASSUME NEW text, SomeText(text), MinSize \in Nat \ {0}
  PROVE  PiecesFrom(text) = [i \in 0 .. text.length |-> Turn(text, PiecesFrom(text), i)]
<1>1. PICK f : f = [i \in 0 .. text.length |-> Turn(text, f, i)]
  BY PiecesExist
<1> QED
  BY <1>1, Zenon DEF PiecesFrom, Turn
\* chunks are those of a text from position i on.
CoverFrom(text, i, chunks) ==
  /\ chunks \in Spans /\ chunks # << >>
  /\ chunks[1][1] = i
  /\ chunks[1][2] = IF i + Size(text) >= text.length THEN text.length ELSE i + Size(text)
  /\ chunks[Len(chunks)][2] = text.length
  /\ \A k \in 1 .. Len(chunks) - 1 :
       /\ chunks[k][2] - chunks[k][1] = Size(text)
       /\ chunks[k + 1][1] = chunks[k][2] - Overlap(text)
       /\ chunks[k + 1][2] > chunks[k][2]

LEMMA Prepend ==
  ASSUME NEW T, NEW one \in T, NEW tail \in Seq(T)
  PROVE  /\ <<one>> \o tail \in Seq(T)
         /\ Len(<<one>> \o tail) = Len(tail) + 1
         /\ (<<one>> \o tail)[1] = one
         /\ \A k \in 1 .. Len(tail) : (<<one>> \o tail)[k + 1] = tail[k]
<1>1. <<one>> \in Seq(T) /\ Len(<<one>>) = 1 /\ <<one>>[1] = one
  OBVIOUS
<1>2. \A k \in 1 .. Len(tail) : k + 1 \in 1 .. Len(tail) + 1 /\ k + 1 - 1 = k /\ ~(k + 1 <= 1)
  OBVIOUS
<1> QED
  BY <1>1, <1>2, ConcatProperties

\* A chunk of full size in front of those that begin where it leaves off.
LEMMA CoverMore ==
  ASSUME NEW text, SomeText(text), MinSize \in Nat \ {0},
         NEW i \in 0 .. text.length, i + Size(text) < text.length,
         NEW tail, CoverFrom(text, i + Size(text) - Overlap(text), tail)
  PROVE  CoverFrom(text, i, << <<i, i + Size(text)>> >> \o tail)
<1> DEFINE S == Size(text)
           O == Overlap(text)
           all == << <<i, i + S>> >> \o tail
<1>0. text.length \in Nat /\ S \in Nat /\ O \in Nat /\ O < S
  BY SizeOverlap DEF SomeText
<1>1. tail \in Spans /\ Len(tail) \in Nat \ {0} /\ tail \in Seq(Nat \X Nat)
  BY DEF CoverFrom, Spans
<1>2. <<i, i + S>> \in Nat \X Nat
  BY <1>0
<1> DEFINE one == <<i, i + S>>
           Pairs == Nat \X Nat
<1>3. all \in Seq(Nat \X Nat) /\ Len(all) = Len(tail) + 1 /\ all[1] = <<i, i + S>>
  BY <1>1, <1>2, Prepend
<1>4. \A k \in 1 .. Len(tail) : all[k + 1] = tail[k]
  <2>1. one \in Pairs /\ tail \in Seq(Pairs)
    BY <1>1, <1>2
  <2> HIDE DEF one, Pairs
  <2>2. \A k \in 1 .. Len(tail) : (<<one>> \o tail)[k + 1] = tail[k]
    BY <2>1, Prepend
  <2> QED
    BY <2>2 DEF one
<1>5. \A k \in 1 .. Len(tail) : tail[k][1] \in Nat /\ tail[k][2] \in Nat
  BY <1>1
<1>6. tail[1][1] = i + S - O /\ tail[1][2] > i + S
  <2>1. /\ tail[1][1] = i + S - O
        /\ tail[1][2] = IF i + S - O + S >= text.length THEN text.length ELSE i + S - O + S
    BY DEF CoverFrom
  <2> QED
    BY <1>0, <2>1
<1> HIDE DEF all
<1>7. Len(tail) \in Nat /\ Len(all) = Len(tail) + 1
  BY <1>1, <1>3
<1>8. ASSUME NEW k \in 1 .. Len(all) - 1
      PROVE  /\ all[k][2] - all[k][1] = S
             /\ all[k + 1][1] = all[k][2] - O
             /\ all[k + 1][2] > all[k][2]
  <2>1. CASE k = 1
    <3>1. all[k] = <<i, i + S>> /\ all[k + 1] = tail[1]
      <4>1. 1 \in 1 .. Len(tail)
        BY <1>1
      <4>2. all[1 + 1] = tail[1]
        BY <1>4, <4>1
      <4> QED
        BY <1>3, <2>1, <4>2
    <3> QED
      BY <1>0, <1>6, <3>1
  <2>2. CASE k # 1
    <3>1. k - 1 \in 1 .. Len(tail) - 1 /\ (k - 1) + 1 = k
      BY <1>7, <2>2
    <3>2. k - 1 \in 1 .. Len(tail) /\ k \in 1 .. Len(tail)
      BY <1>7, <2>2
    <3>3. /\ tail[k - 1][2] - tail[k - 1][1] = S
          /\ tail[k][1] = tail[k - 1][2] - O
          /\ tail[k][2] > tail[k - 1][2]
      BY <3>1 DEF CoverFrom
    <3>4. all[k] = tail[k - 1] /\ all[k + 1] = tail[k]
      BY <1>4, <3>1, <3>2
    <3> QED
      BY <3>3, <3>4
  <2> QED
    BY <2>1, <2>2
<1>9. all[Len(all)][2] = text.length
  <2>1. Len(tail) \in 1 .. Len(tail) /\ Len(all) = Len(tail) + 1
    BY <1>1, <1>3
  <2>2. all[Len(tail) + 1] = tail[Len(tail)]
    BY <1>4, <2>1
  <2>3. tail[Len(tail)][2] = text.length
    BY DEF CoverFrom
  <2> HIDE DEF all
  <2> QED
    BY <1>3, <2>2, <2>3, Zenon
<1>10. all # << >>
  BY <1>1, <1>3
<1>11. CoverFrom(text, i, all)
  <2>1. all[1][1] = i /\ all[1][2] = IF i + S >= text.length THEN text.length ELSE i + S
    BY <1>0, <1>3
  <2>2. all \in Spans /\ all # << >>
    BY <1>3, <1>10 DEF Spans
  <2> QED
    BY <1>8, <1>9, <2>1, <2>2, Zenon DEF CoverFrom
<1> QED
  BY <1>11 DEF all

LEMMA PiecesCover ==
  ASSUME NEW text, SomeText(text), MinSize \in Nat \ {0}
  PROVE  \A i \in 0 .. text.length : CoverFrom(text, i, PiecesFrom(text)[i])
<1> DEFINE from == PiecesFrom(text)
           G == {i \in 0 .. text.length : \A j \in i .. text.length : CoverFrom(text, j, from[j])}
<1>0. text.length \in Nat /\ Size(text) \in Nat /\ Overlap(text) \in Nat /\ Overlap(text) < Size(text)
  BY SizeOverlap DEF SomeText
<1>1. ASSUME NEW i \in 0 .. text.length PROVE from[i] = Turn(text, from, i)
  <2> HIDE DEF from
  <2>1. from = [k \in 0 .. text.length |-> Turn(text, from, k)]
    BY PiecesUnfold DEF from
  <2> QED
    BY <1>1, <2>1
<1>2. ASSUME NEW i \in 0 .. text.length, i + Size(text) >= text.length
      PROVE  CoverFrom(text, i, from[i])
  <2>1. from[i] = << <<i, text.length>> >>
    BY <1>1, <1>2 DEF Turn
  <2> QED
    BY <1>0, <1>2, <2>1 DEF CoverFrom, Spans
<1>3. ASSUME NEW i \in 0 .. text.length - 1, i + 1 \in G PROVE i \in G
  <2>1. CoverFrom(text, i, from[i])
    <3>1. CASE i + Size(text) >= text.length
      BY <1>0, <1>2, <3>1
    <3>2. CASE i + Size(text) < text.length
      <4> DEFINE next == i + Size(text) - Overlap(text)
      <4>1. next \in i + 1 .. text.length
        BY <1>0, <3>2
      <4>2. CoverFrom(text, next, from[next])
        BY <1>3, <4>1
      <4>3. i \in 0 .. text.length /\ ~(i + Size(text) >= text.length)
        BY <1>0, <3>2
      <4> HIDE DEF from
      <4>4. from[i] = << <<i, i + Size(text)>> >> \o from[next]
        BY <1>1, <4>3 DEF Turn
      <4> QED
        BY <3>2, <4>2, <4>3, <4>4, CoverMore
    <3> QED
      BY <1>0, <3>1, <3>2
  <2>2. ASSUME NEW j \in i .. text.length PROVE CoverFrom(text, j, from[j])
    <3>1. j = i \/ j \in i + 1 .. text.length
      BY <1>0
    <3> QED
      BY <1>3, <2>1, <3>1
  <2>3. i \in 0 .. text.length
    BY <1>0
  <2> QED
    BY <2>2, <2>3
<1>4. text.length \in G
  BY <1>0, <1>2
<1>5. G = 0 .. text.length
  <2> HIDE DEF G
  <2>1. G \in SUBSET (0 .. text.length)
    BY DEF G
  <2> QED
    BY <1>0, <1>3, <1>4, <2>1, DownwardInduction
<1> QED
  BY <1>0, <1>5

\* What the run checks of one text holds for a text of any length, any chunk
\* size and any overlap, zero, negative or too large ones included.
LEMMA AnyTextCovered ==
  ASSUME NEW text, SomeText(text), MinSize \in Nat \ {0}
  PROVE  LET chunks == ChunkText(text)
             last == Len(chunks) IN
           /\ last = 0 <=> text.length = 0
           /\ last > 0 => chunks[1][1] = 0 /\ chunks[last][2] = text.length
           /\ \A k \in 1 .. last - 1 :
                /\ chunks[k][2] - chunks[k][1] = Size(text)
                /\ chunks[k + 1][1] = chunks[k][2] - Overlap(text)
                /\ chunks[k + 1][2] > chunks[k][2]
<1> DEFINE chunks == ChunkText(text)
<1>0. text.length \in Nat /\ Size(text) \in Nat
  BY SizeOverlap DEF SomeText
<1>1. CASE text.length = 0
  BY <1>1 DEF ChunkText
<1>2. CASE text.length # 0 /\ text.length <= Size(text)
  <2>1. chunks = << <<0, text.length>> >>
    BY <1>2 DEF ChunkText
  <2> HIDE DEF chunks
  <2> QED
    BY <1>0, <1>2, <2>1 DEF chunks
<1>3. CASE text.length # 0 /\ ~(text.length <= Size(text))
  <2>1. CoverFrom(text, 0, chunks)
    BY <1>0, <1>3, PiecesCover DEF ChunkText, Pieces
  <2> HIDE DEF chunks
  <2>2. Len(chunks) \in Nat \ {0}
    BY <2>1 DEF CoverFrom, Spans
  <2> QED
    BY <1>3, <2>1, <2>2 DEF CoverFrom, chunks
<1> QED
  BY <1>1, <1>2, <1>3

\* The chunks of any text cover it.
THEOREM AnyChunksCover == HelpersSpec => []ChunksCover
<1>1. HelpersInit => ChunksCover
  <2> SUFFICES ASSUME HelpersInit, input.kind = "text" PROVE ChunksCover
    BY DEF ChunksCover
  <2>1. input \in Texts
    BY DEF HelpersInit, Texts, Seeds, Feeds, Rates
  <2>2. SomeText(input)
    BY <2>1, HelpersAssumption DEF Texts, SomeText
  <2> QED
    BY <2>2, HelpersAssumption, AnyTextCovered DEF ChunksCover
<1>2. ChunksCover /\ [HelpersNext]_input => ChunksCover'
  BY DEF ChunksCover, HelpersNext
<1> QED
  BY <1>1, <1>2, PTL DEF HelpersSpec
-----------------------------------------------------------------------------
(***************************************************************************)
(* Scoring                                                                 *)
(***************************************************************************)
Columns == [embedded : BOOLEAN, status : {"ok", "pending"},
            relevant : Verdicts \cup {NoVerdict}, error : BOOLEAN, stamped : BOOLEAN]

Steps == [at : {"none", "embed", "chat", "returned", "lost"},
          tried : 0 .. MaxAttempts - 1, pulled : BOOLEAN]

Inv == TypeOK /\ ColumnsAgree

Agree(columns) ==
  /\ (columns.status = "ok") = (columns.relevant # NoVerdict)
  /\ columns.error => columns.status = "pending"
  /\ columns.relevant = "true" => columns.stamped

\* Writing the columns of one paper, so that they agree again.
LEMMA WriteOne ==
  ASSUME row \in [Papers -> Columns], ColumnsAgree, NEW p \in Papers,
         NEW columns \in Columns, Agree(columns), row' = [row EXCEPT ![p] = columns]
  PROVE  row' \in [Papers -> Columns] /\ ColumnsAgree'
<1>1. row' \in [Papers -> Columns]
  OBVIOUS
<1>2. \A q \in Papers : row'[q] = IF q = p THEN columns ELSE row[q]
  OBVIOUS
<1> QED
  BY <1>1, <1>2 DEF ColumnsAgree, Agree

\* The three ways a paper is written.
LEMMA ColumnsKept ==
  ASSUME Inv, NEW p \in Papers,
         \/ \E relevant \in Verdicts : SetLLMOK(p, relevant)
         \/ SetLLMPending(p)
         \/ row' = [row EXCEPT ![p].embedded = TRUE]
  PROVE  row' \in [Papers -> Columns] /\ ColumnsAgree'
<1>0. row \in [Papers -> Columns] /\ row[p] \in Columns /\ Agree(row[p]) /\ ColumnsAgree
  BY DEF Inv, TypeOK, ColumnsAgree, Agree, Columns
<1>1. CASE \E relevant \in Verdicts : SetLLMOK(p, relevant)
  <2>1. PICK relevant \in Verdicts : SetLLMOK(p, relevant)
    BY <1>1
  <2> DEFINE new == [row[p] EXCEPT !.status = "ok", !.relevant = relevant, !.error = FALSE,
                                   !.stamped = @ \/ relevant = "true"]
  <2>2. new \in Columns /\ Agree(new)
    BY <1>0 DEF Columns, Agree, Verdicts, NoVerdict
  <2>3. row' = [row EXCEPT ![p] = new]
    BY <1>0, <2>1 DEF SetLLMOK, Columns
  <2> HIDE DEF new
  <2> QED
    BY <1>0, <2>2, <2>3, WriteOne
<1>2. CASE SetLLMPending(p)
  <2> DEFINE new == [row[p] EXCEPT !.status = "pending", !.relevant = NoVerdict, !.error = TRUE]
  <2>1. new \in Columns /\ Agree(new)
    BY <1>0 DEF Columns, Agree, NoVerdict
  <2>2. row' = [row EXCEPT ![p] = new]
    BY <1>0, <1>2 DEF SetLLMPending, Columns
  <2> HIDE DEF new
  <2> QED
    BY <1>0, <2>1, <2>2, WriteOne
<1>3. CASE row' = [row EXCEPT ![p].embedded = TRUE]
  <2> DEFINE new == [row[p] EXCEPT !.embedded = TRUE]
  <2>1. new \in Columns /\ Agree(new)
    BY <1>0 DEF Columns, Agree
  <2>2. row' = [row EXCEPT ![p] = new]
    BY <1>0, <1>3 DEF Columns
  <2> HIDE DEF new
  <2> QED
    BY <1>0, <2>1, <2>2, WriteOne
<1> QED
  BY <1>1, <1>2, <1>3

LEMMA EndedSteps == ScoringAssumption => Returned \in Steps /\ Lost \in Steps
<1>1. ScoringAssumption => NoWork \in Steps
  BY DEF ScoringAssumption, NoWork, Steps
<1> QED
  BY <1>1 DEF Returned, Lost, Steps

\* A try that is not the last has another one after it.
LEMMA WorkKept ==
  ASSUME ScoringAssumption, work \in [Papers -> Steps], NEW p \in Papers,
         Receive(p) \/ Process(p) \/ Fails(p)
  PROVE  work' \in [Papers -> Steps]
<1>0. Returned \in Steps /\ Lost \in Steps
  BY EndedSteps
<1>1. CASE \/ work' = [work EXCEPT ![p].at = "embed"]
           \/ work' = [work EXCEPT ![p].at = "chat"]
  BY <1>1 DEF Steps
<1>2. CASE \E done \in {Returned, Lost} : work' = [work EXCEPT ![p] = done]
  BY <1>0, <1>2
<1>3. CASE /\ work[p].tried + 1 # MaxAttempts
           /\ work' = [work EXCEPT ![p].tried = @ + 1, ![p].pulled = TRUE]
  <2> DEFINE new == [work[p] EXCEPT !.tried = @ + 1, !.pulled = TRUE]
  <2>1. work[p].tried + 1 \in 0 .. MaxAttempts - 1
    BY <1>3, ScoringAssumption DEF ScoringAssumption, Steps
  <2>2. new \in Steps
    BY <2>1 DEF Steps
  <2>3. work' = [work EXCEPT ![p] = new]
    BY <1>3 DEF Steps
  <2> HIDE DEF new
  <2> QED
    BY <2>2, <2>3
<1>4. CASE Receive(p)
  BY <1>1, <1>4 DEF Receive
<1>5. CASE Embed(p) \/ EmbedFails(p)
  BY <1>1, <1>2, <1>5 DEF Embed, EmbedFails, AfterEmbed, Return
<1>6. CASE Chat(p)
  BY <1>2, <1>6 DEF Chat, Return
<1>7. CASE ChatFails(p)
  BY <1>2, <1>3, <1>7 DEF ChatFails, GivesUp, Return
<1>8. CASE Fails(p)
  BY <1>2, <1>8 DEF Fails
<1> QED
  BY <1>4, <1>5, <1>6, <1>7, <1>8 DEF Process

LEMMA ScoringStep == ASSUME ScoringAssumption, Inv, [Next]_vars PROVE Inv'
<1>0. /\ enableLLM \in BOOLEAN /\ row \in [Papers -> Columns] /\ work \in [Papers -> Steps]
      /\ ColumnsAgree
  BY DEF Inv, TypeOK, Columns, Steps
<1> SUFFICES /\ enableLLM' \in BOOLEAN /\ row' \in [Papers -> Columns]
             /\ work' \in [Papers -> Steps] /\ ColumnsAgree'
  BY DEF Inv, TypeOK, Columns, Steps
<1>1. CASE \E p \in Papers : Receive(p) \/ Process(p) \/ Fails(p)
  <2>1. PICK p \in Papers : Receive(p) \/ Process(p) \/ Fails(p)
    BY <1>1
  <2>2. work' \in [Papers -> Steps]
    BY <1>0, <2>1, WorkKept
  <2>3. UNCHANGED enableLLM
    BY <2>1 DEF Receive, Process, Fails, Embed, EmbedFails, Chat, ChatFails
  <2>4. \/ \E relevant \in Verdicts : SetLLMOK(p, relevant)
        \/ SetLLMPending(p)
        \/ row' = [row EXCEPT ![p].embedded = TRUE]
        \/ UNCHANGED row
    BY <2>1 DEF Receive, Process, Fails, Embed, EmbedFails, Chat, ChatFails
  <2>5. CASE UNCHANGED row
    BY <1>0, <2>2, <2>3, <2>5 DEF ColumnsAgree
  <2> QED
    BY <1>0, <2>2, <2>3, <2>4, <2>5, ColumnsKept
<1>2. CASE Migrate
  <2>1. \A p \in Papers : /\ row'[p] \in Columns /\ Agree(row'[p])
    BY <1>0, <1>2 DEF Migrate, Fresh, Columns, Agree, NoVerdict
  <2>2. row' \in [Papers -> Columns]
    BY <1>2, <2>1 DEF Migrate
  <2> QED
    BY <1>0, <1>2, <2>1, <2>2 DEF Migrate, ColumnsAgree, Agree
<1>3. CASE Crash
  BY <1>0, <1>3, EndedSteps DEF Crash, ColumnsAgree
<1>4. CASE UNCHANGED vars
  BY <1>0, <1>4 DEF vars, ColumnsAgree
<1> QED
  BY <1>1, <1>2, <1>3, <1>4 DEF Next, Quiet

LEMMA ScoringStart == ASSUME ScoringAssumption, Init PROVE Inv
BY DEF ScoringAssumption, Init, Inv, TypeOK, ColumnsAgree, Fresh, NoWork, NoVerdict

\* A paper never has more tries behind it than LLM_MAX_ATTEMPTS allows, nor
\* a status or a verdict that the columns do not know.
THEOREM ScoringTyped == Spec => []TypeOK
<1>1. Init => Inv
  BY ScoringAssumption, ScoringStart
<1>2. Inv /\ [Next]_vars => Inv'
  BY ScoringAssumption, ScoringStep
<1>3. Inv => TypeOK
  BY DEF Inv
<1> QED
  BY <1>1, <1>2, <1>3, PTL DEF Spec

\* Whatever writes the columns of a paper, a verdict, an error or a migration,
\* writes them together: for any number of papers scored at a time.
THEOREM ColumnsTogether == Spec => []ColumnsAgree
<1>1. Init => Inv
  BY ScoringAssumption, ScoringStart
<1>2. Inv /\ [Next]_vars => Inv'
  BY ScoringAssumption, ScoringStep
<1>3. Inv => ColumnsAgree
  BY DEF Inv
<1> QED
  BY <1>1, <1>2, <1>3, PTL DEF Spec
-----------------------------------------------------------------------------
(***************************************************************************)
(* allowRate                                                               *)
(***************************************************************************)
Rated == [now : Nat, window : Nat, counter : [Addresses -> Nat], allowed : BOOLEAN]

Call == [after : Pauses, key : Addresses]

LEMMA AdmitTyped ==
  ASSUME NEW limit \in Nat, NEW last \in Rated, NEW call \in Call
  PROVE  Admit(limit, last, call) \in Rated
<1> DEFINE now == last.now + call.after
           fresh == Expired(now - last.window)
           counter == [key \in Addresses |-> (IF fresh THEN 0 ELSE last.counter[key])
                                               + (IF key = call.key THEN 1 ELSE 0)]
<1>1. /\ last.now \in Nat /\ last.window \in Nat /\ last.counter \in [Addresses -> Nat]
      /\ call.after \in Nat /\ call.key \in Addresses
  BY HelpersAssumption DEF Rated, Call
<1>2. now \in Nat /\ counter \in [Addresses -> Nat]
  BY <1>1
<1>3. Admit(limit, last, call) = [now |-> now, window |-> IF fresh THEN now ELSE last.window,
                                  counter |-> counter, allowed |-> counter[call.key] <= limit]
  BY DEF Admit
<1>4. (IF fresh THEN now ELSE last.window) \in Nat /\ (counter[call.key] <= limit) \in BOOLEAN
  BY <1>1, <1>2
<1> HIDE DEF now, counter, fresh
<1> QED
  BY <1>2, <1>3, <1>4 DEF Rated

LEMMA OpenedTyped == Opened \in Rated
BY DEF Opened, Rated

\* after is a run of calls.
RunOf(limit, calls, after) ==
  /\ limit \in Nat /\ calls \in [1 .. MaxCalls -> Call]
  /\ after \in [0 .. MaxCalls -> Rated]
  /\ after[0] = Opened
  /\ \A k \in 1 .. MaxCalls : after[k] = Admit(limit, after[k - 1], calls[k])

OneCall(rate, after, k) ==
  IF k = 0 THEN Opened ELSE Admit(rate.limit, after[k - 1], rate.calls[k])

\* The recursion of AllowRate has a solution.
LEMMA RateExists ==
  ASSUME NEW rate, rate.limit \in Nat, rate.calls \in [1 .. MaxCalls -> Call]
  PROVE  \E f : f = [k \in 0 .. MaxCalls |-> OneCall(rate, f, k)]
<1> DEFINE n == MaxCalls
           Solves(f, m) == \A k \in 0 .. m : f[k] = OneCall(rate, f, k)
           G == {m \in 0 .. n : \E f \in [0 .. n -> Rated] : Solves(f, m)}
<1>0. n \in Nat
  BY HelpersAssumption
<1>1. 0 \in G
  <2> DEFINE f == [k \in 0 .. n |-> Opened]
  <2>1. f \in [0 .. n -> Rated]
    BY OpenedTyped
  <2>2. Solves(f, 0)
    BY <1>0 DEF OneCall
  <2> HIDE DEF f
  <2> QED
    BY <1>0, <2>1, <2>2
<1>2. ASSUME NEW m \in 0 .. n - 1, m \in G PROVE m + 1 \in G
  <2>0. m + 1 \in 0 .. n /\ m \in 0 .. n /\ m + 1 \in 1 .. n /\ m + 1 # 0 /\ (m + 1) - 1 = m
    BY <1>0
  <2>1. PICK f \in [0 .. n -> Rated] : Solves(f, m)
    BY <1>2
  <2> DEFINE new == Admit(rate.limit, f[m], rate.calls[m + 1])
             g == [f EXCEPT ![m + 1] = new]
  <2>2. new \in Rated
    BY <2>0, <2>1, AdmitTyped
  <2>3. g \in [0 .. n -> Rated]
    <3> HIDE DEF new
    <3> QED
      BY <2>0, <2>1, <2>2
  <2>4. ASSUME NEW k \in 0 .. m + 1 PROVE g[k] = OneCall(rate, g, k)
    <3>1. CASE k = m + 1
      <4>1. g[m + 1] = new /\ g[m] = f[m]
        <5> HIDE DEF new
        <5> QED
          BY <2>0, <2>1
      <4> QED
        BY <2>0, <3>1, <4>1 DEF OneCall
    <3>2. CASE k # m + 1
      <4>1. k \in 0 .. m /\ k \in 0 .. n /\ (k = 0 \/ (k - 1 \in 0 .. n /\ k - 1 # m + 1))
        BY <1>0, <3>2
      <4>2. g[k] = f[k] /\ (k = 0 \/ g[k - 1] = f[k - 1])
        <5> HIDE DEF new
        <5> QED
          BY <2>1, <3>2, <4>1
      <4>3. f[k] = OneCall(rate, f, k)
        BY <2>1, <4>1
      <4> HIDE DEF g
      <4> QED
        BY <4>2, <4>3 DEF OneCall
    <3> QED
      BY <3>1, <3>2
  <2> HIDE DEF g
  <2> QED
    BY <2>0, <2>3, <2>4
<1>3. n \in G
  <2> HIDE DEF G, n
  <2>1. G \in SUBSET (0 .. n)
    BY DEF G
  <2>2. G = 0 .. n
    BY <1>0, <1>1, <1>2, <2>1, UpwardInduction
  <2> QED
    BY <1>0, <2>2
<1>4. PICK f \in [0 .. n -> Rated] : Solves(f, n)
  BY <1>3
<1>5. f = [k \in 0 .. n |-> OneCall(rate, f, k)]
  BY <1>4
<1> QED
  BY <1>5

\* What AllowRate computes is a run.
LEMMA RateUnfold ==
  ASSUME NEW rate, rate.limit \in Nat, rate.calls \in [1 .. MaxCalls -> Call]
  PROVE  RunOf(rate.limit, rate.calls, AllowRate(rate))
<1> DEFINE after == AllowRate(rate)
           n == MaxCalls
<1>0. n \in Nat
  BY HelpersAssumption
<1>1. PICK f : f = [k \in 0 .. n |-> OneCall(rate, f, k)]
  BY RateExists
<1>2. after = [k \in 0 .. n |-> OneCall(rate, after, k)]
  BY <1>1, Zenon DEF AllowRate, OneCall
<1> HIDE DEF after
<1>3. \A k \in 0 .. n : after[k] = OneCall(rate, after, k)
  BY <1>2
<1>4. /\ after[0] = Opened
      /\ \A k \in 1 .. n : after[k] = Admit(rate.limit, after[k - 1], rate.calls[k])
  BY <1>0, <1>3 DEF OneCall
<1> DEFINE G == {k \in 0 .. n : after[k] \in Rated}
<1>5. 0 \in G
  BY <1>0, <1>4, OpenedTyped
<1>6. ASSUME NEW k \in 0 .. n - 1, k \in G PROVE k + 1 \in G
  <2>1. k + 1 \in 1 .. n /\ k + 1 \in 0 .. n /\ (k + 1) - 1 = k
    BY <1>0
  <2>2. after[k + 1] = Admit(rate.limit, after[k], rate.calls[k + 1])
    BY <1>4, <2>1
  <2>3. after[k + 1] \in Rated
    BY <1>6, <2>1, <2>2, AdmitTyped
  <2> QED
    BY <2>1, <2>3
<1>7. G = 0 .. n
  <2> HIDE DEF G, n
  <2>1. G \in SUBSET (0 .. n)
    BY DEF G
  <2> QED
    BY <1>0, <1>5, <1>6, <2>1, UpwardInduction
<1>8. after \in [0 .. n -> Rated]
  BY <1>2, <1>7
<1> QED
  BY <1>4, <1>8 DEF RunOf, after
\* What one call does to the clock, the window and the counters.
LEMMA OneAdmission ==
  ASSUME NEW limit, NEW calls, NEW after, RunOf(limit, calls, after),
         NEW k \in 1 .. MaxCalls
  PROVE  /\ k - 1 \in 0 .. MaxCalls /\ k \in 0 .. MaxCalls
         /\ after[k - 1] \in Rated /\ after[k] \in Rated /\ calls[k] \in Call
         /\ after[k].now = after[k - 1].now + calls[k].after
         /\ \/ /\ after[k].now - after[k - 1].window >= Minute
               /\ after[k].window = after[k].now
               /\ \A x \in Addresses :
                    after[k].counter[x] = IF x = calls[k].key THEN 1 ELSE 0
            \/ /\ after[k].now - after[k - 1].window < Minute
               /\ after[k].window = after[k - 1].window
               /\ \A x \in Addresses :
                    after[k].counter[x] = after[k - 1].counter[x]
                                            + (IF x = calls[k].key THEN 1 ELSE 0)
         /\ after[k].allowed <=> after[k].counter[calls[k].key] <= limit
<1>1. /\ MaxCalls \in Nat /\ k - 1 \in 0 .. MaxCalls /\ k \in 0 .. MaxCalls
      /\ after[k] = Admit(limit, after[k - 1], calls[k])
  BY HelpersAssumption DEF RunOf
<1>2. after[k - 1] \in Rated /\ after[k] \in Rated /\ calls[k] \in Call
  BY <1>1 DEF RunOf
<1> DEFINE last == after[k - 1]
           now == last.now + calls[k].after
           fresh == Expired(now - last.window)
           counter == [key \in Addresses |-> (IF fresh THEN 0 ELSE last.counter[key])
                                               + (IF key = calls[k].key THEN 1 ELSE 0)]
<1>3. /\ after[k].now = now /\ after[k].window = IF fresh THEN now ELSE last.window
      /\ after[k].counter = counter /\ after[k].allowed = (counter[calls[k].key] <= limit)
  <2>1. after[k] = [now |-> now, window |-> IF fresh THEN now ELSE last.window,
                    counter |-> counter, allowed |-> counter[calls[k].key] <= limit]
    BY <1>1 DEF Admit
  <2> HIDE DEF now, fresh, counter
  <2> QED
    BY <2>1
<1>4. now \in Nat /\ last.window \in Nat
  <2>1. last.now \in Nat /\ last.window \in Nat /\ calls[k].after \in Nat
    BY <1>2, HelpersAssumption DEF Rated, Call
  <2> QED
    BY <2>1
<1>5. fresh <=> now - last.window >= Minute
  BY DEF Expired
<1>6. \A x \in Addresses : counter[x] = (IF fresh THEN 0 ELSE last.counter[x])
                                          + (IF x = calls[k].key THEN 1 ELSE 0)
  OBVIOUS
<1>7. Minute \in Nat
  BY HelpersAssumption
<1> HIDE DEF counter, fresh
<1>8. after[k].allowed <=> after[k].counter[calls[k].key] <= limit
  BY <1>3
<1>9. \A x \in Addresses : after[k].counter[x] = (IF fresh THEN 0 ELSE last.counter[x])
                                                   + (IF x = calls[k].key THEN 1 ELSE 0)
  BY <1>3, <1>6
<1>10. CASE fresh
  BY <1>1, <1>2, <1>3, <1>5, <1>8, <1>9, <1>10
<1>11. CASE ~fresh
  <2>1. after[k].now - after[k - 1].window < Minute
    BY <1>3, <1>4, <1>5, <1>7, <1>11
  <2> QED
    BY <1>1, <1>2, <1>3, <1>8, <1>9, <1>11, <2>1
<1> QED
  BY <1>10, <1>11

\* The clock stands less than a minute after the start of the window, and
\* windows begin at least a minute after each other.
Windowed(after, k) ==
  /\ after[k].window <= after[k].now /\ after[k].now < after[k].window + Minute
  /\ \A j \in 0 .. k :
       /\ after[j].now <= after[k].now
       /\ after[j].window = after[k].window \/ after[j].window + Minute <= after[k].window

LEMMA Windows ==
  ASSUME NEW limit, NEW calls, NEW after, RunOf(limit, calls, after)
  PROVE  \A k \in 0 .. MaxCalls : Windowed(after, k)
<1> DEFINE n == MaxCalls
           G == {k \in 0 .. n : Windowed(after, k)}
<1>0. n \in Nat /\ Minute \in Nat \ {0}
  BY HelpersAssumption
<1>1. \A k \in 0 .. n : after[k].now \in Nat /\ after[k].window \in Nat
  BY DEF RunOf, Rated
<1>2. 0 \in G
  <2>1. after[0].now = 0 /\ after[0].window = 0
    BY DEF RunOf, Opened
  <2> QED
    BY <1>0, <2>1 DEF Windowed
<1>3. ASSUME NEW k \in 0 .. n - 1, k \in G PROVE k + 1 \in G
  <2>0. k + 1 \in 1 .. n /\ k + 1 \in 0 .. n /\ (k + 1) - 1 = k /\ k \in 0 .. n
    BY <1>0
  <2>1. /\ after[k + 1].now = after[k].now + calls[k + 1].after
        /\ calls[k + 1] \in Call
        /\ \/ /\ after[k + 1].now - after[k].window >= Minute
              /\ after[k + 1].window = after[k + 1].now
           \/ /\ after[k + 1].now - after[k].window < Minute
              /\ after[k + 1].window = after[k].window
    BY <2>0, OneAdmission
  <2>2. calls[k + 1].after \in Nat
    BY <2>1, HelpersAssumption DEF Call
  <2>3. Windowed(after, k)
    BY <1>3
  <2>4. /\ after[k].window \in Nat /\ after[k + 1].window \in Nat
        /\ after[k].now \in Nat /\ after[k + 1].now \in Nat
    BY <1>1, <2>0
  <2>5. /\ after[k + 1].window <= after[k + 1].now
        /\ after[k + 1].now < after[k + 1].window + Minute
    BY <1>0, <2>1, <2>2, <2>3, <2>4 DEF Windowed
  <2>6. ASSUME NEW j \in 0 .. k + 1
        PROVE  /\ after[j].now <= after[k + 1].now
               /\ \/ after[j].window = after[k + 1].window
                  \/ after[j].window + Minute <= after[k + 1].window
    <3>1. CASE j = k + 1
      BY <2>4, <3>1
    <3>2. CASE j # k + 1
      <4>1. j \in 0 .. k /\ j \in 0 .. n
        BY <1>0, <3>2
      <4>2. after[j].now \in Nat /\ after[j].window \in Nat
        BY <1>1, <4>1
      <4>3. /\ after[j].now <= after[k].now
            /\ after[j].window = after[k].window \/ after[j].window + Minute <= after[k].window
        BY <2>3, <4>1 DEF Windowed
      <4> QED
        BY <1>0, <2>1, <2>2, <2>4, <4>2, <4>3
    <3> QED
      BY <3>1, <3>2
  <2> QED
    BY <2>0, <2>5, <2>6 DEF Windowed
<1>4. G = 0 .. n
  <2> HIDE DEF G, n
  <2>1. G \in SUBSET (0 .. n)
    BY DEF G
  <2> QED
    BY <1>0, <1>2, <1>3, <2>1, UpwardInduction
<1> QED
  BY <1>4
\* The calls of address x in the window of call k, up to that call.
InWindow(calls, after, k, x) ==
  {j \in 1 .. k : calls[j].key = x /\ after[j].window = after[k].window}

LEMMA FinitelyMany ==
  ASSUME NEW k \in Nat, NEW S \in SUBSET (1 .. k)
  PROVE  IsFiniteSet(S) /\ Cardinality(S) \in Nat
<1>1. IsFiniteSet(1 .. k)
  BY FS_Interval
<1>2. IsFiniteSet(S)
  BY <1>1, FS_Subset
<1> QED
  BY <1>2, FS_CardinalityType

\* The counter of an address counts its calls in the window.
LEMMA Counts ==
  ASSUME NEW limit, NEW calls, NEW after, RunOf(limit, calls, after)
  PROVE  \A k \in 0 .. MaxCalls, x \in Addresses :
           after[k].counter[x] = Cardinality(InWindow(calls, after, k, x))
<1> DEFINE n == MaxCalls
           In(k, x) == InWindow(calls, after, k, x)
           G == {k \in 0 .. n : \A x \in Addresses : after[k].counter[x] = Cardinality(In(k, x))}
<1>0. n \in Nat /\ Minute \in Nat \ {0}
  BY HelpersAssumption
<1>1. \A k \in 0 .. n : after[k].now \in Nat /\ after[k].window \in Nat
  BY DEF RunOf, Rated
<1>2. 0 \in G
  <2>1. ASSUME NEW x \in Addresses PROVE after[0].counter[x] = 0
    BY DEF RunOf, Opened
  <2>2. \A x \in Addresses : In(0, x) = {}
    BY DEF InWindow
  <2> HIDE DEF In
  <2> QED
    BY <1>0, <2>1, <2>2, FS_EmptySet
<1>3. ASSUME NEW k \in 0 .. n - 1, k \in G PROVE k + 1 \in G
  <2>0. k + 1 \in 1 .. n /\ k + 1 \in 0 .. n /\ (k + 1) - 1 = k /\ k \in 0 .. n /\ k \in Nat
    BY <1>0
  <2> SUFFICES ASSUME NEW x \in Addresses
               PROVE  after[k + 1].counter[x] = Cardinality(In(k + 1, x))
    BY <2>0
  <2>1. \/ /\ after[k + 1].now - after[k].window >= Minute
           /\ after[k + 1].window = after[k + 1].now
           /\ after[k + 1].counter[x] = IF x = calls[k + 1].key THEN 1 ELSE 0
        \/ /\ after[k + 1].window = after[k].window
           /\ after[k + 1].counter[x] = after[k].counter[x]
                                          + (IF x = calls[k + 1].key THEN 1 ELSE 0)
    BY <2>0, OneAdmission
  <2>2. after[k].counter[x] = Cardinality(In(k, x))
    BY <1>3
  <2>3. IsFiniteSet(In(k, x)) /\ Cardinality(In(k, x)) \in Nat
    BY <2>0, FinitelyMany DEF InWindow
  <2>4. CASE /\ after[k + 1].now - after[k].window >= Minute
             /\ after[k + 1].window = after[k + 1].now
             /\ after[k + 1].counter[x] = IF x = calls[k + 1].key THEN 1 ELSE 0
    <3>1. ASSUME NEW j \in 1 .. k PROVE after[j].window # after[k + 1].window
      <4>1. j \in 0 .. k /\ j \in 0 .. n
        BY <1>0, <2>0
      <4>2. after[j].window = after[k].window \/ after[j].window + Minute <= after[k].window
        BY <2>0, <4>1, Windows DEF Windowed
      <4>3. after[j].window \in Nat /\ after[k].window \in Nat /\ after[k + 1].now \in Nat
        BY <1>1, <2>0, <4>1
      <4> QED
        BY <1>0, <2>4, <4>2, <4>3
    <3>2. In(k + 1, x) = IF x = calls[k + 1].key THEN {k + 1} ELSE {}
      BY <2>0, <3>1 DEF InWindow
    <3> HIDE DEF In
    <3> QED
      BY <2>4, <3>2, FS_EmptySet, FS_Singleton
  <2>5. CASE /\ after[k + 1].window = after[k].window
             /\ after[k + 1].counter[x] = after[k].counter[x]
                                            + (IF x = calls[k + 1].key THEN 1 ELSE 0)
    <3>1. In(k + 1, x) = IF x = calls[k + 1].key THEN In(k, x) \cup {k + 1} ELSE In(k, x)
      BY <2>0, <2>5 DEF InWindow
    <3>2. k + 1 \notin In(k, x)
      BY <2>0 DEF InWindow
    <3> HIDE DEF In
    <3>3. Cardinality(In(k, x) \cup {k + 1}) = Cardinality(In(k, x)) + 1
      BY <2>3, <3>2, FS_AddElement
    <3> QED
      BY <2>2, <2>3, <2>5, <3>1, <3>3
  <2> QED
    BY <2>1, <2>4, <2>5
<1>4. G = 0 .. n
  <2> HIDE DEF G, n
  <2>1. G \in SUBSET (0 .. n)
    BY DEF G
  <2> QED
    BY <1>0, <1>2, <1>3, <2>1, UpwardInduction
<1> QED
  BY <1>4

\* In one window an address is let in no more often than the limit.
LEMMA WindowLimit ==
  ASSUME NEW limit, NEW calls, NEW after, RunOf(limit, calls, after),
         NEW k \in 1 .. MaxCalls, NEW window, NEW x \in Addresses,
         NEW S, \A j \in S : /\ j \in 1 .. k /\ calls[j].key = x
                              /\ after[j].window = window /\ after[j].allowed
  PROVE  IsFiniteSet(S) /\ Cardinality(S) \in 0 .. limit
<1>0. MaxCalls \in Nat /\ limit \in Nat /\ k \in Nat /\ S \in SUBSET (1 .. k)
  BY HelpersAssumption DEF RunOf
<1>1. IsFiniteSet(S) /\ Cardinality(S) \in Nat
  BY <1>0, FinitelyMany
<1>2. CASE S = {}
  BY <1>0, <1>1, <1>2, FS_EmptySet
<1>3. CASE S # {}
  <2>1. PICK m \in S : \A j \in S : j <= m
    <3> DEFINE T == {k - j : j \in S}
    <3>1. T \in SUBSET Nat /\ T # {}
      <4>1. \A j \in S : k - j \in Nat
        BY <1>0
      <4> QED
        BY <1>3, <4>1
    <3>2. PICK t \in T : \A u \in T : t <= u
      <4> HIDE DEF T
      <4> QED
        BY <3>1, LeastElement
    <3>3. PICK m \in S : t = k - m
      BY <3>2
    <3>4. ASSUME NEW j \in S PROVE j <= m
      <4>1. k - m <= k - j
        BY <3>2, <3>3
      <4>2. j \in Nat /\ m \in Nat
        BY <1>0
      <4> QED
        BY <1>0, <4>1, <4>2
    <3> QED
      BY <3>4
  <2>2. m \in 1 .. MaxCalls /\ m \in 0 .. MaxCalls /\ m \in Nat
    BY <1>0
  <2>3. calls[m].key = x /\ after[m].allowed /\ after[m].window = window
    OBVIOUS
  <2>4. after[m].counter[x] <= limit
    BY <2>2, <2>3, OneAdmission
  <2>5. after[m].counter[x] = Cardinality(InWindow(calls, after, m, x))
    BY <2>2, Counts
  <2>6. S \subseteq InWindow(calls, after, m, x)
    BY <1>0, <2>1, <2>2, <2>3 DEF InWindow
  <2>7. IsFiniteSet(InWindow(calls, after, m, x)) /\ Cardinality(InWindow(calls, after, m, x)) \in Nat
    BY <2>2, FinitelyMany DEF InWindow
  <2>8. Cardinality(S) <= Cardinality(InWindow(calls, after, m, x))
    BY <2>6, <2>7, FS_Subset
  <2> QED
    BY <1>0, <1>1, <2>4, <2>5, <2>7, <2>8
<1> QED
  BY <1>2, <1>3
\* The calls of the minute up to call k that come from the same address.
RecentCalls(calls, after, k) ==
  {j \in 1 .. MaxCalls : /\ j <= k /\ calls[j].key = calls[k].key
                         /\ after[k].now - after[j].now < Minute}

\* A minute meets two windows at most, and each lets the limit in.
LEMMA TwiceTheLimit ==
  ASSUME NEW limit, NEW calls, NEW after, RunOf(limit, calls, after),
         NEW k \in 1 .. MaxCalls
  PROVE  Cardinality({j \in RecentCalls(calls, after, k) : after[j].allowed}) <= 2 * limit
<1> DEFINE x == calls[k].key
           In == {j \in RecentCalls(calls, after, k) : after[j].allowed}
           Now == {j \in In : after[j].window = after[k].window}
           Before == In \ Now
<1>0. /\ MaxCalls \in Nat /\ limit \in Nat /\ k \in Nat /\ Minute \in Nat \ {0}
      /\ k \in 0 .. MaxCalls /\ x \in Addresses
  BY HelpersAssumption DEF RunOf, Call
<1>1. \A j \in In : /\ j \in 1 .. k /\ j \in 0 .. MaxCalls /\ j \in 0 .. k
                    /\ calls[j].key = x /\ after[j].allowed
                    /\ after[k].now - after[j].now < Minute
                    /\ after[j].now \in Nat /\ after[j].window \in Nat
  BY <1>0 DEF RecentCalls, RunOf, Rated
<1>2. after[k].now \in Nat /\ after[k].window \in Nat
  BY <1>0 DEF RunOf, Rated
<1>3. ASSUME NEW i \in Before, NEW j \in Before, i <= j
      PROVE  after[i].window = after[j].window
  <2>0. i \in In /\ j \in In /\ i \in 0 .. j
    BY <1>1, <1>3
  <2>1. after[i].window = after[j].window \/ after[i].window + Minute <= after[j].window
    BY <1>1, <2>0, Windows DEF Windowed
  <2>2. after[j].window + Minute <= after[k].window
    BY <1>0, <1>1, <2>0, Windows DEF Windowed
  <2>3. after[k].window <= after[k].now /\ after[i].now < after[i].window + Minute
    BY <1>0, <1>1, <2>0, Windows DEF Windowed
  <2>4. after[k].now - after[i].now < Minute
    BY <1>1, <2>0
  <2>5. /\ after[i].now \in Nat /\ after[i].window \in Nat /\ after[j].window \in Nat
        /\ Minute \in Nat
    BY <1>0, <1>1, <2>0
  <2> QED
    BY <1>2, <2>1, <2>2, <2>3, <2>4, <2>5
<1>4. IsFiniteSet(Now) /\ Cardinality(Now) \in 0 .. limit
  <2>1. \A j \in Now : /\ j \in 1 .. k /\ calls[j].key = x
                        /\ after[j].window = after[k].window /\ after[j].allowed
    BY <1>1
  <2> HIDE DEF Now, x
  <2> QED
    BY <1>0, <2>1, WindowLimit
<1>5. IsFiniteSet(Before) /\ Cardinality(Before) \in 0 .. limit
  <2>1. CASE Before = {}
    <3> HIDE DEF Before
    <3> QED
      BY <1>0, <2>1, FS_EmptySet
  <2>2. CASE Before # {}
    <3>1. PICK b \in Before : TRUE
      BY <2>2
    <3>2. ASSUME NEW j \in Before PROVE after[j].window = after[b].window
      <4>1. j <= b \/ b <= j
        BY <1>1
      <4> HIDE DEF Before
      <4> QED
        BY <1>3, <4>1
    <3>3. \A j \in Before : /\ j \in 1 .. k /\ calls[j].key = x
                             /\ after[j].window = after[b].window /\ after[j].allowed
      BY <1>1, <3>2
    <3> HIDE DEF Before, x
    <3> QED
      BY <1>0, <3>3, WindowLimit
  <2> QED
    BY <2>1, <2>2
<1>6. In = Now \cup Before /\ Now \cap Before = {}
  OBVIOUS
<1> HIDE DEF In, Now, Before
<1>7. Cardinality(In) = Cardinality(Now) + Cardinality(Before)
  <2>1. Cardinality(In) = Cardinality(Now) + Cardinality(Before) - Cardinality(Now \cap Before)
    BY <1>4, <1>5, <1>6, FS_Union
  <2>2. Cardinality(Now \cap Before) = 0
    BY <1>6, FS_EmptySet
  <2> QED
    BY <1>0, <1>4, <1>5, <2>1, <2>2
<1>8. Cardinality(In) <= 2 * limit
  BY <1>0, <1>4, <1>5, <1>7
<1> QED
  BY <1>8 DEF In

\* The calls of the window are of the last minute.
LEMMA ModestLetIn ==
  ASSUME NEW limit, NEW calls, NEW after, RunOf(limit, calls, after),
         NEW k \in 1 .. MaxCalls, Cardinality(RecentCalls(calls, after, k)) <= limit
  PROVE  after[k].allowed
<1> DEFINE x == calls[k].key
           R == RecentCalls(calls, after, k)
           W == InWindow(calls, after, k, x)
<1>0. /\ MaxCalls \in Nat /\ limit \in Nat /\ k \in Nat /\ Minute \in Nat
      /\ k \in 0 .. MaxCalls /\ x \in Addresses
  BY HelpersAssumption DEF RunOf, Call
<1>1. ASSUME NEW j \in W PROVE j \in R
  <2>1. /\ j \in 1 .. k /\ j \in 1 .. MaxCalls /\ j \in 0 .. MaxCalls
        /\ calls[j].key = x /\ after[j].window = after[k].window
    BY <1>0 DEF InWindow
  <2>2. after[j].window <= after[j].now /\ after[k].now < after[k].window + Minute
    BY <1>0, <2>1, Windows DEF Windowed
  <2>3. /\ after[j].now \in Nat /\ after[k].now \in Nat
        /\ after[j].window \in Nat /\ after[k].window \in Nat
    BY <1>0, <2>1 DEF RunOf, Rated
  <2>4. after[k].now - after[j].now < Minute
    BY <1>0, <2>1, <2>2, <2>3
  <2> QED
    BY <2>1, <2>4 DEF RecentCalls
<1>2. IsFiniteSet(R) /\ Cardinality(R) \in Nat
  <2>1. R \in SUBSET (1 .. MaxCalls)
    BY DEF RecentCalls
  <2> HIDE DEF R
  <2> QED
    BY <1>0, <2>1, FinitelyMany
<1>3. IsFiniteSet(W) /\ Cardinality(W) \in Nat
  BY <1>0, FinitelyMany DEF InWindow
<1>4. Cardinality(W) <= Cardinality(R)
  <2>1. W \in SUBSET R
    BY <1>1
  <2> HIDE DEF W, R
  <2> QED
    BY <1>2, <2>1, FS_Subset
<1>5. after[k].counter[x] = Cardinality(W)
  BY <1>0, Counts
<1>6. after[k].counter[calls[k].key] <= limit
  BY <1>0, <1>2, <1>3, <1>4, <1>5
<1> QED
  BY <1>6, OneAdmission

\* Both bounds of the rate limit, for any number of calls at any moments from
\* any number of addresses, and any limit.
THEOREM AnyRateBounded == HelpersSpec => []RateBound
<1>1. HelpersInit => RateBound
  <2> SUFFICES ASSUME HelpersInit, input.kind = "rate" PROVE RateBound
    BY DEF RateBound
  <2> DEFINE calls == input.calls
             after == AllowRate(input)
  <2>1. input \in Rates
    BY DEF HelpersInit, Texts, Seeds, Feeds, Rates
  <2>2. input.limit \in Nat /\ calls \in [1 .. MaxCalls -> Call]
    BY <2>1, HelpersAssumption DEF Rates, Calls, Call
  <2>3. RunOf(input.limit, calls, after)
    BY <2>2, RateUnfold
  <2> HIDE DEF after
  <2>4. ASSUME NEW k \in 1 .. MaxCalls
        PROVE  /\ Cardinality({j \in RecentCalls(calls, after, k) : after[j].allowed})
                    <= 2 * input.limit
               /\ Cardinality(RecentCalls(calls, after, k)) <= input.limit => after[k].allowed
    BY <2>3, TwiceTheLimit, ModestLetIn
  <2> QED
    BY <2>4 DEF RateBound, RecentCalls, after
<1>2. RateBound /\ [HelpersNext]_input => RateBound'
  BY DEF RateBound, HelpersNext
<1> QED
  BY <1>1, <1>2, PTL DEF HelpersSpec-----------------------------------------------------------------------------
(***************************************************************************)
(* The spelling of a feed                                                  *)
(***************************************************************************)
Tokens == STRING \cup {Blank, "/", "http:", "https:"}

Urls == Seq(Tokens)

LEMMA MinIs ==
  ASSUME NEW T \in SUBSET Int, NEW m \in T, \A n \in T : m <= n
  PROVE  Min(T) = m
<1>1. Min(T) \in T /\ \A n \in T : Min(T) <= n
  BY DEF Min
<1>2. m <= Min(T) /\ Min(T) <= m
  BY <1>1
<1>3. Min(T) \in Int /\ m \in Int
  BY <1>1
<1> HIDE DEF Min
<1> QED
  BY <1>2, <1>3

LEMMA MaxIs ==
  ASSUME NEW T \in SUBSET Int, NEW m \in T, \A n \in T : m >= n
  PROVE  Max(T) = m
<1>1. Max(T) \in T /\ \A n \in T : Max(T) >= n
  BY DEF Max
<1>2. m >= Max(T) /\ Max(T) >= m
  BY <1>1
<1>3. Max(T) \in Int /\ m \in Int
  BY <1>1
<1> HIDE DEF Max
<1> QED
  BY <1>2, <1>3

\* At most one token.
LEMMA AtMostOne ==
  ASSUME NEW token \in Tokens, NEW url, url = << >> \/ url = <<token>>
  PROVE  /\ url \in Urls /\ Len(url) \in {0, 1}
         /\ \A i \in 1 .. Len(url) : i = 1 /\ url[i] = token
<1>1. CASE url = << >>
  BY <1>1 DEF Urls
<1>2. CASE url = <<token>>
  <2>1. Len(url) = 1 /\ url[1] = token /\ url \in Urls
    BY <1>2 DEF Urls
  <2> QED
    BY <2>1
<1> QED
  BY <1>1, <1>2

\* The two sets of such texts that a spelling is made of.
LEMMA BlankOrNot ==
  ASSUME NEW url \in Fronts
  PROVE  /\ url \in Urls /\ Len(url) \in {0, 1}
         /\ \A i \in 1 .. Len(url) : i = 1 /\ url[i] = Blank
<1>1. Blank \in Tokens /\ (url = << >> \/ url = <<Blank>>)
  BY DEF Tokens, Fronts
<1> QED
  BY <1>1, AtMostOne, Zenon

SlashOrNot == {<< >>, <<"/">>}

LEMMA SlashOrNotIs ==
  ASSUME NEW url \in SlashOrNot
  PROVE  /\ url \in Urls /\ Len(url) \in {0, 1}
         /\ \A i \in 1 .. Len(url) : i = 1 /\ url[i] = "/"
<1>1. "/" \in Tokens /\ (url = << >> \/ url = <<"/">>)
  BY DEF Tokens, SlashOrNot
<1> QED
  BY <1>1, AtMostOne, Zenon

\* The two ends of a concatenation.
LEMMA FirstPart ==
  ASSUME NEW s \in Urls, NEW t \in Urls, s # << >>
  PROVE  SubSeq(s \o t, 1, Len(s)) = s
<1>1. Len(s) \in Nat \ {0}
  BY EmptySeq DEF Urls
<1>2. SubSeq(s \o t, 1, Len(s)) = SubSeq(s, 1, Len(s))
  BY <1>1, SubSeqOfConcat1 DEF Urls
<1> QED
  BY <1>2, SubSeqFull DEF Urls

LEMMA SecondPart ==
  ASSUME NEW s \in Urls, NEW t \in Urls, t # << >>
  PROVE  SubSeq(s \o t, Len(s) + 1, Len(s) + Len(t)) = t
<1>1. Len(s) \in Nat /\ Len(t) \in Nat \ {0}
  BY EmptySeq, LenProperties DEF Urls
<1>2. SubSeq(s \o t, Len(s) + 1, Len(s) + Len(t)) =
        SubSeq(t, Len(s) + 1 - Len(s), Len(s) + Len(t) - Len(s))
  BY <1>1, SubSeqOfConcat2 DEF Urls
<1>3. Len(s) + 1 - Len(s) = 1 /\ Len(s) + Len(t) - Len(s) = Len(t)
  BY <1>1
<1> QED
  BY <1>2, <1>3, SubSeqFull DEF Urls

\* Trimming takes the blanks around an address and nothing else.
LEMMA BlanksTrimmed ==
  ASSUME NEW blank \in Fronts, NEW end \in Fronts,
         NEW core \in Urls, core # << >>, core[1] # Blank, core[Len(core)] # Blank
  PROVE  TrimBlanks(blank \o core \o end) = core
<1> DEFINE front == blank \o core
           url == front \o end
           kept == {i \in DOMAIN url : url[i] # Blank}
           b == Len(blank)
           c == Len(core)
<1>1. /\ blank \in Urls /\ end \in Urls /\ b \in {0, 1} /\ Len(end) \in {0, 1}
      /\ \A i \in 1 .. b : blank[i] = Blank
      /\ \A i \in 1 .. Len(end) : end[i] = Blank
  BY BlankOrNot
<1>2. c \in Nat \ {0}
  BY EmptySeq DEF Urls
<1>3. /\ front \in Urls /\ Len(front) = b + c
      /\ \A i \in 1 .. b + c : front[i] = IF i <= b THEN blank[i] ELSE core[i - b]
  BY <1>1, ConcatProperties DEF Urls
<1>4. /\ url \in Urls /\ Len(url) = b + c + Len(end)
      /\ \A i \in 1 .. b + c + Len(end) :
           url[i] = IF i <= b + c THEN front[i] ELSE end[i - (b + c)]
  <2>1. /\ url \in Urls /\ Len(url) = Len(front) + Len(end)
        /\ \A i \in 1 .. Len(front) + Len(end) :
             url[i] = IF i <= Len(front) THEN front[i] ELSE end[i - Len(front)]
    <3>1. front \in Urls /\ end \in Urls
      BY <1>1, <1>3
    <3> HIDE DEF front
    <3> QED
      BY <3>1, ConcatProperties DEF Urls
  <2> HIDE DEF front, url
  <2> QED
    BY <1>3, <2>1
<1>5. DOMAIN url = 1 .. b + c + Len(end)
  <2> HIDE DEF url
  <2> QED
    BY <1>4, LenProperties DEF Urls
<1> HIDE DEF url, front, b, c
<1>6. url[b + 1] # Blank /\ url[b + c] # Blank /\ b + 1 \in DOMAIN url /\ b + c \in DOMAIN url
  <2>1. /\ b + 1 \in 1 .. b + c /\ b + c \in 1 .. b + c
        /\ b + 1 \in 1 .. b + c + Len(end) /\ b + c \in 1 .. b + c + Len(end)
        /\ ~(b + 1 <= b) /\ ~(b + c <= b) /\ (b + 1) - b = 1 /\ (b + c) - b = c
    BY <1>1, <1>2
  <2>2. url[b + 1] = core[1] /\ url[b + c] = core[c]
    BY <1>3, <1>4, <2>1
  <2> QED
    BY <1>5, <2>1, <2>2 DEF c
<1>7. ASSUME NEW i \in kept PROVE b + 1 <= i /\ i <= b + c
  <2>1. i \in 1 .. b + c + Len(end) /\ url[i] # Blank
    BY <1>5, <1>7
  <2>2. CASE i <= b
    <3>1. i \in 1 .. b /\ i \in 1 .. b + c
      BY <1>1, <1>2, <2>1, <2>2
    <3>2. url[i] = Blank
      BY <1>1, <1>3, <1>4, <2>1, <2>2, <3>1
    <3> QED
      BY <2>1, <3>2
  <2>3. CASE i > b + c
    <3>1. i - (b + c) \in 1 .. Len(end) /\ ~(i <= b + c)
      BY <1>1, <1>2, <2>1, <2>3
    <3>2. url[i] = Blank
      BY <1>1, <1>4, <2>1, <3>1
    <3> QED
      BY <2>1, <3>2
  <2> QED
    BY <1>1, <1>2, <2>1, <2>2, <2>3
<1>8. kept \in SUBSET Int /\ b + 1 \in kept /\ b + c \in kept
  BY <1>1, <1>2, <1>5, <1>6
<1> HIDE DEF kept
<1>9. Min(kept) = b + 1 /\ Max(kept) = b + c /\ kept # {}
  <2>1. \A i \in kept : b + 1 <= i /\ b + c >= i
    BY <1>1, <1>2, <1>7, <1>8
  <2> QED
    BY <1>8, <2>1, MinIs, MaxIs
<1>10. SubSeq(url, b + 1, b + c) = core
  <2>1. SubSeq(url, b + 1, b + c) = SubSeq(front, b + 1, b + c)
    <3>1. b + 1 \in 1 .. Len(front) /\ b + c \in 1 .. Len(front)
      BY <1>1, <1>2, <1>3
    <3>2. front \in Urls /\ end \in Urls
      BY <1>1, <1>3
    <3> QED
      BY <3>1, <3>2, SubSeqOfConcat1 DEF url, Urls
  <2>2. SubSeq(front, b + 1, b + c) = core
    <3>1. blank \in Urls /\ core \in Urls /\ core # << >>
      BY <1>1
    <3> QED
      BY <3>1, SecondPart DEF front, b, c
  <2> QED
    BY <2>1, <2>2
<1> QED
  BY <1>9, <1>10 DEF TrimBlanks, url, front, kept

LEMMA PrefixTrimmed ==
  ASSUME NEW prefix \in Urls, NEW rest \in Urls, prefix # << >>, rest # << >>
  PROVE  /\ IsPrefix(prefix, prefix \o rest)
         /\ TrimPrefix(prefix \o rest, prefix) = rest
<1>1. /\ Len(prefix \o rest) = Len(prefix) + Len(rest)
      /\ Len(prefix) \in Nat /\ Len(rest) \in Nat
  BY ConcatProperties, LenProperties DEF Urls
<1>2. IsPrefix(prefix, prefix \o rest)
  <2>1. SubSeq(prefix, 1, Len(prefix)) = SubSeq(prefix \o rest, 1, Len(prefix))
    BY FirstPart, SubSeqFull DEF Urls
  <2>2. Len(prefix) <= Len(prefix \o rest)
    BY <1>1
  <2> QED
    BY <2>1, <2>2 DEF IsPrefix
<1> QED
  BY <1>1, <1>2, SecondPart DEF TrimPrefix

LEMMA PrefixKept ==
  ASSUME NEW prefix \in Urls, NEW url \in Urls, prefix # << >>, url # << >>,
         url[1] # prefix[1]
  PROVE  ~IsPrefix(prefix, url) /\ TrimPrefix(url, prefix) = url
<1>1. Len(prefix) \in Nat \ {0} /\ Len(url) \in Nat \ {0}
  BY EmptySeq DEF Urls
<1>2. ASSUME IsPrefix(prefix, url) PROVE FALSE
  <2>1. Len(prefix) <= Len(url)
    BY <1>2 DEF IsPrefix
  <2>2. SubSeq(prefix, 1, Len(prefix))[1] = prefix[1] /\ SubSeq(url, 1, Len(prefix))[1] = url[1]
    <3>1. /\ \A i \in 1 .. Len(prefix) : prefix[i] \in Tokens /\ url[i] \in Tokens
          /\ 1 \in 1 .. Len(prefix) - 1 + 1 /\ 1 + 1 - 1 = 1
      BY <1>1, <2>1, ElementOfSeq DEF Urls
    <3>2. /\ \A i \in 1 .. Len(prefix) - 1 + 1 : SubSeq(prefix, 1, Len(prefix))[i] = prefix[1 + i - 1]
          /\ \A i \in 1 .. Len(prefix) - 1 + 1 : SubSeq(url, 1, Len(prefix))[i] = url[1 + i - 1]
      BY <1>1, <3>1, SubSeqProperties
    <3> QED
      BY <3>1, <3>2
  <2> QED
    BY <1>2, <2>2 DEF IsPrefix
<1> QED
  BY <1>2 DEF TrimPrefix
\* The address without its scheme, as the two sides cut it.
SchemeCut(url) ==
  TrimPrefix(TrimPrefix(TrimPrefix(url, <<"https:", "/", "/">>), <<"http:", "/", "/">>),
             <<"/", "/">>)

Found(url) ==
  {s \in {<<"https:", "/", "/">>, <<"http:", "/", "/">>, <<"/", "/">>} : IsPrefix(s, url)}

SchemeCutInSQL(url) ==
  IF Found(url) = {} THEN url ELSE TrimPrefix(url, CHOOSE s \in Found(url) : TRUE)

SlashesCut(url) ==
  LET kept == {i \in DOMAIN url : url[i] # "/"} IN
    IF kept = {} THEN << >> ELSE SubSeq(url, 1, Max(kept))

LEMMA ThreeSchemes ==
  /\ <<"https:", "/", "/">> \in Urls /\ <<"https:", "/", "/">> # << >>
  /\ <<"http:", "/", "/">> \in Urls /\ <<"http:", "/", "/">> # << >>
  /\ <<"/", "/">> \in Urls /\ <<"/", "/">> # << >>
  /\ <<"https:", "/", "/">>[1] = "https:" /\ <<"http:", "/", "/">>[1] = "http:"
  /\ <<"/", "/">>[1] = "/"
BY DEF Urls, Tokens

LEMMA FirstToken ==
  ASSUME NEW scheme \in Urls, NEW body \in Urls, scheme # << >>
  PROVE  scheme \o body \in Urls /\ scheme \o body # << >> /\ (scheme \o body)[1] = scheme[1]
<1>1. Len(scheme) \in Nat \ {0} /\ Len(body) \in Nat
  BY EmptySeq, LenProperties DEF Urls
<1>2. 1 \in 1 .. Len(scheme) + Len(body) /\ 1 <= Len(scheme)
  BY <1>1
<1>3. scheme \o body \in Urls /\ (scheme \o body)[1] = scheme[1]
  BY <1>2, ConcatProperties DEF Urls
<1>4. scheme \o body # << >>
  BY ConcatEqualIffEmpty, ConcatSimplifications DEF Urls
<1> QED
  BY <1>3, <1>4

\* Whatever the scheme, both sides cut it and leave the rest.
LEMMA SchemesCut ==
  ASSUME NEW body \in Urls, body # << >>, body[1] \notin {"/", "http:", "https:"},
         NEW scheme \in {<< >>, <<"/", "/">>, <<"http:", "/", "/">>, <<"https:", "/", "/">>}
  PROVE  SchemeCut(scheme \o body) = body /\ SchemeCutInSQL(scheme \o body) = body
<1> DEFINE https == <<"https:", "/", "/">>
           http == <<"http:", "/", "/">>
           any == <<"/", "/">>
           url == scheme \o body
<1>1. /\ https \in Urls /\ https # << >> /\ https[1] = "https:"
      /\ http \in Urls /\ http # << >> /\ http[1] = "http:"
      /\ any \in Urls /\ any # << >> /\ any[1] = "/"
  BY ThreeSchemes
<1>2. /\ "/" # "http:" /\ "/" # "https:" /\ "http:" # "https:"
      /\ https # http /\ https # any /\ http # any
  BY <1>1
<1>3. scheme \in {<< >>, any, http, https}
  OBVIOUS
<1>4. /\ SchemeCut(url) = TrimPrefix(TrimPrefix(TrimPrefix(url, https), http), any)
      /\ Found(url) = {s \in {https, http, any} : IsPrefix(s, url)}
  BY DEF SchemeCut, Found
<1> HIDE DEF https, http, any
<1>5. /\ ~IsPrefix(https, body) /\ TrimPrefix(body, https) = body
      /\ ~IsPrefix(http, body) /\ TrimPrefix(body, http) = body
      /\ ~IsPrefix(any, body) /\ TrimPrefix(body, any) = body
  BY <1>1, PrefixKept
<1>6. CASE scheme = << >>
  <2>1. url = body
    BY <1>6, ConcatEmptySeq DEF Urls
  <2>2. Found(url) = {}
    BY <1>4, <1>5, <2>1
  <2> HIDE DEF url
  <2> QED
    BY <1>4, <1>5, <2>1, <2>2 DEF SchemeCutInSQL, url
<1>7. ASSUME scheme \in {any, http, https}
      PROVE  /\ url \in Urls /\ url # << >> /\ url[1] = scheme[1]
             /\ IsPrefix(scheme, url) /\ TrimPrefix(url, scheme) = body
             /\ \A s \in {https, http, any} :
                  s # scheme => ~IsPrefix(s, url) /\ TrimPrefix(url, s) = url
  <2>1. scheme \in Urls /\ scheme # << >>
    BY <1>1, <1>7
  <2>2. url \in Urls /\ url # << >> /\ url[1] = scheme[1]
    BY <2>1, FirstToken
  <2>3. IsPrefix(scheme, url) /\ TrimPrefix(url, scheme) = body
    BY <2>1, PrefixTrimmed
  <2> HIDE DEF url
  <2>4. ASSUME NEW s \in {https, http, any}, s # scheme
        PROVE  ~IsPrefix(s, url) /\ TrimPrefix(url, s) = url
    <3>1. s \in Urls /\ s # << >> /\ s[1] # url[1]
      BY <1>1, <1>2, <1>7, <2>2, <2>4
    <3> QED
      BY <2>2, <3>1, PrefixKept
  <2> QED
    BY <2>2, <2>3, <2>4
<1>8. CASE scheme \in {any, http, https}
  <2>1. Found(url) = {scheme}
    <3> HIDE DEF url
    <3> QED
      BY <1>4, <1>7, <1>8
  <2>2. SchemeCutInSQL(url) = body
    <3>1. (CHOOSE s \in Found(url) : TRUE) = scheme /\ Found(url) # {}
      BY <2>1
    <3> HIDE DEF url
    <3> QED
      BY <1>7, <1>8, <3>1 DEF SchemeCutInSQL
  <2>3. SchemeCut(url) = body
    <3> HIDE DEF url
    <3>1. CASE scheme = any
      <4>1. TrimPrefix(url, https) = url /\ TrimPrefix(url, http) = url /\ TrimPrefix(url, any) = body
        BY <1>2, <1>7, <3>1
      <4> QED
        BY <1>4, <4>1
    <3>2. CASE scheme = http
      <4>1. TrimPrefix(url, https) = url /\ TrimPrefix(url, http) = body
        BY <1>2, <1>7, <3>2
      <4> QED
        BY <1>4, <1>5, <4>1
    <3>3. CASE scheme = https
      <4>1. TrimPrefix(url, https) = body
        BY <1>7, <3>3
      <4> QED
        BY <1>4, <1>5, <4>1
    <3> QED
      BY <1>8, <3>1, <3>2, <3>3
  <2> QED
    BY <2>2, <2>3
<1> QED
  BY <1>3, <1>6, <1>8

\* A host and path with or without a slash: both sides cut it.
LEMMA SlashCut ==
  ASSUME NEW location \in Urls, location # << >>, location[Len(location)] # "/",
         NEW slash \in SlashOrNot
  PROVE  /\ TrimSuffix(location \o slash, "/") = location
         /\ SlashesCut(location \o slash) = location
<1> DEFINE body == location \o slash
           n == Len(location)
           kept == {i \in DOMAIN body : body[i] # "/"}
<1>1. n \in Nat \ {0}
  BY EmptySeq DEF Urls
<1>2. /\ slash \in Urls /\ Len(slash) \in {0, 1}
      /\ \A i \in 1 .. Len(slash) : i = 1 /\ slash[i] = "/"
  BY SlashOrNotIs
<1>3. /\ body \in Urls /\ Len(body) = n + Len(slash)
      /\ \A i \in 1 .. n + Len(slash) : body[i] = IF i <= n THEN location[i] ELSE slash[i - n]
  BY <1>2, ConcatProperties DEF Urls
<1>4. DOMAIN body = 1 .. n + Len(slash)
  <2> HIDE DEF body
  <2> QED
    BY <1>3, LenProperties DEF Urls
<1>5. SubSeq(body, 1, n) = location
  BY <1>2, FirstPart
<1>6. body # << >>
  <2> HIDE DEF body, n
  <2>1. Len(body) # 0
    BY <1>1, <1>2, <1>3
  <2> QED
    BY <2>1, EmptySeq
<1> HIDE DEF body
<1>7. n \in kept /\ \A i \in kept : n >= i
  <2> HIDE DEF n
  <2>1. n \in 1 .. n + Len(slash) /\ n <= n
    BY <1>1, <1>2
  <2>2. n \in kept
    BY <1>3, <1>4, <2>1 DEF n
  <2>3. ASSUME NEW i \in kept, i > n PROVE FALSE
    <3>1. i \in 1 .. n + Len(slash) /\ body[i] # "/"
      BY <1>4
    <3>2. i - n \in 1 .. Len(slash) /\ ~(i <= n)
      BY <1>1, <1>2, <2>3, <3>1
    <3> QED
      BY <1>2, <1>3, <3>1, <3>2
  <2>4. \A i \in kept : i \in Int
    BY <1>1, <1>2, <1>4
  <2> QED
    BY <1>1, <2>2, <2>3, <2>4
<1>8. SlashesCut(body) = location
  <2>1. kept \in SUBSET Int
    BY <1>1, <1>2, <1>4
  <2>2. Max(kept) = n /\ kept # {}
    <3> HIDE DEF kept, n
    <3> QED
      BY <1>7, <2>1, MaxIs
  <2> QED
    BY <1>5, <2>2 DEF SlashesCut
<1>9. TrimSuffix(body, "/") = location
  <2>1. CASE slash = << >>
    <3>1. body = location
      BY <2>1, ConcatEmptySeq DEF body, Urls
    <3> QED
      BY <3>1 DEF TrimSuffix, Last
  <2>2. CASE slash = <<"/">>
    <3>1. Len(slash) = 1 /\ slash[1] = "/"
      BY <2>2
    <3>2. n + 1 \in 1 .. n + Len(slash) /\ ~(n + 1 <= n) /\ (n + 1) - n = 1 /\ (n + 1) - 1 = n
      BY <1>1, <3>1
    <3>3. Len(body) = n + 1 /\ body[n + 1] = "/"
      BY <1>3, <3>1, <3>2
    <3>4. Last(body) = "/" /\ Front(body) = location
      BY <1>5, <3>2, <3>3 DEF Last, Front
    <3> QED
      BY <1>6, <3>4 DEF TrimSuffix
  <2> QED
    BY <2>1, <2>2 DEF SlashOrNot
<1> QED
  BY <1>8, <1>9 DEF body
LEMMA SidesAre ==
  ASSUME NEW url
  PROVE  /\ NormalizeFeedURLForMatch(url) = TrimSuffix(SchemeCut(TrimBlanks(url)), "/")
         /\ NormalizedInSQL(url) = SlashesCut(SchemeCutInSQL(TrimBlanks(url)))
BY DEF NormalizeFeedURLForMatch, NormalizedInSQL, SchemeCut, SlashesCut, SchemeCutInSQL, Found

\* The last token of a concatenation.
LEMMA LastToken ==
  ASSUME NEW front \in Urls, NEW end \in Urls, end # << >>
  PROVE  (front \o end)[Len(front \o end)] = end[Len(end)]
<1>1. Len(front) \in Nat /\ Len(end) \in Nat \ {0}
  BY EmptySeq, LenProperties DEF Urls
<1>2. /\ Len(front) + Len(end) \in 1 .. Len(front) + Len(end)
      /\ ~(Len(front) + Len(end) <= Len(front))
      /\ Len(front) + Len(end) - Len(front) = Len(end)
  BY <1>1
<1>3. /\ Len(front \o end) = Len(front) + Len(end)
      /\ \A i \in 1 .. Len(front) + Len(end) :
           (front \o end)[i] = IF i <= Len(front) THEN front[i] ELSE end[i - Len(front)]
  BY ConcatProperties DEF Urls
<1> QED
  BY <1>2, <1>3

Joined(a, b) == a \o b

LEMMA UrlsJoined ==
  \A a, b, c \in Urls :
    Joined(a, b) \in Urls /\ Joined(Joined(a, b), c) = Joined(a, Joined(b, c))
BY ConcatProperties, ConcatAssociative DEF Urls, Joined

\* Five parts grouped in two ways.
LEMMA Regrouped ==
  ASSUME NEW a \in Urls, NEW b \in Urls, NEW c \in Urls, NEW d \in Urls, NEW e \in Urls
  PROVE  Joined(Joined(Joined(a, b), c), Joined(d, e))
           = Joined(Joined(a, Joined(b, Joined(c, d))), e)
BY UrlsJoined

\* Both sides make the host and path of every spelling of it.
LEMMA SpellingsMeet ==
  ASSUME NEW blank \in Fronts, NEW scheme \in Schemes, NEW location \in Locations,
         NEW slash \in SlashOrNot, NEW end \in Fronts,
         NEW spelling, spelling = Joined(Joined(Joined(blank, scheme), location), Joined(slash, end))
  PROVE  NormalizeFeedURLForMatch(spelling) = location /\ NormalizedInSQL(spelling) = location
<1> DEFINE body == location \o slash
           core == scheme \o body
           url == blank \o core \o end
<1>1. /\ location \in Urls /\ location # << >>
      /\ location[1] \notin {Blank, "/", "http:", "https:"}
      /\ location[Len(location)] \notin {Blank, "/"}
  <2>1. location \in Seq(STRING) /\ STRING \subseteq Tokens
    BY HelpersAssumption DEF Tokens
  <2>2. location \in Urls
    BY <2>1, SeqMonotonic DEF Urls
  <2> QED
    BY <2>2, HelpersAssumption
<1>2. /\ slash \in Urls /\ blank \in Urls /\ end \in Urls
  BY BlankOrNot, SlashOrNotIs
<1>3. body \in Urls /\ body # << >> /\ body[1] = location[1]
  BY <1>1, <1>2, FirstToken
<1>4. body[Len(body)] # Blank
  <2>1. CASE slash = << >>
    <3>1. body = location
      BY <1>1, <2>1, ConcatEmptySeq DEF Urls
    <3> QED
      BY <1>1, <3>1
  <2>2. CASE slash = <<"/">>
    <3>1. slash # << >> /\ slash[Len(slash)] = "/" /\ "/" # Blank
      BY <2>2 DEF Blank
    <3> QED
      BY <1>1, <1>2, <3>1, LastToken
  <2> QED
    BY <2>1, <2>2 DEF SlashOrNot
<1>5. scheme \in Urls /\ (scheme # << >> => scheme[1] \in {"/", "http:", "https:"})
  <2>1. << >> \in Urls
    BY EmptySeq DEF Urls
  <2>2. CASE scheme = << >>
    BY <2>1, <2>2
  <2>3. CASE scheme = <<"/", "/">>
    BY <2>3, ThreeSchemes
  <2>4. CASE scheme = <<"http:", "/", "/">>
    BY <2>4, ThreeSchemes
  <2>5. CASE scheme = <<"https:", "/", "/">>
    BY <2>5, ThreeSchemes
  <2> QED
    BY <2>2, <2>3, <2>4, <2>5 DEF Schemes
<1> HIDE DEF body
<1>6. core \in Urls /\ core # << >> /\ core[1] # Blank /\ core[Len(core)] # Blank
  <2>1. CASE scheme = << >>
    <3>1. core = body
      BY <1>3, <2>1, ConcatEmptySeq DEF Urls
    <3> QED
      BY <1>1, <1>3, <1>4, <3>1
  <2>2. CASE scheme # << >>
    <3>1. core \in Urls /\ core # << >> /\ core[1] = scheme[1]
      BY <1>3, <1>5, <2>2, FirstToken
    <3>2. core[Len(core)] = body[Len(body)]
      BY <1>3, <1>5, LastToken
    <3>3. Blank \notin {"/", "http:", "https:"}
      BY DEF Blank
    <3> QED
      BY <1>4, <1>5, <2>2, <3>1, <3>2, <3>3
  <2> QED
    BY <2>1, <2>2
<1>7. spelling = url
  <2>1. spelling = Joined(Joined(blank, Joined(scheme, Joined(location, slash))), end)
    BY <1>1, <1>2, <1>5, Regrouped
  <2> QED
    BY <2>1, Zenon DEF Joined, core, body
<1> HIDE DEF core
<1>8. TrimBlanks(url) = core
  BY <1>6, BlanksTrimmed
<1>9. body[1] \notin {"/", "http:", "https:"}
  BY <1>1, <1>3
<1>10. SchemeCut(core) = body /\ SchemeCutInSQL(core) = body
  BY <1>3, <1>9, SchemesCut DEF core, Schemes
<1>11. TrimSuffix(body, "/") = location /\ SlashesCut(body) = location
  BY <1>1, SlashCut DEF body
<1> HIDE DEF url
<1>12. NormalizeFeedURLForMatch(url) = location /\ NormalizedInSQL(url) = location
  BY <1>8, <1>10, <1>11, SidesAre
<1> QED
  BY <1>7, <1>12

LEMMA SpellingsMeetSomewhere ==
  ASSUME NEW url \in Spellings
  PROVE  NormalizeFeedURLForMatch(url) = NormalizedInSQL(url)
<1>1. PICK blank \in Fronts, scheme \in Schemes, location \in Locations, tail \in Tails :
             url = blank \o scheme \o location \o tail
  BY DEF Spellings
<1>2. PICK slash \in SlashOrNot, end \in Fronts : tail = Joined(slash, end)
  <2>0. tail \in {<< >>, <<"/">>, <<Blank>>, <<"/", Blank>>}
    BY DEF Tails
  <2>1. << >> \in Urls /\ <<"/">> \in Urls /\ <<Blank>> \in Urls
    BY DEF Urls, Tokens
  <2>2. /\ << >> \o << >> = << >> /\ <<"/">> \o << >> = <<"/">>
        /\ << >> \o <<Blank>> = <<Blank>>
    BY <2>1, ConcatEmptySeq DEF Urls
  <2>3. <<"/">> \o <<Blank>> = <<"/", Blank>>
    <3>1. Len(<<"/">>) = 1 /\ <<"/">>[1] = "/" /\ Len(<<Blank>>) = 1 /\ <<Blank>>[1] = Blank
      OBVIOUS
    <3>2. /\ <<"/", Blank>> \in Urls /\ Len(<<"/", Blank>>) = 2
          /\ <<"/", Blank>>[1] = "/" /\ <<"/", Blank>>[2] = Blank
      BY DEF Urls, Tokens
    <3> DEFINE both == <<"/">> \o <<Blank>>
               pair == <<"/", Blank>>
    <3>3. both \in Urls /\ Len(both) = 1 + 1
      BY <2>1, <3>1, ConcatProperties DEF Urls
    <3>4. both[1] = "/" /\ both[2] = Blank
      <4>1. 1 \in 1 .. 1 + 1 /\ 2 \in 1 .. 1 + 1 /\ 1 <= 1 /\ ~(2 <= 1) /\ 2 - 1 = 1
        OBVIOUS
      <4> QED
        BY <2>1, <3>1, <4>1, ConcatProperties DEF Urls
    <3> HIDE DEF both, pair
    <3>5. both \in Seq(Tokens) /\ pair \in Seq(Tokens) /\ Len(both) = Len(pair)
      BY <3>2, <3>3 DEF Urls, pair
    <3>6. \A i \in 1 .. Len(both) : both[i] = pair[i]
      <4>1. \A i \in 1 .. 1 + 1 : i = 1 \/ i = 2
        OBVIOUS
      <4> QED
        BY <3>2, <3>3, <3>4, <4>1 DEF pair
    <3>7. both = pair
      BY <3>5, <3>6, SeqEqual
    <3> QED
      BY <3>7 DEF both, pair
  <2> QED
    BY <2>0, <2>2, <2>3 DEF Joined, SlashOrNot, Fronts
<1>3. url = Joined(Joined(Joined(blank, scheme), location), tail)
  BY <1>1, Zenon DEF Joined
<1> QED
  BY <1>2, <1>3, SpellingsMeet

\* keyword and the backfill mean the same profiles by the address of a feed,
\* for every host and path: both sides make of every spelling of an address
\* its host and path.
THEOREM AnyFeedsMatch == HelpersSpec => []FeedsMatch
<1>1. HelpersInit => FeedsMatch
  <2> SUFFICES ASSUME HelpersInit, input.kind = "feed" PROVE FeedsMatch
    BY DEF FeedsMatch
  <2>1. input.asked \in Spellings
    BY DEF HelpersInit, Texts, Seeds, Feeds, Rates
  <2> QED
    BY <2>1, SpellingsMeetSomewhere DEF FeedsMatch
<1>2. FeedsMatch /\ [HelpersNext]_input => FeedsMatch'
  BY DEF FeedsMatch, HelpersNext
<1> QED
  BY <1>1, <1>2, PTL DEF HelpersSpec
-----------------------------------------------------------------------------
(***************************************************************************)
(* The seeds file                                                          *)
(***************************************************************************)
BibTokens == STRING \cup {"@", Opening, Closing}

\* src holds the entries of these forms, and e[k] is the position at which
\* the entry k ends.
Laid(src, forms, n, e) ==
  /\ n \in Nat /\ forms \in [1 .. n -> EntryForms] /\ src \in Seq(BibTokens)
  /\ e \in [0 .. n -> Nat] /\ e[0] = 0 /\ e[n] = Len(src)
  /\ \A k \in 1 .. n :
       LET b == e[k - 1] IN
       /\ src[b + 1] = "@" /\ src[b + 2] = Opening /\ src[b + 3] = Keys[k]
       /\ forms[k] = "plain" => e[k] = b + 4 /\ src[b + 4] = Closing
       /\ forms[k] = "nested" =>
            e[k] = b + 6 /\ src[b + 4] = Opening /\ src[b + 5] = Closing /\ src[b + 6] = Closing
       /\ forms[k] = "unclosed" =>
            e[k] = b + 5 /\ src[b + 4] = Opening /\ src[b + 5] = Closing

LEMMA Braces == "@" # Opening /\ "@" # Closing /\ Opening # Closing
BY DEF Opening, Closing

LEMMA KeysAre ==
  /\ Len(Keys) \in Nat
  /\ \A k \in 1 .. Len(Keys) :
       Keys[k] \in BibTokens /\ Keys[k] # Opening /\ Keys[k] # Closing
<1>1. Keys \in Seq(STRING) /\ \A k \in DOMAIN Keys : Keys[k] \notin {Opening, Closing}
  BY HelpersAssumption
<1>2. Len(Keys) \in Nat /\ DOMAIN Keys = 1 .. Len(Keys)
  BY <1>1, LenProperties
<1>3. \A k \in 1 .. Len(Keys) : Keys[k] \in STRING
  BY <1>1, ElementOfSeq
<1> QED
  BY <1>1, <1>2, <1>3 DEF BibTokens

\* The tokens of one entry.
LEMMA EntryIs ==
  ASSUME NEW form \in EntryForms, NEW k \in 1 .. Len(Keys)
  PROVE  LET t == Entry(form, k) IN
         /\ t \in Seq(BibTokens)
         /\ t[1] = "@" /\ t[2] = Opening /\ t[3] = Keys[k]
         /\ form = "plain" => Len(t) = 4 /\ t[4] = Closing
         /\ form = "nested" => Len(t) = 6 /\ t[4] = Opening /\ t[5] = Closing /\ t[6] = Closing
         /\ form = "unclosed" => Len(t) = 5 /\ t[4] = Opening /\ t[5] = Closing
<1> DEFINE head == <<"@", Opening, Keys[k]>>
           tail == CASE form = "plain"    -> <<Closing>>
                     [] form = "nested"   -> <<Opening, Closing, Closing>>
                     [] form = "unclosed" -> <<Opening, Closing>>
           t == head \o tail
<1>1. "@" \in BibTokens /\ Opening \in BibTokens /\ Closing \in BibTokens /\ Keys[k] \in BibTokens
  BY KeysAre DEF BibTokens
<1>2. /\ head \in Seq(BibTokens) /\ Len(head) = 3
      /\ head[1] = "@" /\ head[2] = Opening /\ head[3] = Keys[k]
  BY <1>1
<1>3. /\ form = "plain" => tail = <<Closing>>
      /\ form = "nested" => tail = <<Opening, Closing, Closing>>
      /\ form = "unclosed" => tail = <<Opening, Closing>>
  OBVIOUS
<1>4. t = Entry(form, k)
  BY DEF Entry
<1> HIDE DEF head, tail
<1>5. /\ tail \in Seq(BibTokens)
      /\ form = "plain" => Len(tail) = 1 /\ tail[1] = Closing
      /\ form = "nested" =>
           Len(tail) = 3 /\ tail[1] = Opening /\ tail[2] = Closing /\ tail[3] = Closing
      /\ form = "unclosed" => Len(tail) = 2 /\ tail[1] = Opening /\ tail[2] = Closing
  <2>1. CASE form = "plain"
    <3>1. tail = <<Closing>>
      BY <1>3, <2>1
    <3> QED
      BY <1>1, <2>1, <3>1
  <2>2. CASE form = "nested"
    <3>1. tail = <<Opening, Closing, Closing>>
      BY <1>3, <2>2
    <3> QED
      BY <1>1, <2>2, <3>1
  <2>3. CASE form = "unclosed"
    <3>1. tail = <<Opening, Closing>>
      BY <1>3, <2>3
    <3> QED
      BY <1>1, <2>3, <3>1
  <2> QED
    BY <2>1, <2>2, <2>3 DEF EntryForms
<1>6. /\ t \in Seq(BibTokens) /\ Len(t) = 3 + Len(tail)
      /\ \A i \in 1 .. 3 + Len(tail) : t[i] = IF i <= 3 THEN head[i] ELSE tail[i - 3]
  <2>1. head \in Seq(BibTokens) /\ tail \in Seq(BibTokens)
    BY <1>2, <1>5
  <2>2. /\ t \in Seq(BibTokens) /\ Len(t) = Len(head) + Len(tail)
        /\ \A i \in 1 .. Len(head) + Len(tail) :
             t[i] = IF i <= Len(head) THEN head[i] ELSE tail[i - Len(head)]
    BY <2>1, ConcatProperties
  <2> HIDE DEF t
  <2>3. Len(head) = 3
    BY <1>2
  <2> QED
    BY <2>2, <2>3
<1> HIDE DEF t
<1>7. Len(tail) \in Nat
  BY <1>5, LenProperties
<1>8. /\ t[1] = "@" /\ t[2] = Opening /\ t[3] = Keys[k]
      /\ \A i \in 1 .. Len(tail) : t[3 + i] = tail[i]
  <2>1. \A i \in 1 .. 3 : i \in 1 .. 3 + Len(tail) /\ i <= 3
    BY <1>7
  <2>2. \A i \in 1 .. Len(tail) : 3 + i \in 1 .. 3 + Len(tail) /\ ~(3 + i <= 3) /\ (3 + i) - 3 = i
    BY <1>7
  <2>3. t[1] = head[1] /\ t[2] = head[2] /\ t[3] = head[3]
    BY <1>6, <2>1
  <2>4. \A i \in 1 .. Len(tail) : t[3 + i] = tail[i]
    BY <1>6, <2>2
  <2> QED
    BY <1>2, <2>3, <2>4
<1>9. CASE form = "plain"
  <2>1. Len(tail) = 1 /\ tail[1] = Closing
    BY <1>5, <1>9
  <2>2. Len(t) = 4 /\ t[4] = Closing
    BY <1>6, <1>8, <2>1
  <2> QED
    BY <1>4, <1>6, <1>8, <1>9, <2>2
<1>10. CASE form = "nested"
  <2>1. Len(tail) = 3 /\ tail[1] = Opening /\ tail[2] = Closing /\ tail[3] = Closing
    BY <1>5, <1>10
  <2>2. Len(t) = 6 /\ t[4] = Opening /\ t[5] = Closing /\ t[6] = Closing
    BY <1>6, <1>8, <2>1
  <2> QED
    BY <1>4, <1>6, <1>8, <1>10, <2>2
<1>11. CASE form = "unclosed"
  <2>1. Len(tail) = 2 /\ tail[1] = Opening /\ tail[2] = Closing
    BY <1>5, <1>11
  <2>2. Len(t) = 5 /\ t[4] = Opening /\ t[5] = Closing
    BY <1>6, <1>8, <2>1
  <2> QED
    BY <1>4, <1>6, <1>8, <1>11, <2>2
<1> QED
  BY <1>9, <1>10, <1>11 DEF EntryForms
\* The recursion of FlattenSeq, and its solution.
OneMore(seqs, f, i) == IF i = 1 THEN seqs[i] ELSE f[i - 1] \o seqs[i]

LEMMA FlattenExists ==
  ASSUME NEW n \in Nat, NEW seqs \in [1 .. n -> Seq(BibTokens)]
  PROVE  \E f \in [1 .. n -> Seq(BibTokens)] : f = [i \in 1 .. n |-> OneMore(seqs, f, i)]
<1> DEFINE Bibs == Seq(BibTokens)
           Solves(f, m) == \A i \in 1 .. n : i <= m => f[i] = OneMore(seqs, f, i)
           G == {m \in 0 .. n : \E f \in [1 .. n -> Bibs] : Solves(f, m)}
<1>1. 0 \in G
  <2>1. Solves(seqs, 0)
    OBVIOUS
  <2> QED
    BY <2>1
<1>2. ASSUME NEW m \in 0 .. n - 1, m \in G PROVE m + 1 \in G
  <2>0. m + 1 \in 1 .. n /\ m + 1 \in 0 .. n /\ (m + 1) - 1 = m /\ (m = 0 \/ m \in 1 .. n)
    OBVIOUS
  <2>1. PICK f \in [1 .. n -> Bibs] : Solves(f, m)
    BY <1>2
  <2> DEFINE new == OneMore(seqs, f, m + 1)
             g == [f EXCEPT ![m + 1] = new]
  <2>2. new \in Bibs
    <3>1. CASE m = 0
      BY <2>0, <3>1 DEF OneMore
    <3>2. CASE m # 0
      <4>1. f[m] \in Bibs /\ seqs[m + 1] \in Bibs /\ m + 1 # 1
        BY <2>0, <2>1, <3>2
      <4>2. new = f[m] \o seqs[m + 1]
        BY <2>0, <4>1 DEF OneMore
      <4>3. f[m] \o seqs[m + 1] \in Bibs
        BY <4>1, ConcatProperties, Zenon
      <4> QED
        BY <4>2, <4>3, Zenon
    <3> QED
      BY <3>1, <3>2
  <2> HIDE DEF new
  <2>3. g \in [1 .. n -> Bibs]
    <3> HIDE DEF Bibs
    <3> QED
      BY <2>0, <2>1, <2>2
  <2>4. ASSUME NEW i \in 1 .. n, i <= m + 1 PROVE g[i] = OneMore(seqs, g, i)
    <3>1. i = 1 \/ (i - 1 \in 1 .. n /\ i - 1 # m + 1)
      BY <2>4
    <3>2. OneMore(seqs, g, i) = OneMore(seqs, f, i)
      <4>1. i = 1 \/ g[i - 1] = f[i - 1]
        BY <2>1, <3>1
      <4> HIDE DEF g
      <4> QED
        BY <4>1 DEF OneMore
    <3>3. CASE i = m + 1
      BY <2>1, <3>2, <3>3 DEF new
    <3>4. CASE i # m + 1
      <4>1. i <= m
        BY <2>4, <3>4
      <4> QED
        BY <2>1, <3>2, <3>4, <4>1
    <3> QED
      BY <3>3, <3>4
  <2> HIDE DEF g, Bibs
  <2> QED
    BY <2>0, <2>3, <2>4
<1>3. n \in G
  <2> HIDE DEF G
  <2>1. G \in SUBSET (0 .. n)
    BY DEF G
  <2>2. G = 0 .. n
    BY <1>1, <1>2, <2>1, UpwardInduction
  <2> QED
    BY <2>2
<1>4. PICK f \in [1 .. n -> Bibs] : Solves(f, n)
  BY <1>3
<1>5. f = [i \in 1 .. n |-> OneMore(seqs, f, i)]
  BY <1>4
<1> QED
  BY <1>5

LEMMA Flattened ==
  ASSUME NEW n \in Nat \ {0}, NEW seqs \in [1 .. n -> Seq(BibTokens)]
  PROVE  \E f \in [1 .. n -> Seq(BibTokens)] :
           /\ f[1] = seqs[1]
           /\ \A i \in 2 .. n : f[i] = f[i - 1] \o seqs[i]
           /\ FlattenSeq(seqs) = f[n]
<1> DEFINE flatten[i \in 1 .. Len(seqs)] == IF i = 1 THEN seqs[i] ELSE flatten[i - 1] \o seqs[i]
<1>1. PICK f \in [1 .. n -> Seq(BibTokens)] : f = [i \in 1 .. n |-> OneMore(seqs, f, i)]
  BY FlattenExists
<1>2. Len(seqs) = n
  <2>1. seqs \in Seq(Seq(BibTokens))
    BY SeqDef
  <2>2. DOMAIN seqs = 1 .. Len(seqs) /\ DOMAIN seqs = 1 .. n /\ Len(seqs) \in Nat
    BY <2>1, LenProperties
  <2> QED
    BY <2>2
<1>3. flatten = [i \in 1 .. n |-> OneMore(seqs, flatten, i)]
  <2>1. \E g : g = [i \in 1 .. Len(seqs) |-> IF i = 1 THEN seqs[i] ELSE g[i - 1] \o seqs[i]]
    BY <1>1, <1>2, Zenon DEF OneMore
  <2>2. flatten = [i \in 1 .. Len(seqs) |-> IF i = 1 THEN seqs[i] ELSE flatten[i - 1] \o seqs[i]]
    BY <2>1, Zenon
  <2> HIDE DEF flatten
  <2> QED
    BY <1>2, <2>2, Zenon DEF OneMore
<1>4. FlattenSeq(seqs) = flatten[n]
  <2>1. FlattenSeq(seqs) = IF Len(seqs) = 0 THEN seqs ELSE flatten[Len(seqs)]
    BY Zenon DEF FlattenSeq
  <2> HIDE DEF flatten
  <2> QED
    BY <1>2, <2>1
<1> HIDE DEF flatten
<1>5. \A i \in 1 .. n : flatten[i] = OneMore(seqs, flatten, i)
  BY <1>3
<1>6. flatten[1] = seqs[1] /\ \A i \in 2 .. n : flatten[i] = flatten[i - 1] \o seqs[i]
  <2>1. 1 \in 1 .. n /\ \A i \in 2 .. n : i \in 1 .. n /\ i # 1
    OBVIOUS
  <2> QED
    BY <1>5, <2>1, Zenon DEF OneMore
<1> DEFINE G == {m \in 0 .. n : m = 0 \/ flatten[m] \in Seq(BibTokens)}
<1>7. ASSUME NEW m \in 0 .. n - 1, m \in G PROVE m + 1 \in G
  <2>0. m + 1 \in 1 .. n /\ m + 1 \in 0 .. n /\ (m + 1) - 1 = m /\ seqs[m + 1] \in Seq(BibTokens)
    OBVIOUS
  <2>1. CASE m = 0
    <3>1. flatten[m + 1] \in Seq(BibTokens)
      BY <1>6, <2>0, <2>1
    <3> QED
      BY <2>0, <3>1
  <2>2. CASE m # 0
    <3>1. m + 1 \in 2 .. n /\ flatten[m] \in Seq(BibTokens)
      BY <1>7, <2>2
    <3>2. flatten[m + 1] = flatten[m] \o seqs[m + 1]
      BY <1>6, <2>0, <3>1
    <3>3. flatten[m + 1] \in Seq(BibTokens)
      BY <2>0, <3>1, <3>2, ConcatProperties
    <3> QED
      BY <2>0, <3>3
  <2> QED
    BY <2>1, <2>2
<1>8. G = 0 .. n
  <2>1. 0 \in G /\ G \in SUBSET (0 .. n)
    OBVIOUS
  <2> HIDE DEF G
  <2> QED
    BY <1>7, <2>1, UpwardInduction
<1>9. flatten \in [1 .. n -> Seq(BibTokens)]
  <2>1. \A i \in 1 .. n : i \in G /\ i # 0
    <3> HIDE DEF G
    <3> QED
      BY <1>8
  <2>2. \A i \in 1 .. n : flatten[i] \in Seq(BibTokens)
    BY <2>1
  <2> QED
    BY <1>3, <2>2
<1> QED
  BY <1>4, <1>6, <1>9
\* Where the parts of a concatenation are: the sums of their lengths.
LEMMA PartsInPlace ==
  ASSUME NEW n \in Nat \ {0}, NEW seqs \in [1 .. n -> Seq(BibTokens)],
         NEW f \in [1 .. n -> Seq(BibTokens)],
         f[1] = seqs[1], \A i \in 2 .. n : f[i] = f[i - 1] \o seqs[i]
  PROVE  \E e \in [0 .. n -> Nat] :
           /\ e[0] = 0 /\ e[n] = Len(f[n])
           /\ \A k \in 1 .. n : e[k] = e[k - 1] + Len(seqs[k])
           /\ \A k \in 1 .. n : \A i \in 1 .. Len(seqs[k]) : f[n][e[k - 1] + i] = seqs[k][i]
<1> DEFINE e == [k \in 0 .. n |-> IF k = 0 THEN 0 ELSE Len(f[k])]
           Here(m, k) == /\ e[k] <= e[m]
                         /\ \A i \in 1 .. Len(seqs[k]) : f[m][e[k - 1] + i] = seqs[k][i]
           G == {m \in 0 .. n : \A k \in 1 .. m : Here(m, k)}
<1>1. \A k \in 1 .. n : Len(f[k]) \in Nat /\ Len(seqs[k]) \in Nat
  <2>1. \A k \in 1 .. n : f[k] \in Seq(BibTokens) /\ seqs[k] \in Seq(BibTokens)
    OBVIOUS
  <2> QED
    BY <2>1, LenProperties
<1>2. /\ e \in [0 .. n -> Nat] /\ e[0] = 0
      /\ \A k \in 1 .. n : e[k] = Len(f[k])
  <2>1. \A k \in 0 .. n : (IF k = 0 THEN 0 ELSE Len(f[k])) \in Nat
    BY <1>1
  <2> QED
    BY <2>1
<1> HIDE DEF e
<1>3. \A k \in 1 .. n : e[k] \in Nat /\ e[k - 1] \in Nat
  BY <1>2
<1>4. ASSUME NEW k \in 2 .. n
      PROVE  /\ e[k] = e[k - 1] + Len(seqs[k])
             /\ \A j \in 1 .. e[k - 1] : f[k][j] = f[k - 1][j]
             /\ \A i \in 1 .. Len(seqs[k]) : f[k][e[k - 1] + i] = seqs[k][i]
  <2>1. k \in 1 .. n /\ k - 1 \in 1 .. n
    OBVIOUS
  <2> DEFINE s == f[k - 1]
             t == seqs[k]
             both == s \o t
  <2>2. f[k] = both
    BY <1>4
  <2>3. s \in Seq(BibTokens) /\ t \in Seq(BibTokens)
    BY <2>1
  <2>4. e[k] = Len(f[k]) /\ e[k - 1] = Len(s) /\ Len(s) \in Nat /\ Len(t) \in Nat
    BY <1>1, <1>2, <2>1
  <2> HIDE DEF s, t
  <2>5. /\ Len(both) = Len(s) + Len(t)
        /\ \A j \in 1 .. Len(s) + Len(t) : both[j] = IF j <= Len(s) THEN s[j] ELSE t[j - Len(s)]
    BY <2>3, ConcatProperties
  <2> HIDE DEF both
  <2>6. /\ \A j \in 1 .. Len(s) : j \in 1 .. Len(s) + Len(t) /\ j <= Len(s)
        /\ \A i \in 1 .. Len(t) : /\ Len(s) + i \in 1 .. Len(s) + Len(t)
                                  /\ ~(Len(s) + i <= Len(s)) /\ (Len(s) + i) - Len(s) = i
    BY <2>4
  <2>7. /\ \A j \in 1 .. Len(s) : both[j] = s[j]
        /\ \A i \in 1 .. Len(t) : both[Len(s) + i] = t[i]
    BY <2>5, <2>6
  <2> QED
    BY <2>2, <2>4, <2>5, <2>7 DEF s, t
<1>5. \A k \in 1 .. n : e[k] = e[k - 1] + Len(seqs[k])
  <2> SUFFICES ASSUME NEW k \in 1 .. n PROVE e[k] = e[k - 1] + Len(seqs[k])
    OBVIOUS
  <2>1. CASE k = 1
    BY <1>1, <1>2, <2>1
  <2>2. CASE k # 1
    <3>1. k \in 2 .. n
      BY <2>2
    <3> QED
      BY <1>4, <3>1
  <2> QED
    BY <2>1, <2>2
<1>6. ASSUME NEW m \in 0 .. n - 1, m \in G PROVE m + 1 \in G
  <2>0. m + 1 \in 1 .. n /\ m + 1 \in 0 .. n /\ (m + 1) - 1 = m
    OBVIOUS
  <2>2. e[m + 1] <= e[m + 1]
    <3>1. e[m + 1] \in Nat
      BY <1>3, <2>0, Zenon
    <3> QED
      BY <3>1
  <2>1. ASSUME NEW k \in 1 .. m + 1 PROVE Here(m + 1, k)
    <3>1. CASE k = m + 1 /\ m = 0
      <4>1. f[m + 1] = seqs[k] /\ e[k - 1] = 0 /\ Len(seqs[k]) \in Nat
        BY <1>1, <1>2, <2>0, <3>1
      <4>2. \A i \in 1 .. Len(seqs[k]) : e[k - 1] + i = i
        BY <4>1
      <4>3. e[k] <= e[m + 1]
        BY <2>2, <3>1
      <4> QED
        BY <4>1, <4>2, <4>3
    <3>2. CASE k = m + 1 /\ m # 0
      <4>1. k \in 2 .. n
        BY <3>2
      <4>2. e[k] <= e[m + 1]
        BY <2>2, <3>2
      <4> QED
        BY <1>4, <3>2, <4>1, <4>2
    <3>3. CASE k # m + 1
      <4>1. k \in 1 .. m /\ k \in 1 .. n /\ m + 1 \in 2 .. n /\ m \in 1 .. n
        BY <3>3
      <4>2. Here(m, k)
        BY <1>6, <4>1
      <4>3. /\ e[k] = e[k - 1] + Len(seqs[k]) /\ e[m + 1] = e[m] + Len(seqs[m + 1])
            /\ e[k] \in Nat /\ e[k - 1] \in Nat /\ e[m] \in Nat
            /\ Len(seqs[k]) \in Nat /\ Len(seqs[m + 1]) \in Nat
        BY <1>1, <1>3, <1>5, <2>0, <4>1
      <4>4. e[k] <= e[m + 1]
        <5>1. e[k] <= e[m] /\ e[k] \in Nat /\ e[m] \in Nat
          BY <4>2, <4>3, Zenon
        <5>2. e[m + 1] = e[m] + Len(seqs[m + 1]) /\ Len(seqs[m + 1]) \in Nat
          BY <4>3, Zenon
        <5> QED
          BY <5>1, <5>2
      <4>5. ASSUME NEW i \in 1 .. Len(seqs[k]) PROVE e[k - 1] + i \in 1 .. e[m]
        <5>1. e[k - 1] + Len(seqs[k]) <= e[m]
          <6>1. e[k] <= e[m] /\ e[k] = e[k - 1] + Len(seqs[k])
            BY <4>2, <4>3, Zenon
          <6> QED
            BY <6>1
        <5>2. \A a, b, l \in Nat : \A x \in 1 .. l : a + l <= b => a + x \in 1 .. b
          OBVIOUS
        <5> QED
          BY <4>3, <5>1, <5>2
      <4>6. \A j \in 1 .. e[m] : f[m + 1][j] = f[m][j]
        BY <1>4, <2>0, <4>1
      <4> QED
        BY <4>2, <4>4, <4>5, <4>6
    <3> QED
      BY <3>1, <3>2, <3>3
  <2> HIDE DEF Here
  <2> QED
    BY <2>0, <2>1
<1>7. G = 0 .. n
  <2>1. 0 \in G /\ G \in SUBSET (0 .. n)
    OBVIOUS
  <2> HIDE DEF G
  <2> QED
    BY <1>6, <2>1, UpwardInduction
<1>8. \A k \in 1 .. n : Here(n, k)
  <2>1. n \in G
    <3> HIDE DEF G
    <3> QED
      BY <1>7
  <2> QED
    BY <2>1
<1>9. \A k \in 1 .. n : \A i \in 1 .. Len(seqs[k]) : f[n][e[k - 1] + i] = seqs[k][i]
  BY <1>8
<1>10. e[n] = Len(f[n])
  BY <1>2
<1> QED
  BY <1>2, <1>5, <1>9, <1>10
\* Every seeds file is laid out as its entries say.
LEMMA LaidOut ==
  ASSUME NEW seeds, NEW n \in 0 .. Len(Keys), seeds.entries \in [1 .. n -> EntryForms]
  PROVE  \E e : Laid(Source(seeds), seeds.entries, n, e)
<1> DEFINE forms == seeds.entries
           seqs == [k \in DOMAIN forms |-> Entry(forms[k], k)]
           src == Source(seeds)
<1>0. n \in Nat /\ DOMAIN forms = 1 .. n /\ \A k \in 1 .. n : k \in 1 .. Len(Keys)
  BY KeysAre
<1>1. seqs \in [1 .. n -> Seq(BibTokens)] /\ \A k \in 1 .. n : seqs[k] = Entry(forms[k], k)
  <2>1. \A k \in 1 .. n : Entry(forms[k], k) \in Seq(BibTokens)
    BY <1>0, EntryIs
  <2> QED
    BY <1>0, <2>1
<1>2. src = FlattenSeq(seqs)
  BY DEF Source
<1> HIDE DEF seqs
<1>3. CASE n = 0
  <2>1. seqs \in Seq(Seq(BibTokens)) /\ DOMAIN seqs = 1 .. n
    BY <1>0, <1>1, SeqDef
  <2>2. Len(seqs) = 0
    <3>1. DOMAIN seqs = 1 .. Len(seqs) /\ Len(seqs) \in Nat
      BY <2>1, LenProperties
    <3> QED
      BY <1>3, <2>1, <3>1
  <2>3. seqs = << >>
    BY <2>1, <2>2, EmptySeq
  <2>4. src = << >>
    BY <1>2, <2>2, <2>3 DEF FlattenSeq
  <2>5. src \in Seq(BibTokens) /\ Len(src) = 0
    BY <2>4, EmptySeq
  <2> DEFINE e == [k \in 0 .. n |-> 0]
  <2>6. e \in [0 .. n -> Nat] /\ e[0] = 0 /\ e[n] = 0
    BY <1>3
  <2> HIDE DEF e, src
  <2>7. Laid(src, forms, n, e)
    BY <1>0, <1>3, <2>5, <2>6 DEF Laid
  <2> QED
    BY <2>7 DEF src
<1>4. CASE n # 0
  <2>1. PICK f \in [1 .. n -> Seq(BibTokens)] :
          f[1] = seqs[1] /\ (\A i \in 2 .. n : f[i] = f[i - 1] \o seqs[i]) /\ src = f[n]
    <3>1. n \in Nat \ {0} /\ seqs \in [1 .. n -> Seq(BibTokens)]
      BY <1>0, <1>1, <1>4
    <3> HIDE DEF src
    <3>2. src = FlattenSeq(seqs)
      BY <1>2
    <3> QED
      BY <3>1, <3>2, Flattened, Zenon
  <2>2. PICK e \in [0 .. n -> Nat] :
          /\ e[0] = 0 /\ e[n] = Len(f[n])
          /\ \A k \in 1 .. n : e[k] = e[k - 1] + Len(seqs[k])
          /\ \A k \in 1 .. n : \A i \in 1 .. Len(seqs[k]) : f[n][e[k - 1] + i] = seqs[k][i]
    BY <1>0, <1>1, <1>4, <2>1, PartsInPlace
  <2>3. src \in Seq(BibTokens) /\ e[n] = Len(src)
    BY <1>0, <1>4, <2>1, <2>2
  <2>4. ASSUME NEW k \in 1 .. n
        PROVE  LET b == e[k - 1] IN
               /\ src[b + 1] = "@" /\ src[b + 2] = Opening /\ src[b + 3] = Keys[k]
               /\ forms[k] = "plain" => e[k] = b + 4 /\ src[b + 4] = Closing
               /\ forms[k] = "nested" =>
                    /\ e[k] = b + 6
                    /\ src[b + 4] = Opening /\ src[b + 5] = Closing /\ src[b + 6] = Closing
               /\ forms[k] = "unclosed" =>
                    e[k] = b + 5 /\ src[b + 4] = Opening /\ src[b + 5] = Closing
    <3> DEFINE t == Entry(forms[k], k)
               b == e[k - 1]
    <3>1. forms[k] \in EntryForms /\ k \in 1 .. Len(Keys)
      BY <1>0
    <3>2. /\ t[1] = "@" /\ t[2] = Opening /\ t[3] = Keys[k]
          /\ forms[k] = "plain" => Len(t) = 4 /\ t[4] = Closing
          /\ forms[k] = "nested" =>
               Len(t) = 6 /\ t[4] = Opening /\ t[5] = Closing /\ t[6] = Closing
          /\ forms[k] = "unclosed" => Len(t) = 5 /\ t[4] = Opening /\ t[5] = Closing
      BY <3>1, EntryIs
    <3>3. e[k] = b + Len(t) /\ \A i \in 1 .. Len(t) : src[b + i] = t[i]
      <4>1. seqs[k] = t /\ src = f[n]
        BY <1>1, <2>1, Zenon
      <4>2. e[k] = b + Len(seqs[k]) /\ \A i \in 1 .. Len(seqs[k]) : f[n][b + i] = seqs[k][i]
        BY <2>2, Zenon
      <4> HIDE DEF t, b, src
      <4> QED
        BY <4>1, <4>2, Zenon
    <3> HIDE DEF t, b, src
    <3>4. CASE forms[k] = "plain"
      <4>1. Len(t) = 4 /\ t[4] = Closing /\ e[k] = b + 4
        BY <3>2, <3>3, <3>4
      <4>2. src[b + 1] = t[1] /\ src[b + 2] = t[2] /\ src[b + 3] = t[3] /\ src[b + 4] = t[4]
        BY <3>3, <4>1
      <4> QED
        BY <3>2, <3>4, <4>1, <4>2 DEF b
    <3>5. CASE forms[k] = "nested"
      <4>1. Len(t) = 6 /\ t[4] = Opening /\ t[5] = Closing /\ t[6] = Closing /\ e[k] = b + 6
        BY <3>2, <3>3, <3>5
      <4>2. /\ src[b + 1] = t[1] /\ src[b + 2] = t[2] /\ src[b + 3] = t[3]
            /\ src[b + 4] = t[4] /\ src[b + 5] = t[5] /\ src[b + 6] = t[6]
        BY <3>3, <4>1
      <4> QED
        BY <3>2, <3>5, <4>1, <4>2 DEF b
    <3>6. CASE forms[k] = "unclosed"
      <4>1. Len(t) = 5 /\ t[4] = Opening /\ t[5] = Closing /\ e[k] = b + 5
        BY <3>2, <3>3, <3>6
      <4>2. /\ src[b + 1] = t[1] /\ src[b + 2] = t[2] /\ src[b + 3] = t[3]
            /\ src[b + 4] = t[4] /\ src[b + 5] = t[5]
        BY <3>3, <4>1
      <4> QED
        BY <3>2, <3>6, <4>1, <4>2 DEF b
    <3> QED
      BY <3>1, <3>4, <3>5, <3>6 DEF EntryForms
  <2> HIDE DEF src
  <2>5. Laid(src, forms, n, e)
    BY <1>0, <2>2, <2>3, <2>4 DEF Laid
  <2> QED
    BY <2>5 DEF src
<1> QED
  BY <1>3, <1>4

\* What one token does to the depth.
Nesting(token) == IF token = Opening THEN 1 ELSE IF token = Closing THEN -1 ELSE 0

OneDeeper(src, open, f, j) == IF j < open THEN 0 ELSE f[j - 1] + Nesting(src[j])

\* The recursion of Depth has a solution.
LEMMA DepthExists ==
  ASSUME NEW src, Len(src) \in Nat, NEW open \in Nat \ {0}
  PROVE  \E f : f = [j \in open - 1 .. Len(src) |-> OneDeeper(src, open, f, j)]
<1> DEFINE n == Len(src)
           D == open - 1 .. n
           Solves(f, m) == \A j \in D : j <= m => f[j] = OneDeeper(src, open, f, j)
           G == {m \in 0 .. n : \E f \in [D -> Int] : Solves(f, m)}
<1>0. n \in Nat /\ \A x : Nesting(x) \in Int
  BY DEF Nesting
<1> HIDE DEF n
<1>1. 0 \in G
  <2> DEFINE f == [j \in D |-> 0]
  <2>1. Solves(f, 0)
    BY <1>0 DEF OneDeeper
  <2> QED
    BY <1>0, <2>1
<1>2. ASSUME NEW m \in 0 .. n - 1, m \in G PROVE m + 1 \in G
  <2>0. m + 1 \in 0 .. n /\ m \in Nat
    BY <1>0
  <2>1. PICK f \in [D -> Int] : Solves(f, m)
    BY <1>2
  <2> DEFINE new == OneDeeper(src, open, f, m + 1)
             g == [j \in D |-> IF j = m + 1 THEN new ELSE f[j]]
  <2>2. ASSUME m + 1 \in D PROVE new \in Int
    <3>1. CASE m + 1 < open
      BY <3>1 DEF OneDeeper
    <3>2. CASE ~(m + 1 < open)
      <4>1. (m + 1) - 1 \in D
        BY <1>0, <2>0, <3>2
      <4>2. f[(m + 1) - 1] \in Int
        BY <2>1, <4>1
      <4> QED
        BY <1>0, <3>2, <4>2 DEF OneDeeper
    <3> QED
      BY <3>1, <3>2
  <2> HIDE DEF new
  <2>3. g \in [D -> Int]
    <3> HIDE DEF D
    <3> QED
      BY <2>1, <2>2
  <2>4. ASSUME NEW j \in D, j <= m + 1 PROVE g[j] = OneDeeper(src, open, g, j)
    <3>1. j < open \/ (j - 1 \in D /\ j - 1 # m + 1)
      BY <1>0, <2>0, <2>4
    <3>2. OneDeeper(src, open, g, j) = OneDeeper(src, open, f, j)
      <4>1. j < open \/ g[j - 1] = f[j - 1]
        BY <2>1, <3>1
      <4> HIDE DEF g
      <4> QED
        BY <4>1 DEF OneDeeper
    <3>3. CASE j = m + 1
      BY <2>1, <3>2, <3>3 DEF new
    <3>4. CASE j # m + 1
      <4>1. j <= m
        BY <1>0, <2>0, <2>4, <3>4
      <4> QED
        BY <2>1, <3>2, <3>4, <4>1
    <3> QED
      BY <3>3, <3>4
  <2> HIDE DEF g, D
  <2> QED
    BY <2>0, <2>3, <2>4
<1>3. n \in G
  <2>1. G \in SUBSET (0 .. n)
    OBVIOUS
  <2> HIDE DEF G
  <2>2. G = 0 .. n
    BY <1>0, <1>1, <1>2, <2>1, UpwardInduction
  <2> QED
    BY <1>0, <2>2
<1>4. PICK f \in [D -> Int] : Solves(f, n)
  BY <1>3
<1>5. f = [j \in D |-> OneDeeper(src, open, f, j)]
  BY <1>0, <1>4
<1> QED
  BY <1>5 DEF n

LEMMA DepthUnfold ==
  ASSUME NEW src, Len(src) \in Nat, NEW open \in Nat \ {0}, open <= Len(src)
  PROVE  /\ Depth(src, open)[open - 1] = 0
         /\ \A j \in open .. Len(src) :
              Depth(src, open)[j] = Depth(src, open)[j - 1] + Nesting(src[j])
<1> DEFINE d == Depth(src, open)
<1>1. PICK f : f = [j \in open - 1 .. Len(src) |-> OneDeeper(src, open, f, j)]
  BY DepthExists
<1>2. d = [j \in open - 1 .. Len(src) |-> OneDeeper(src, open, d, j)]
  BY <1>1, Zenon DEF Depth, OneDeeper, Nesting
<1> HIDE DEF d
<1>3. \A j \in open - 1 .. Len(src) : d[j] = OneDeeper(src, open, d, j)
  BY <1>2
<1>4. d[open - 1] = 0 /\ \A j \in open .. Len(src) : d[j] = d[j - 1] + Nesting(src[j])
  <2>1. open - 1 \in open - 1 .. Len(src) /\ open - 1 < open
    OBVIOUS
  <2>2. \A j \in open .. Len(src) : j \in open - 1 .. Len(src) /\ ~(j < open)
    OBVIOUS
  <2> QED
    BY <1>3, <2>1, <2>2 DEF OneDeeper
<1> QED
  BY <1>4 DEF d
LEMMA EndsGrow ==
  ASSUME NEW src, NEW forms, NEW n, NEW e, Laid(src, forms, n, e)
  PROVE  /\ n \in Nat /\ Len(src) \in Nat /\ e[0] = 0 /\ e[n] = Len(src)
         /\ \A k \in 0 .. n : e[k] \in Nat
         /\ \A k \in 1 .. n : e[k - 1] \in Nat /\ e[k - 1] + 4 <= e[k]
         /\ \A i, k \in 0 .. n : i <= k => e[i] <= e[k]
<1>1. /\ n \in Nat /\ e \in [0 .. n -> Nat] /\ e[0] = 0 /\ e[n] = Len(src) /\ Len(src) \in Nat
      /\ forms \in [1 .. n -> EntryForms]
  BY LenProperties DEF Laid
<1>2. ASSUME NEW k \in 1 .. n PROVE e[k] \in Nat /\ e[k - 1] \in Nat /\ e[k - 1] + 4 <= e[k]
  <2>1. e[k] \in Nat /\ e[k - 1] \in Nat /\ forms[k] \in EntryForms
    BY <1>1
  <2>2. e[k] = e[k - 1] + 4 \/ e[k] = e[k - 1] + 6 \/ e[k] = e[k - 1] + 5
    BY <2>1 DEF Laid, EntryForms
  <2> QED
    BY <2>1, <2>2
<1> DEFINE G == {m \in 0 .. n : \A i \in 0 .. m : e[i] <= e[m]}
<1>3. ASSUME NEW m \in 0 .. n - 1, m \in G PROVE m + 1 \in G
  <2>1. m + 1 \in 1 .. n /\ m + 1 \in 0 .. n /\ (m + 1) - 1 = m
    BY <1>1
  <2>2. e[m] \in Nat /\ e[m + 1] \in Nat /\ e[m] <= e[m + 1]
    BY <1>2, <2>1
  <2>3. ASSUME NEW i \in 0 .. m + 1 PROVE e[i] <= e[m + 1]
    <3>1. i = m + 1 \/ i \in 0 .. m
      BY <1>1
    <3>2. CASE i \in 0 .. m
      <4>1. e[i] <= e[m] /\ e[i] \in Nat
        BY <1>1, <1>3, <3>2
      <4> QED
        BY <2>2, <4>1
    <3> QED
      BY <2>2, <3>1, <3>2
  <2> QED
    BY <2>1, <2>3
<1>4. 0 \in G /\ G \in SUBSET (0 .. n)
  BY <1>1
<1>5. \A k \in 0 .. n : k \in G
  <2> HIDE DEF G
  <2> QED
    BY <1>1, <1>3, <1>4, UpwardInduction
<1>6. \A i, k \in 0 .. n : i <= k => e[i] <= e[k]
  <2> SUFFICES ASSUME NEW i \in 0 .. n, NEW k \in 0 .. n, i <= k PROVE e[i] <= e[k]
    OBVIOUS
  <2>1. i \in 0 .. k
    OBVIOUS
  <2> QED
    BY <1>5, <2>1
<1> QED
  BY <1>1, <1>2, <1>6

\* The entry that holds a position.
LEMMA EntryOf ==
  ASSUME NEW src, NEW forms, NEW n, NEW e, Laid(src, forms, n, e), NEW j \in 1 .. Len(src)
  PROVE  \E k \in 1 .. n : e[k - 1] < j /\ j <= e[k]
<1> DEFINE T == {k \in 0 .. n : j <= e[k]}
<1>1. /\ n \in Nat /\ Len(src) \in Nat /\ e[0] = 0 /\ e[n] = Len(src)
      /\ \A k \in 0 .. n : e[k] \in Nat
  BY EndsGrow
<1>2. T \in SUBSET Nat /\ n \in T
  BY <1>1
<1>3. PICK k \in T : \A i \in T : k <= i
  <2> HIDE DEF T
  <2> QED
    BY <1>2, LeastElement
<1>4. k \in 0 .. n /\ j <= e[k] /\ k # 0
  BY <1>1, <1>3
<1>5. k \in 1 .. n /\ k - 1 \in 0 .. n /\ ~(k <= k - 1)
  BY <1>1, <1>4
<1>6. ~(j <= e[k - 1])
  BY <1>3, <1>5
<1>7. e[k - 1] \in Nat
  BY <1>1, <1>5
<1> QED
  BY <1>4, <1>5, <1>6, <1>7

\* The brace behind the first token of an entry is a position of the file.
LEMMA BraceInside ==
  ASSUME NEW x \in Nat, NEW y \in Nat, NEW z \in Nat, x + 4 <= y, y <= z
  PROVE  x + 2 \in Nat \ {0} /\ x + 2 <= z /\ (x + 2) - 1 = x + 1
OBVIOUS

\* How deep the braces of an entry are, if base braces are open in front of it.
LEMMA EntryDepth ==
  ASSUME NEW src, NEW forms, NEW n, NEW e, Laid(src, forms, n, e), n <= Len(Keys),
         NEW m \in 1 .. n, NEW k \in m .. n
  PROVE  LET d == Depth(src, e[m - 1] + 2)
             b == e[k - 1]
             base == d[b + 1] IN
         base \in Int =>
           /\ d[b + 2] = base + 1 /\ d[b + 3] = base + 1
           /\ forms[k] = "plain" => d[b + 4] = base
           /\ forms[k] = "nested" =>
                d[b + 4] = base + 2 /\ d[b + 5] = base + 1 /\ d[b + 6] = base
           /\ forms[k] = "unclosed" => d[b + 4] = base + 2 /\ d[b + 5] = base + 1
           /\ k < n => d[e[k] + 1] = d[e[k]]
<1> DEFINE open == e[m - 1] + 2
           d == Depth(src, open)
           b == e[k - 1]
           base == d[b + 1]
<1>0. /\ n \in Nat /\ Len(src) \in Nat /\ e[n] = Len(src) /\ k \in 1 .. n /\ m - 1 \in 0 .. n
      /\ k - 1 \in 0 .. n /\ m - 1 <= k - 1 /\ m <= n /\ n \in 0 .. n /\ k \in 0 .. n /\ m \in 0 .. n
  BY EndsGrow
<1>1. /\ e[m - 1] \in Nat /\ b \in Nat /\ e[k] \in Nat /\ e[m - 1] <= b /\ b + 4 <= e[k]
      /\ e[k] <= Len(src) /\ e[m - 1] + 4 <= e[m] /\ e[m] <= Len(src) /\ e[m] \in Nat
  <2>1. /\ \A i \in 0 .. n : e[i] \in Nat
        /\ \A i \in 1 .. n : e[i - 1] + 4 <= e[i]
        /\ \A i, j \in 0 .. n : i <= j => e[i] <= e[j]
    BY EndsGrow
  <2>2. e[m - 1] \in Nat /\ b \in Nat /\ e[k] \in Nat /\ e[m] \in Nat
    BY <1>0, <2>1
  <2>3. e[m - 1] <= b /\ b + 4 <= e[k] /\ e[m - 1] + 4 <= e[m]
    BY <1>0, <2>1
  <2>4. e[k] <= e[n] /\ e[m] <= e[n]
    <3>1. k <= n /\ m <= n
      BY <1>0
    <3> QED
      BY <1>0, <2>1, <3>1
  <2> QED
    BY <1>0, <2>2, <2>3, <2>4
<1>2. open \in Nat \ {0} /\ open <= Len(src)
  <2>1. e[m - 1] \in Nat /\ e[m] \in Nat /\ e[m - 1] + 4 <= e[m] /\ e[m] <= Len(src)
    BY <1>1, Zenon
  <2>2. Len(src) \in Nat
    BY <1>0, Zenon
  <2> QED
    BY <2>1, <2>2, BraceInside, Zenon
<1>3. /\ d[open - 1] = 0
      /\ \A j \in open .. Len(src) : d[j] = d[j - 1] + Nesting(src[j])
  <2> HIDE DEF open
  <2> QED
    BY <1>0, <1>2, DepthUnfold
<1> HIDE DEF d
<1>4. \A i \in 1 .. 5 : b + i + 1 <= e[k] => d[b + i + 1] = d[b + i] + Nesting(src[b + i + 1])
  <2> SUFFICES ASSUME NEW i \in 1 .. 5, b + i + 1 <= e[k]
               PROVE  d[b + i + 1] = d[b + i] + Nesting(src[b + i + 1])
    OBVIOUS
  <2>1. b + i + 1 \in open .. Len(src) /\ (b + i + 1) - 1 = b + i
    <3>1. e[m - 1] \in Nat /\ b \in Nat /\ e[k] \in Nat /\ e[m - 1] <= b /\ e[k] <= Len(src)
      BY <1>1, Zenon
    <3>2. Len(src) \in Nat
      BY <1>0, Zenon
    <3> HIDE DEF b
    <3> QED
      BY <3>1, <3>2
  <2> QED
    BY <1>3, <2>1
<1>5. /\ Nesting(Opening) = 1 /\ Nesting(Closing) = -1 /\ Nesting("@") = 0 /\ Nesting(Keys[k]) = 0
  <2>1. Keys[k] # Opening /\ Keys[k] # Closing
    BY <1>0, KeysAre
  <2> QED
    BY <2>1, Braces DEF Nesting
<1>6. /\ src[b + 1] = "@" /\ src[b + 2] = Opening /\ src[b + 3] = Keys[k]
      /\ forms[k] = "plain" => e[k] = b + 4 /\ src[b + 4] = Closing
      /\ forms[k] = "nested" =>
           e[k] = b + 6 /\ src[b + 4] = Opening /\ src[b + 5] = Closing /\ src[b + 6] = Closing
      /\ forms[k] = "unclosed" =>
           e[k] = b + 5 /\ src[b + 4] = Opening /\ src[b + 5] = Closing
  BY <1>0 DEF Laid
<1> HIDE DEF b
<1>7. /\ d[b + 2] = d[b + 1] + Nesting(src[b + 2])
      /\ d[b + 3] = d[b + 2] + Nesting(src[b + 3])
      /\ d[b + 4] = d[b + 3] + Nesting(src[b + 4])
  <2>1. /\ 1 \in 1 .. 5 /\ 2 \in 1 .. 5 /\ 3 \in 1 .. 5
        /\ b + 1 + 1 = b + 2 /\ b + 2 + 1 = b + 3 /\ b + 3 + 1 = b + 4
        /\ b + 2 <= e[k] /\ b + 3 <= e[k] /\ b + 4 <= e[k]
    BY <1>1
  <2> QED
    BY <1>4, <2>1
<1>8. ASSUME base \in Int PROVE d[b + 2] = base + 1 /\ d[b + 3] = base + 1
  BY <1>5, <1>6, <1>7, <1>8
<1>9. ASSUME base \in Int, forms[k] = "plain" PROVE d[b + 4] = base
  BY <1>5, <1>6, <1>7, <1>8, <1>9
<1>10. ASSUME base \in Int, forms[k] # "plain", forms[k] \in EntryForms
       PROVE  d[b + 4] = base + 2 /\ d[b + 5] = base + 1
  <2>1. src[b + 4] = Opening /\ src[b + 5] = Closing /\ b + 5 <= e[k]
    BY <1>1, <1>6, <1>10 DEF EntryForms
  <2>2. d[b + 4] = base + 2
    BY <1>5, <1>7, <1>8, <1>10, <2>1
  <2>3. 4 \in 1 .. 5 /\ b + 4 + 1 = b + 5
    BY <1>1
  <2>4. d[b + 5] = d[b + 4] + Nesting(src[b + 5])
    BY <1>4, <2>1, <2>3
  <2> QED
    BY <1>5, <1>10, <2>1, <2>2, <2>4
<1>11. ASSUME base \in Int, forms[k] = "nested" PROVE d[b + 6] = base
  <2>1. src[b + 6] = Closing /\ b + 6 <= e[k] /\ d[b + 5] = base + 1
    BY <1>1, <1>6, <1>10, <1>11 DEF EntryForms
  <2>2. 5 \in 1 .. 5 /\ b + 5 + 1 = b + 6
    BY <1>1
  <2>3. d[b + 6] = d[b + 5] + Nesting(src[b + 6])
    BY <1>4, <2>1, <2>2
  <2> QED
    BY <1>5, <1>11, <2>1, <2>3
<1>12. ASSUME base \in Int, k < n PROVE d[e[k] + 1] = d[e[k]]
  <2>1. k + 1 \in 1 .. n /\ (k + 1) - 1 = k
    BY <1>0, <1>12
  <2>2. src[e[k] + 1] = "@"
    BY <2>1 DEF Laid
  <2>3. e[k] + 4 <= e[k + 1] /\ e[k + 1] <= Len(src) /\ e[k + 1] \in Nat
    <3>1. k + 1 \in 0 .. n /\ k + 1 <= n
      BY <1>0, <2>1
    <3> QED
      BY <1>0, <2>1, <3>1, EndsGrow
  <2>4. e[k] + 1 \in open .. Len(src) /\ (e[k] + 1) - 1 = e[k]
    <3>1. e[k] + 1 <= Len(src) /\ e[m - 1] + 2 <= e[k] + 1 /\ e[k] \in Nat /\ e[m - 1] \in Nat
      <4>1. Len(src) \in Nat
        BY <1>0
      <4>2. e[k] \in Nat /\ e[m - 1] \in Nat /\ b \in Nat /\ e[m - 1] <= b /\ b + 4 <= e[k]
        BY <1>1
      <4>3. e[k] + 1 <= Len(src)
        BY <2>3, <4>1, <4>2
      <4> QED
        BY <4>2, <4>3
    <3>2. Len(src) \in Nat
      BY <1>0
    <3> QED
      BY <3>1, <3>2
  <2>5. d[e[k] + 1] = d[e[k]] + Nesting(src[e[k] + 1])
    BY <1>3, <2>4
  <2>6. d[e[k]] \in Int
    <3>1. forms[k] \in EntryForms
      BY <1>0 DEF Laid
    <3>2. CASE forms[k] = "plain"
      BY <1>6, <1>9, <1>12, <3>2
    <3>3. CASE forms[k] = "nested"
      BY <1>6, <1>11, <1>12, <3>3
    <3>4. CASE forms[k] = "unclosed"
      BY <1>6, <1>10, <1>12, <3>1, <3>4
    <3> QED
      BY <3>1, <3>2, <3>3, <3>4 DEF EntryForms
  <2> QED
    BY <1>5, <2>2, <2>5, <2>6
<1>13. forms[k] \in EntryForms
  BY <1>0 DEF Laid
<1> QED
  BY <1>8, <1>9, <1>10, <1>11, <1>12, <1>13 DEF d, b
\* The entries m to k are closed.
AllClosed(forms, m, k) == \A i \in m .. k : forms[i] # "unclosed"

LEMMA OneMoreClosed ==
  ASSUME NEW forms, NEW m \in Nat, NEW k \in Nat, m <= k
  PROVE  AllClosed(forms, m, k) <=> AllClosed(forms, m, k - 1) /\ forms[k] # "unclosed"
<1>1. \A i : i \in m .. k <=> (i \in m .. k - 1 \/ i = k)
  OBVIOUS
<1> QED
  BY <1>1 DEF AllClosed

\* The depth at the end of an entry.
LEMMA EntryEnd ==
  ASSUME NEW src, NEW forms, NEW n, NEW e, Laid(src, forms, n, e), n <= Len(Keys),
         NEW m \in 1 .. n, NEW k \in m .. n
  PROVE  LET d == Depth(src, e[m - 1] + 2)
             base == d[e[k - 1] + 1] IN
         base \in Int => d[e[k]] = IF forms[k] = "unclosed" THEN base + 1 ELSE base
<1> DEFINE d == Depth(src, e[m - 1] + 2)
           b == e[k - 1]
           base == d[b + 1]
<1>1. /\ forms[k] \in EntryForms
      /\ forms[k] = "plain" => e[k] = b + 4
      /\ forms[k] = "nested" => e[k] = b + 6
      /\ forms[k] = "unclosed" => e[k] = b + 5
  <2>1. k \in 1 .. n /\ n \in Nat
    BY EndsGrow
  <2> QED
    BY <2>1 DEF Laid
<1>2. base \in Int =>
        /\ forms[k] = "plain" => d[b + 4] = base
        /\ forms[k] = "nested" => d[b + 6] = base
        /\ forms[k] = "unclosed" => d[b + 5] = base + 1
  BY EntryDepth
<1> HIDE DEF d, b
<1>3. base \in Int => d[e[k]] = IF forms[k] = "unclosed" THEN base + 1 ELSE base
  BY <1>1, <1>2 DEF EntryForms
<1> QED
  BY <1>3 DEF d, b

\* In front of the entry k as many braces are open as entries from m on are
\* not closed.
LEMMA Levels ==
  ASSUME NEW src, NEW forms, NEW n, NEW e, Laid(src, forms, n, e), n <= Len(Keys),
         NEW m \in 1 .. n
  PROVE  \A k \in m .. n :
           LET base == Depth(src, e[m - 1] + 2)[e[k - 1] + 1] IN
             base \in Nat /\ (base = 0 <=> AllClosed(forms, m, k - 1))
<1> DEFINE d == Depth(src, e[m - 1] + 2)
           Level(k) == d[e[k - 1] + 1] \in Nat /\ (d[e[k - 1] + 1] = 0 <=> AllClosed(forms, m, k - 1))
           G == {k \in 0 .. n : k >= m => Level(k)}
<1>0. n \in Nat /\ Len(src) \in Nat /\ e[n] = Len(src) /\ m \in Nat /\ m >= 1
  BY EndsGrow
<1>1. Level(m)
  <2>1. e[m - 1] \in Nat /\ e[m - 1] + 4 <= e[m] /\ e[m] <= e[n] /\ e[m] \in Nat
    <3>1. m \in 0 .. n /\ n \in 0 .. n /\ m <= n
      BY <1>0
    <3> QED
      BY <3>1, EndsGrow
  <2>2. /\ e[m - 1] + 2 \in Nat \ {0} /\ e[m - 1] + 2 <= Len(src)
        /\ (e[m - 1] + 2) - 1 = e[m - 1] + 1
    <3>1. e[m - 1] \in Nat /\ e[m] \in Nat /\ e[m - 1] + 4 <= e[m] /\ e[m] <= e[n]
      BY <2>1, Zenon
    <3>2. Len(src) \in Nat /\ e[m] <= Len(src)
      BY <1>0, <3>1, Zenon
    <3> QED
      BY <3>1, <3>2, BraceInside, Zenon
  <2>3. d[e[m - 1] + 1] = 0
    BY <1>0, <2>2, DepthUnfold
  <2> HIDE DEF d
  <2>4. AllClosed(forms, m, m - 1)
    BY <1>0 DEF AllClosed
  <2> QED
    BY <2>3, <2>4
<1>2. ASSUME NEW k \in m .. n - 1, Level(k) PROVE Level(k + 1)
  <2>0. k \in m .. n /\ (k + 1) - 1 = k /\ k < n /\ k \in Nat /\ m <= k
    BY <1>0
  <2>1. d[e[k]] = IF forms[k] = "unclosed" THEN d[e[k - 1] + 1] + 1 ELSE d[e[k - 1] + 1]
    BY <1>2, <2>0, EntryEnd
  <2>2. d[e[k] + 1] = d[e[k]]
    BY <1>2, <2>0, EntryDepth
  <2> HIDE DEF d
  <2>3. AllClosed(forms, m, k) <=> AllClosed(forms, m, k - 1) /\ forms[k] # "unclosed"
    BY <1>0, <2>0, OneMoreClosed
  <2>4. d[e[k] + 1] \in Nat /\ (d[e[k] + 1] = 0 <=> AllClosed(forms, m, k))
    <3>1. CASE forms[k] = "unclosed"
      BY <1>2, <2>1, <2>2, <2>3, <3>1
    <3>2. CASE forms[k] # "unclosed"
      BY <1>2, <2>1, <2>2, <2>3, <3>2
    <3> QED
      BY <3>1, <3>2
  <2> QED
    BY <2>0, <2>4
<1> HIDE DEF Level
<1>3. ASSUME NEW k \in 0 .. n - 1, k \in G PROVE k + 1 \in G
  <2>1. CASE k >= m
    <3>1. k \in m .. n - 1 /\ k + 1 \in 0 .. n
      BY <1>0, <2>1
    <3>2. Level(k)
      BY <1>3, <2>1
    <3>3. Level(k + 1)
      BY <1>2, <3>1, <3>2
    <3> QED
      BY <3>1, <3>3
  <2>2. CASE ~(k >= m)
    <3>1. k + 1 >= m => k + 1 = m
      BY <1>0, <2>2
    <3> QED
      BY <1>0, <1>1, <3>1
  <2> QED
    BY <2>1, <2>2
<1>4. 0 \in G /\ G \in SUBSET (0 .. n)
  BY <1>0
<1>5. \A k \in 0 .. n : k \in G
  <2> HIDE DEF G
  <2> QED
    BY <1>0, <1>3, <1>4, UpwardInduction
<1>6. \A k \in m .. n : Level(k)
  <2>1. \A k \in m .. n : k \in 0 .. n /\ k >= m
    BY <1>0
  <2> QED
    BY <1>5, <2>1
<1> QED
  BY <1>6 DEF Level, d

\* The ends of the entries up to which all are closed from m on.
ClosedEnds(forms, m, n, e) == {e[k] : k \in {i \in m .. n : AllClosed(forms, m, i)}}

\* The braces opened by the entry m are balanced again there, and nowhere else.
LEMMA BalancedIs ==
  ASSUME NEW src, NEW forms, NEW n, NEW e, Laid(src, forms, n, e), n <= Len(Keys),
         NEW m \in 1 .. n
  PROVE  Balanced(src, e[m - 1] + 2) = ClosedEnds(forms, m, n, e)
<1> DEFINE open == e[m - 1] + 2
           d == Depth(src, open)
           B == Balanced(src, open)
<1>0. /\ n \in Nat /\ Len(src) \in Nat /\ e[n] = Len(src) /\ m \in Nat /\ m >= 1
      /\ m - 1 \in 0 .. n /\ n \in 0 .. n
  BY EndsGrow
<1>1. /\ \A k \in 0 .. n : e[k] \in Nat
      /\ \A k \in 1 .. n : e[k - 1] \in Nat /\ e[k - 1] + 4 <= e[k]
      /\ \A i, k \in 0 .. n : i <= k => e[i] <= e[k]
  BY EndsGrow
<1>2. \A j : j \in B <=> j \in open .. Len(src) /\ src[j] = Closing /\ d[j] = 0
  BY DEF Balanced
<1>3. \A k \in m .. n :
        d[e[k - 1] + 1] \in Nat /\ (d[e[k - 1] + 1] = 0 <=> AllClosed(forms, m, k - 1))
  BY Levels
<1>4. ASSUME NEW k \in m .. n
      PROVE  LET b == e[k - 1]
                 base == d[b + 1] IN
             /\ d[b + 2] = base + 1 /\ d[b + 3] = base + 1
             /\ forms[k] = "plain" => d[b + 4] = base
             /\ forms[k] = "nested" =>
                  d[b + 4] = base + 2 /\ d[b + 5] = base + 1 /\ d[b + 6] = base
             /\ forms[k] = "unclosed" => d[b + 4] = base + 2 /\ d[b + 5] = base + 1
  <2>1. d[e[k - 1] + 1] \in Int
    BY <1>3
  <2> QED
    BY <2>1, EntryDepth
<1> HIDE DEF d, B
<1>5. ASSUME NEW k \in m .. n
      PROVE  LET b == e[k - 1] IN
             /\ forms[k] \in EntryForms
             /\ src[b + 1] = "@" /\ src[b + 2] = Opening /\ src[b + 3] = Keys[k]
             /\ forms[k] = "plain" => e[k] = b + 4 /\ src[b + 4] = Closing
             /\ forms[k] = "nested" =>
                  /\ e[k] = b + 6
                  /\ src[b + 4] = Opening /\ src[b + 5] = Closing /\ src[b + 6] = Closing
             /\ forms[k] = "unclosed" =>
                  e[k] = b + 5 /\ src[b + 4] = Opening /\ src[b + 5] = Closing
  <2>1. k \in 1 .. n
    BY <1>0
  <2> QED
    BY <2>1 DEF Laid
<1>6. ASSUME NEW k \in m .. n, AllClosed(forms, m, k) PROVE e[k] \in B
  <2>0. k \in 1 .. n /\ k \in 0 .. n /\ k \in Nat /\ m <= k /\ m - 1 <= k - 1 /\ k - 1 \in 0 .. n
    BY <1>0
  <2>1. AllClosed(forms, m, k - 1) /\ forms[k] # "unclosed"
    BY <1>0, <1>6, <2>0, OneMoreClosed
  <2>2. d[e[k - 1] + 1] = 0
    BY <1>3, <2>1
  <2>3. e[k] \in Nat /\ e[m - 1] \in Nat /\ e[m - 1] <= e[k - 1] /\ e[k - 1] + 4 <= e[k]
        /\ e[k - 1] \in Nat
    <3>1. e[k] \in Nat /\ e[m - 1] \in Nat /\ e[k - 1] \in Nat /\ e[k - 1] + 4 <= e[k]
      BY <1>0, <1>1, <2>0
    <3>2. e[m - 1] <= e[k - 1]
      BY <1>0, <1>1, <2>0
    <3> QED
      BY <3>1, <3>2
  <2>4. e[k] <= Len(src)
    BY <1>0, <1>1, <2>0
  <2>5. e[k] \in open .. Len(src)
    BY <1>0, <2>3, <2>4
  <2>6. d[e[k]] = 0 /\ src[e[k]] = Closing
    <3>1. CASE forms[k] = "plain"
      BY <1>4, <1>5, <2>2, <3>1
    <3>2. CASE forms[k] = "nested"
      BY <1>4, <1>5, <2>2, <3>2
    <3> QED
      BY <1>5, <2>1, <3>1, <3>2 DEF EntryForms
  <2> QED
    BY <1>2, <2>5, <2>6
<1>7. ASSUME NEW j \in B PROVE \E k \in m .. n : AllClosed(forms, m, k) /\ j = e[k]
  <2>1. j \in open .. Len(src) /\ src[j] = Closing /\ d[j] = 0
    BY <1>2
  <2>2. j \in 1 .. Len(src) /\ e[m - 1] < j
    <3>1. e[m - 1] \in Nat
      BY <1>0, <1>1
    <3> QED
      BY <1>0, <2>1, <3>1
  <2>3. PICK k \in 1 .. n : e[k - 1] < j /\ j <= e[k]
    BY <2>2, EntryOf
  <2>4. k >= m
    <3> SUFFICES ASSUME k <= m - 1 PROVE FALSE
      BY <1>0
    <3>1. e[k] <= e[m - 1] /\ e[k] \in Nat /\ e[m - 1] \in Nat
      <4>1. k \in 0 .. n
        BY <1>0
      <4> QED
        BY <1>0, <1>1, <4>1
    <3> QED
      BY <1>0, <2>2, <2>3, <3>1
  <2>5. k \in m .. n /\ k \in Nat /\ m <= k
    BY <1>0, <2>4
  <2> DEFINE b == e[k - 1]
             base == d[b + 1]
  <2>6. b \in Nat /\ base \in Nat /\ (base = 0 <=> AllClosed(forms, m, k - 1))
    BY <1>1, <1>3, <2>3, <2>5
  <2>7. /\ d[b + 2] = base + 1 /\ d[b + 3] = base + 1
        /\ forms[k] = "plain" => d[b + 4] = base
        /\ forms[k] = "nested" =>
             d[b + 4] = base + 2 /\ d[b + 5] = base + 1 /\ d[b + 6] = base
        /\ forms[k] = "unclosed" => d[b + 4] = base + 2 /\ d[b + 5] = base + 1
    BY <1>4, <2>5
  <2>8. /\ forms[k] \in EntryForms
        /\ src[b + 1] = "@"
        /\ forms[k] = "plain" => e[k] = b + 4
        /\ forms[k] = "nested" => e[k] = b + 6
        /\ forms[k] = "unclosed" => e[k] = b + 5
    BY <1>5, <2>5
  <2>9. j # b + 1
    BY <2>1, <2>8, Braces
  <2> HIDE DEF b
  <2>10. j \in Nat /\ b < j /\ j <= e[k]
    BY <1>0, <2>2, <2>3 DEF b
  <2> HIDE DEF base
  <2>11. forms[k] # "unclosed" /\ base = 0 /\ j = e[k]
    <3>1. CASE forms[k] = "plain"
      <4>1. j = b + 2 \/ j = b + 3 \/ j = b + 4
        BY <2>6, <2>8, <2>9, <2>10, <3>1
      <4> QED
        BY <2>1, <2>6, <2>7, <2>8, <3>1, <4>1
    <3>2. CASE forms[k] = "nested"
      <4>1. j = b + 2 \/ j = b + 3 \/ j = b + 4 \/ j = b + 5 \/ j = b + 6
        BY <2>6, <2>8, <2>9, <2>10, <3>2
      <4> QED
        BY <2>1, <2>6, <2>7, <2>8, <3>2, <4>1
    <3>3. CASE forms[k] = "unclosed"
      <4>1. j = b + 2 \/ j = b + 3 \/ j = b + 4 \/ j = b + 5
        BY <2>6, <2>8, <2>9, <2>10, <3>3
      <4> QED
        BY <2>1, <2>6, <2>7, <3>3, <4>1
    <3> QED
      BY <2>8, <3>1, <3>2, <3>3 DEF EntryForms
  <2>12. AllClosed(forms, m, k)
    BY <1>0, <2>5, <2>6, <2>11, OneMoreClosed
  <2> QED
    BY <2>5, <2>11, <2>12
<1>8. B = {e[k] : k \in {i \in m .. n : AllClosed(forms, m, i)}}
  BY <1>6, <1>7
<1> QED
  BY <1>8 DEF B, ClosedEnds

LEMMA GreatestElement ==
  ASSUME NEW n \in Nat, NEW T \in SUBSET (0 .. n), T # {}
  PROVE  \E m \in T : \A j \in T : m >= j
<1> DEFINE U == {n - j : j \in T}
<1>1. U \in SUBSET Nat /\ U # {}
  <2>1. \A j \in T : n - j \in Nat
    OBVIOUS
  <2> QED
    BY <2>1
<1>2. PICK x \in U : \A y \in U : x <= y
  <2> HIDE DEF U
  <2> QED
    BY <1>1, LeastElement
<1>3. PICK m \in T : x = n - m
  BY <1>2
<1>4. \A j \in T : m >= j
  <2> SUFFICES ASSUME NEW j \in T PROVE m >= j
    OBVIOUS
  <2>1. n - m <= n - j
    BY <1>2, <1>3
  <2>2. m \in 0 .. n /\ j \in 0 .. n
    OBVIOUS
  <2> QED
    BY <2>1, <2>2
<1> QED
  BY <1>4

LEMMA IndexIs ==
  ASSUME NEW src, Len(src) \in Nat, NEW token, NEW i \in Nat
  PROVE  /\ IndexFrom(src, token, i) = 0 \/ IndexFrom(src, token, i) \in i .. Len(src)
         /\ i > Len(src) => IndexFrom(src, token, i) = 0
         /\ i <= Len(src) /\ src[i] = token => IndexFrom(src, token, i) = i
         /\ i + 1 <= Len(src) /\ src[i] # token /\ src[i + 1] = token
              => IndexFrom(src, token, i) = i + 1
<1> DEFINE at == {j \in i .. Len(src) : src[j] = token}
<1>1. IndexFrom(src, token, i) = IF at = {} THEN 0 ELSE Min(at)
  BY DEF IndexFrom
<1>2. at \in SUBSET Nat /\ at \in SUBSET Int /\ at \in SUBSET (i .. Len(src))
  OBVIOUS
<1>3. ASSUME NEW x \in at, \A y \in at : x <= y PROVE IndexFrom(src, token, i) = x
  <2>1. at # {}
    BY <1>3
  <2> HIDE DEF at
  <2> QED
    BY <1>1, <1>2, <1>3, <2>1, MinIs
<1>4. ASSUME at # {} PROVE IndexFrom(src, token, i) \in i .. Len(src)
  <2> HIDE DEF at
  <2>1. PICK x \in at : \A y \in at : x <= y
    BY <1>2, <1>4, LeastElement
  <2>2. IndexFrom(src, token, i) = x
    BY <1>3, <2>1
  <2> QED
    BY <1>2, <2>1, <2>2
<1>5. i > Len(src) => at = {}
  OBVIOUS
<1>6. ASSUME i <= Len(src), src[i] = token PROVE IndexFrom(src, token, i) = i
  <2>1. i \in at /\ \A y \in at : i <= y
    BY <1>6
  <2> HIDE DEF at
  <2> QED
    BY <1>3, <2>1
<1>7. ASSUME i + 1 <= Len(src), src[i] # token, src[i + 1] = token
      PROVE  IndexFrom(src, token, i) = i + 1
  <2>1. i + 1 \in at /\ \A y \in at : i + 1 <= y
    BY <1>7
  <2> HIDE DEF at
  <2> QED
    BY <1>3, <2>1
<1> HIDE DEF at
<1> QED
  BY <1>1, <1>4, <1>5, <1>6, <1>7

LEMMA BlockEndIs ==
  ASSUME NEW src, Len(src) \in Nat, NEW open \in Nat
  PROVE  /\ Balanced(src, open) = {} => BlockEnd(src, open) = 0
         /\ \A x \in Balanced(src, open) :
              (\A y \in Balanced(src, open) : x >= y) => BlockEnd(src, open) = x
         /\ BlockEnd(src, open) = 0 \/ BlockEnd(src, open) \in open .. Len(src)
<1> DEFINE ends == Balanced(src, open)
<1>1. ends \in SUBSET (open .. Len(src)) /\ ends \in SUBSET (0 .. Len(src)) /\ ends \in SUBSET Int
  BY DEF Balanced
<1>2. BlockEnd(src, open) = IF ends = {} THEN 0 ELSE Max(ends)
  BY DEF BlockEnd
<1> HIDE DEF ends
<1>3. \A x \in ends : (\A y \in ends : x >= y) => BlockEnd(src, open) = x
  <2> SUFFICES ASSUME NEW x \in ends, \A y \in ends : x >= y PROVE BlockEnd(src, open) = x
    OBVIOUS
  <2> QED
    BY <1>1, <1>2, MaxIs
<1>4. ASSUME ends # {} PROVE BlockEnd(src, open) \in open .. Len(src)
  <2>1. PICK x \in ends : \A y \in ends : x >= y
    BY <1>1, <1>4, GreatestElement
  <2> QED
    BY <1>1, <1>3, <2>1
<1> QED
  BY <1>2, <1>3, <1>4 DEF ends

\* What ParseFrom does at one position.
ParseOne(src, f, i) ==
  LET at == IndexFrom(src, "@", i)
      open == IF at = 0 THEN 0 ELSE IndexFrom(src, Opening, at)
      end == IF open = 0 THEN 0 ELSE BlockEnd(src, open)
  IN IF open = 0 THEN [ok |-> TRUE, keys |-> << >>]
     ELSE IF end = 0 THEN [ok |-> FALSE, keys |-> << >>]
     ELSE [f[end + 1] EXCEPT !.keys = <<src[open + 1]>> \o @]

\* It only looks at positions further on.
LEMMA ParseAhead ==
  ASSUME NEW src, Len(src) \in Nat, NEW i \in 1 .. Len(src) + 1, NEW f, NEW g,
         \A p \in i + 1 .. Len(src) + 1 : f[p] = g[p]
  PROVE  ParseOne(src, f, i) = ParseOne(src, g, i)
<1> DEFINE at == IndexFrom(src, "@", i)
           open == IF at = 0 THEN 0 ELSE IndexFrom(src, Opening, at)
           end == IF open = 0 THEN 0 ELSE BlockEnd(src, open)
<1>1. at = 0 \/ at \in i .. Len(src)
  BY IndexIs
<1>2. open = 0 \/ (at # 0 /\ open \in at .. Len(src))
  <2> HIDE DEF at
  <2>1. CASE at = 0
    BY <2>1
  <2>2. CASE at # 0
    <3>1. at \in Nat
      BY <1>1, <2>2
    <3>2. open = IndexFrom(src, Opening, at)
      BY <2>2
    <3> HIDE DEF open
    <3> QED
      BY <2>2, <3>1, <3>2, IndexIs
  <2> QED
    BY <2>1, <2>2
<1>3. end = 0 \/ (open # 0 /\ end \in open .. Len(src))
  <2> HIDE DEF at, open
  <2>1. CASE open = 0
    BY <2>1
  <2>2. CASE open # 0
    <3>1. open \in Nat
      BY <1>1, <1>2, <2>2
    <3>2. end = BlockEnd(src, open)
      BY <2>2
    <3> HIDE DEF end
    <3> QED
      BY <2>2, <3>1, <3>2, BlockEndIs
  <2> QED
    BY <2>1, <2>2
<1>4. /\ ParseOne(src, f, i) =
           IF open = 0 THEN [ok |-> TRUE, keys |-> << >>]
           ELSE IF end = 0 THEN [ok |-> FALSE, keys |-> << >>]
           ELSE [f[end + 1] EXCEPT !.keys = <<src[open + 1]>> \o @]
      /\ ParseOne(src, g, i) =
           IF open = 0 THEN [ok |-> TRUE, keys |-> << >>]
           ELSE IF end = 0 THEN [ok |-> FALSE, keys |-> << >>]
           ELSE [g[end + 1] EXCEPT !.keys = <<src[open + 1]>> \o @]
  BY DEF ParseOne
<1> HIDE DEF at, open, end
<1>5. CASE open = 0 \/ end = 0
  BY <1>4, <1>5
<1>6. CASE open # 0 /\ end # 0
  <2>1. end + 1 \in i + 1 .. Len(src) + 1
    BY <1>1, <1>2, <1>3, <1>6
  <2>2. f[end + 1] = g[end + 1]
    BY <2>1
  <2>3. ParseOne(src, f, i) = [f[end + 1] EXCEPT !.keys = <<src[open + 1]>> \o @]
    BY <1>4, <1>6, Zenon
  <2>4. ParseOne(src, g, i) = [g[end + 1] EXCEPT !.keys = <<src[open + 1]>> \o @]
    BY <1>4, <1>6, Zenon
  <2> QED
    BY <2>2, <2>3, <2>4, Zenon
<1> QED
  BY <1>5, <1>6

LEMMA ParseExists ==
  ASSUME NEW src, Len(src) \in Nat
  PROVE  \E f : f = [i \in 1 .. Len(src) + 1 |-> ParseOne(src, f, i)]
<1> DEFINE n == Len(src)
           D == 1 .. n + 1
           Solves(f, m) == f = [i \in D |-> f[i]] /\ \A i \in m + 1 .. n + 1 : f[i] = ParseOne(src, f, i)
           G == {m \in 0 .. n : \E f : Solves(f, m)}
<1>0. n \in Nat
  OBVIOUS
<1> HIDE DEF n
<1>1. n \in G
  <2> DEFINE none == [i \in D |-> 0]
             last == ParseOne(src, none, n + 1)
             f == [i \in D |-> last]
  <2>1. ParseOne(src, f, n + 1) = last
    <3> HIDE DEF f, none
    <3>1. n + 1 \in 1 .. n + 1 /\ \A p \in (n + 1) + 1 .. n + 1 : f[p] = none[p]
      BY <1>0
    <3> QED
      BY <1>0, <3>1, ParseAhead DEF n
  <2> HIDE DEF last
  <2>2. n + 1 \in D /\ \A i \in n + 1 .. n + 1 : i = n + 1
    BY <1>0
  <2>3. f = [i \in D |-> f[i]] /\ f[n + 1] = last
    BY <2>2
  <2> HIDE DEF f, D
  <2>4. Solves(f, n)
    BY <2>1, <2>2, <2>3
  <2> QED
    BY <1>0, <2>4
<1>2. ASSUME NEW m \in 0 .. n - 1, m + 1 \in G PROVE m \in G
  <2>0. m + 1 \in D /\ m \in 0 .. n
    BY <1>0
  <2>1. PICK f : Solves(f, m + 1)
    BY <1>2
  <2> DEFINE new == ParseOne(src, f, m + 1)
             g == [i \in D |-> IF i = m + 1 THEN new ELSE f[i]]
  <2>2. g = [i \in D |-> g[i]] /\ g[m + 1] = new /\ \A i \in D : i # m + 1 => g[i] = f[i]
    <3> HIDE DEF new, D
    <3> QED
      BY <2>0
  <2> HIDE DEF g
  <2>3. ASSUME NEW i \in m + 1 .. n + 1 PROVE g[i] = ParseOne(src, g, i)
    <3>1. \A p \in i + 1 .. n + 1 : g[p] = f[p]
      <4>1. \A p \in i + 1 .. n + 1 : p \in D /\ p # m + 1
        BY <1>0, <2>0
      <4> QED
        BY <2>2, <4>1
    <3>2. i \in 1 .. n + 1
      BY <1>0
    <3>3. ParseOne(src, g, i) = ParseOne(src, f, i)
      BY <1>0, <3>1, <3>2, ParseAhead DEF n
    <3>4. CASE i = m + 1
      BY <2>2, <3>3, <3>4
    <3>5. CASE i # m + 1
      <4>1. i \in (m + 1) + 1 .. n + 1 /\ i \in D
        BY <1>0, <2>0, <3>5
      <4> QED
        BY <2>1, <2>2, <3>3, <3>5, <4>1
    <3> QED
      BY <3>4, <3>5
  <2>4. Solves(g, m)
    BY <2>2, <2>3
  <2> HIDE DEF Solves
  <2> QED
    BY <2>0, <2>4
<1>3. 0 \in G
  <2>1. G \in SUBSET (0 .. n)
    OBVIOUS
  <2> HIDE DEF G
  <2>2. G = 0 .. n
    BY <1>0, <1>1, <1>2, <2>1, DownwardInduction
  <2> QED
    BY <1>0, <2>2
<1>4. PICK f : Solves(f, 0)
  BY <1>3
<1>5. f = [i \in D |-> ParseOne(src, f, i)]
  BY <1>0, <1>4
<1> QED
  BY <1>5 DEF n

LEMMA ParseUnfold ==
  ASSUME NEW src, Len(src) \in Nat
  PROVE  \A i \in 1 .. Len(src) + 1 : ParseFrom(src)[i] = ParseOne(src, ParseFrom(src), i)
<1> DEFINE p == ParseFrom(src)
<1>1. PICK f : f = [i \in 1 .. Len(src) + 1 |-> ParseOne(src, f, i)]
  BY ParseExists
<1>2. p = [i \in 1 .. Len(src) + 1 |-> ParseOne(src, p, i)]
  BY <1>1, Zenon DEF ParseFrom, ParseOne
<1> HIDE DEF p
<1>3. \A i \in 1 .. Len(src) + 1 : p[i] = ParseOne(src, p, i)
  BY <1>2
<1> QED
  BY <1>3 DEF p
\* What the keys become when an entry is put in front.
Headed(parsed, key) == [parsed EXCEPT !.keys = <<key>> \o @]

LEMMA HeadedIs ==
  ASSUME NEW key
  PROVE  /\ Headed([ok |-> TRUE, keys |-> << >>], key).ok = TRUE
         /\ Headed([ok |-> TRUE, keys |-> << >>], key).keys = <<key>>
         /\ Headed([ok |-> FALSE, keys |-> << >>], key).ok = FALSE
<1> DEFINE one == <<key>> \o << >>
           r == [ok |-> TRUE, keys |-> << >>]
           q == [ok |-> FALSE, keys |-> << >>]
<1>1. one = <<key>>
  OBVIOUS
<1>2. r.keys = << >> /\ q.keys = << >>
  OBVIOUS
<1>3. /\ \A y : [r EXCEPT !.keys = y].ok = TRUE /\ [r EXCEPT !.keys = y].keys = y
      /\ \A y : [q EXCEPT !.keys = y].ok = FALSE
  OBVIOUS
<1>4. /\ Headed(r, key) = [r EXCEPT !.keys = <<key>> \o r.keys]
      /\ Headed(q, key) = [q EXCEPT !.keys = <<key>> \o q.keys]
  <2> HIDE DEF r, q
  <2> QED
    BY Zenon DEF Headed
<1> HIDE DEF r, q
<1>5. Headed(r, key) = [r EXCEPT !.keys = one] /\ Headed(q, key) = [q EXCEPT !.keys = one]
  BY <1>2, <1>4, Zenon
<1> HIDE DEF one
<1>6. /\ Headed(r, key).ok = TRUE /\ Headed(r, key).keys = one /\ Headed(q, key).ok = FALSE
  BY <1>3, <1>5, Zenon
<1> QED
  BY <1>1, <1>6, Zenon DEF r, q

\* Where the parser stops in front of an entry it finds the entry's braces.
LEMMA AtEntry ==
  ASSUME NEW src, NEW forms, NEW n, NEW e, Laid(src, forms, n, e), NEW m \in 1 .. n, NEW f
  PROVE  LET b == e[m - 1]
             end == BlockEnd(src, b + 2) IN
         /\ b + 1 \in 1 .. Len(src) + 1
         /\ ParseOne(src, f, b + 1) =
              IF end = 0 THEN [ok |-> FALSE, keys |-> << >>]
              ELSE Headed(f[end + 1], Keys[m])
<1> DEFINE b == e[m - 1]
<1>1. /\ b \in Nat /\ e[m] \in Nat /\ b + 4 <= e[m] /\ e[m] <= Len(src) /\ Len(src) \in Nat
  <2>1. n \in Nat /\ m \in 0 .. n /\ n \in 0 .. n /\ m <= n
    BY EndsGrow
  <2> QED
    BY <2>1, EndsGrow
<1>2. src[b + 1] = "@" /\ src[b + 2] = Opening /\ src[b + 3] = Keys[m]
  BY DEF Laid
<1> HIDE DEF b
<1>3. IndexFrom(src, "@", b + 1) = b + 1
  <2>1. b + 1 \in Nat /\ b + 1 <= Len(src)
    BY <1>1
  <2> QED
    BY <1>1, <1>2, <2>1, IndexIs
<1>4. IndexFrom(src, Opening, b + 1) = b + 2
  <2>1. b + 1 \in Nat /\ (b + 1) + 1 <= Len(src) /\ (b + 1) + 1 = b + 2
    BY <1>1
  <2>2. src[b + 1] # Opening /\ src[(b + 1) + 1] = Opening
    BY <1>2, <2>1, Braces
  <2> QED
    BY <1>1, <2>1, <2>2, IndexIs
<1>5. b + 1 # 0 /\ b + 2 # 0 /\ (b + 2) + 1 = b + 3 /\ b + 1 \in 1 .. Len(src) + 1
  BY <1>1
<1> DEFINE end == BlockEnd(src, b + 2)
<1>6. ParseOne(src, f, b + 1) =
        IF end = 0 THEN [ok |-> FALSE, keys |-> << >>]
        ELSE Headed(f[end + 1], src[(b + 2) + 1])
  BY <1>3, <1>4, <1>5, Zenon DEF ParseOne, Headed
<1>7. src[(b + 2) + 1] = Keys[m]
  BY <1>2, <1>5
<1>8. ParseOne(src, f, b + 1) =
        IF end = 0 THEN [ok |-> FALSE, keys |-> << >>]
        ELSE Headed(f[end + 1], Keys[m])
  BY <1>6, <1>7, Zenon
<1> QED
  BY <1>5, <1>8, Zenon DEF b, end

\* What the parser makes of a file.
LEMMA Parsed ==
  ASSUME NEW src, NEW forms, NEW n, NEW e, Laid(src, forms, n, e), n <= Len(Keys)
  PROVE  /\ n = 0 => ParseBibTeX(src).ok /\ ParseBibTeX(src).keys = << >>
         /\ n > 0 /\ AllClosed(forms, 1, n) =>
              ParseBibTeX(src).ok /\ ParseBibTeX(src).keys = <<Keys[1]>>
         /\ ~AllClosed(forms, 1, n) => ~ParseBibTeX(src).ok
<1> DEFINE p == ParseFrom(src)
<1>0. /\ n \in Nat /\ Len(src) \in Nat /\ e[0] = 0 /\ e[n] = Len(src)
      /\ \A k \in 0 .. n : e[k] \in Nat
      /\ \A k \in 1 .. n : e[k - 1] \in Nat /\ e[k - 1] + 4 <= e[k]
      /\ \A i, k \in 0 .. n : i <= k => e[i] <= e[k]
  BY EndsGrow
<1>1. \A i \in 1 .. Len(src) + 1 : p[i] = ParseOne(src, p, i)
  BY <1>0, ParseUnfold
<1>2. ParseBibTeX(src) = p[1]
  BY DEF ParseBibTeX
<1> HIDE DEF p
<1>3. p[Len(src) + 1] = [ok |-> TRUE, keys |-> << >>]
  <2>1. Len(src) + 1 \in 1 .. Len(src) + 1 /\ Len(src) + 1 \in Nat /\ Len(src) + 1 > Len(src)
    BY <1>0
  <2>2. IndexFrom(src, "@", Len(src) + 1) = 0
    BY <1>0, <2>1, IndexIs
  <2>3. ParseOne(src, p, Len(src) + 1) = [ok |-> TRUE, keys |-> << >>]
    BY <2>2, Zenon DEF ParseOne
  <2> QED
    BY <1>1, <2>1, <2>3, Zenon
<1>4. ASSUME NEW m \in 1 .. n, forms[m] = "unclosed"
      PROVE  p[e[m - 1] + 1] = [ok |-> FALSE, keys |-> << >>]
  <2>1. Balanced(src, e[m - 1] + 2) = {}
    <3>1. Balanced(src, e[m - 1] + 2) = ClosedEnds(forms, m, n, e)
      BY BalancedIs
    <3>2. \A i \in m .. n : ~AllClosed(forms, m, i)
      <4>1. \A i \in m .. n : m \in m .. i
        BY <1>0
      <4> QED
        BY <1>4, <4>1 DEF AllClosed
    <3> QED
      BY <3>1, <3>2 DEF ClosedEnds
  <2>2. e[m - 1] + 2 \in Nat
    BY <1>0
  <2>3. BlockEnd(src, e[m - 1] + 2) = 0
    BY <1>0, <2>1, <2>2, BlockEndIs
  <2>4. /\ e[m - 1] + 1 \in 1 .. Len(src) + 1
        /\ ParseOne(src, p, e[m - 1] + 1) = [ok |-> FALSE, keys |-> << >>]
    <3>1. ParseOne(src, p, e[m - 1] + 1) =
            IF BlockEnd(src, e[m - 1] + 2) = 0 THEN [ok |-> FALSE, keys |-> << >>]
            ELSE Headed(p[BlockEnd(src, e[m - 1] + 2) + 1], Keys[m])
      BY AtEntry
    <3>2. e[m - 1] + 1 \in 1 .. Len(src) + 1
      BY AtEntry
    <3> QED
      BY <2>3, <3>1, <3>2, Zenon
  <2> QED
    BY <1>1, <2>4
\* The first block goes to the end of the last entry in a row of closed ones.
<1>5. ASSUME NEW k \in 1 .. n, AllClosed(forms, 1, k), k < n => forms[k + 1] = "unclosed"
      PROVE  p[1] = Headed(p[e[k] + 1], Keys[1])
  <2>m. PICK m \in 1 .. n : m = 1
    BY <1>0
  <2>0. e[m - 1] = 0 /\ k \in 0 .. n /\ k \in Nat
    BY <1>0, <2>m
  <2> DEFINE B == Balanced(src, e[m - 1] + 2)
  <2>1. B = {e[i] : i \in {j \in m .. n : AllClosed(forms, m, j)}}
    <3>1. B = ClosedEnds(forms, m, n, e)
      BY BalancedIs
    <3> QED
      BY <3>1 DEF ClosedEnds
  <2> HIDE DEF B
  <2>2. e[k] \in B
    BY <1>5, <2>1, <2>m
  <2>3. ASSUME NEW y \in B PROVE e[k] >= y
    <3>1. PICK i \in 1 .. n : AllClosed(forms, 1, i) /\ y = e[i]
      BY <2>1, <2>m
    <3>2. i <= k
      <4> SUFFICES ASSUME i > k PROVE FALSE
        BY <2>0
      <4>1. k < n /\ k + 1 \in 1 .. i
        BY <1>0, <2>0
      <4> QED
        BY <1>5, <3>1, <4>1 DEF AllClosed
    <3>3. i \in 0 .. n
      BY <1>0
    <3>4. e[i] <= e[k] /\ e[i] \in Nat /\ e[k] \in Nat
      BY <1>0, <2>0, <3>2, <3>3
    <3> QED
      BY <3>1, <3>4
  <2>4. e[m - 1] + 2 \in Nat
    BY <2>0
  <2>5. BlockEnd(src, e[m - 1] + 2) = e[k]
    <3>1. \A y \in B : e[k] >= y
      BY <2>3
    <3> QED
      BY <1>0, <2>2, <2>4, <3>1, BlockEndIs DEF B
  <2>6. e[k] # 0
    <3>1. e[k - 1] \in Nat /\ e[k - 1] + 4 <= e[k]
      BY <1>0
    <3> QED
      BY <3>1
  <2>7. ParseOne(src, p, e[m - 1] + 1) =
             IF BlockEnd(src, e[m - 1] + 2) = 0 THEN [ok |-> FALSE, keys |-> << >>]
             ELSE Headed(p[BlockEnd(src, e[m - 1] + 2) + 1], Keys[m])
    BY AtEntry
  <2>8. e[m - 1] + 1 = 1 /\ 1 \in 1 .. Len(src) + 1
    BY <1>0, <2>0
  <2>9. ParseOne(src, p, e[m - 1] + 1) = Headed(p[e[k] + 1], Keys[1])
    BY <2>5, <2>6, <2>7, <2>m
  <2> QED
    BY <1>1, <2>8, <2>9
<1>6. n = 0 => ParseBibTeX(src).ok /\ ParseBibTeX(src).keys = << >>
  BY <1>0, <1>2, <1>3
<1>7. ASSUME n > 0, AllClosed(forms, 1, n)
      PROVE  ParseBibTeX(src).ok /\ ParseBibTeX(src).keys = <<Keys[1]>>
  <2>1. n \in 1 .. n /\ ~(n < n)
    BY <1>0, <1>7
  <2>2. p[1] = Headed(p[e[n] + 1], Keys[1])
    BY <1>5, <1>7, <2>1
  <2>3. p[e[n] + 1] = [ok |-> TRUE, keys |-> << >>]
    BY <1>0, <1>3
  <2>4. p[1].ok = TRUE /\ p[1].keys = <<Keys[1]>>
    BY <2>2, <2>3, HeadedIs
  <2> QED
    BY <1>2, <2>4
<1>8. ASSUME ~AllClosed(forms, 1, n) PROVE ~ParseBibTeX(src).ok
  <2> DEFINE T == {k \in 1 .. n : forms[k] = "unclosed"}
  <2>1. T \in SUBSET Nat /\ T # {}
    BY <1>8 DEF AllClosed
  <2>2. PICK u \in T : \A k \in T : u <= k
    <3> HIDE DEF T
    <3> QED
      BY <2>1, LeastElement
  <2>3. u \in 1 .. n /\ forms[u] = "unclosed" /\ u \in Nat
    OBVIOUS
  <2>4. p[e[u - 1] + 1] = [ok |-> FALSE, keys |-> << >>]
    BY <1>4, <2>3
  <2>5. CASE u = 1
    <3>1. e[u - 1] + 1 = 1
      BY <1>0, <2>5
    <3> QED
      BY <1>2, <2>4, <3>1
  <2>6. CASE u # 1
    <3>1. u - 1 \in 1 .. n /\ u - 1 < n /\ (u - 1) + 1 = u
      BY <1>0, <2>3, <2>6
    <3>2. AllClosed(forms, 1, u - 1)
      <4> SUFFICES ASSUME NEW i \in 1 .. u - 1, forms[i] = "unclosed" PROVE FALSE
        BY DEF AllClosed
      <4>1. i \in T /\ ~(u <= i)
        BY <1>0, <2>3
      <4> QED
        BY <2>2, <4>1
    <3>3. p[1] = Headed(p[e[u - 1] + 1], Keys[1])
      BY <1>5, <2>3, <3>1, <3>2
    <3>4. p[1].ok = FALSE
      BY <2>4, <3>3, HeadedIs
    <3> QED
      BY <1>2, <3>4
  <2> QED
    BY <2>5, <2>6
<1> QED
  BY <1>6, <1>7, <1>8

\* Of a seeds file with any number of entries, each of any of the forms, the
\* parser makes one seed if all are closed, and an error if one is not.
THEOREM AnyFirstSeedOnly == HelpersSpec => []FirstSeedOnly
<1>1. HelpersInit => FirstSeedOnly
  <2> SUFFICES ASSUME HelpersInit, input.kind = "seeds" PROVE FirstSeedOnly
    BY DEF FirstSeedOnly
  <2> DEFINE forms == input.entries
             src == Source(input)
  <2>1. input \in Seeds
    BY DEF HelpersInit, Texts, Seeds, Feeds, Rates
  <2>2. PICK n \in 0 .. Len(Keys) : forms \in [1 .. n -> EntryForms]
    <3>1. forms \in UNION {[1 .. n -> EntryForms] : n \in 0 .. Len(Keys)}
      BY <2>1 DEF Seeds
    <3> QED
      BY <3>1
  <2>3. PICK e : Laid(src, forms, n, e)
    BY <2>2, LaidOut
  <2>4. n \in Nat /\ n <= Len(Keys) /\ DOMAIN forms = 1 .. n
    BY <2>2, KeysAre
  <2>5. /\ n = 0 => ParseBibTeX(src).ok /\ ParseBibTeX(src).keys = << >>
        /\ n > 0 /\ AllClosed(forms, 1, n) =>
             ParseBibTeX(src).ok /\ ParseBibTeX(src).keys = <<Keys[1]>>
        /\ ~AllClosed(forms, 1, n) => ~ParseBibTeX(src).ok
    BY <2>3, <2>4, Parsed
  <2>6. forms = << >> <=> n = 0
    <3>1. forms \in Seq(EntryForms)
      BY <2>2, <2>4, SeqDef
    <3>2. DOMAIN forms = 1 .. Len(forms) /\ Len(forms) \in Nat
      BY <3>1, LenProperties
    <3>3. Len(forms) = n
      BY <2>4, <3>2
    <3> QED
      BY <3>1, <3>3, EmptySeq
  <2>7. AllClosed(forms, 1, n) <=> \A k \in DOMAIN forms : forms[k] # "unclosed"
    BY <2>4 DEF AllClosed
  <2> HIDE DEF forms, src
  <2>8. /\ ParseBibTeX(src).ok <=> \A k \in DOMAIN forms : forms[k] # "unclosed"
        /\ ParseBibTeX(src).ok =>
             ParseBibTeX(src).keys = (IF forms = << >> THEN << >> ELSE <<Keys[1]>>)
    <3>1. CASE ~AllClosed(forms, 1, n)
      BY <2>5, <2>7, <3>1
    <3>2. CASE n = 0
      <4>1. AllClosed(forms, 1, n)
        BY <3>2 DEF AllClosed
      <4> QED
        BY <2>5, <2>6, <2>7, <3>2, <4>1
    <3>3. CASE n > 0 /\ AllClosed(forms, 1, n)
      BY <2>5, <2>6, <2>7, <3>3
    <3> QED
      BY <2>4, <3>1, <3>2, <3>3
  <2> QED
    BY <2>8 DEF FirstSeedOnly, forms, src
<1>2. FirstSeedOnly /\ [HelpersNext]_input => FirstSeedOnly'
  BY DEF FirstSeedOnly, HelpersNext
<1> QED
  BY <1>1, <1>2, PTL DEF HelpersSpec

=============================================================================
