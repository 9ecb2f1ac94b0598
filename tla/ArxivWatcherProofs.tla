------------------------- MODULE ArxivWatcherProofs -------------------------
(***************************************************************************)
(* What holds of the cursor of arXiv, for any page size, any number of     *)
(* entries and versions and any faults.                                    *)
(***************************************************************************)
EXTENDS ArxivWatcher, FiniteSetTheorems, WellFoundedInduction, SequenceTheorems, TLAPS

(***************************************************************************)
(* Greatest elements: what the CHOOSE of a page picks is there.            *)
(***************************************************************************)
LEMMA Greatest ==
  ASSUME NEW bound \in Nat, NEW T \in SUBSET (0 .. bound), T # {}
  PROVE  \E m \in T : \A n \in T : n <= m
<1> DEFINE Below == {bound - n : n \in T}
<1>1. Below \in SUBSET Nat /\ Below # {}
  <2>1. \A n \in T : bound - n \in Nat
    OBVIOUS
  <2>2. QED
    BY <2>1
<1>2. PICK k \in Below : \A n \in Below : ~(<<n, k>> \in OpToRel(<, Nat))
  BY <1>1, NatLessThanWellFounded, WFMin
<1>3. \A n \in Below : ~(n < k)
  BY <1>1, <1>2 DEF OpToRel
<1>4. PICK m \in T : k = bound - m
  BY <1>2
<1>5. ASSUME NEW n \in T PROVE n <= m
  <2>1. ~(bound - n < bound - m)
    BY <1>3, <1>4
  <2>2. QED
    BY <2>1
<1>6. QED
  BY <1>5

LEMMA GreatestPair ==
  ASSUME NEW S, S # {}, NEW t \in [S -> Times], NEW i \in [S -> Ids]
  PROVE  \E b \in S : \A e \in S : t[e] < t[b] \/ (t[e] = t[b] /\ i[e] <= i[b])
<1>0. Times = 0 .. MaxTime /\ Ids \subseteq 0 .. MaxEntries /\ MaxTime \in Nat /\ MaxEntries \in Nat
  BY WatcherAssumption DEF Times, Ids
<1>1. PICK m \in {t[e] : e \in S} : \A n \in {t[e] : e \in S} : n <= m
  <2>1. {t[e] : e \in S} \in SUBSET (0 .. MaxTime) /\ {t[e] : e \in S} # {}
    BY <1>0
  <2>2. QED
    BY <1>0, <2>1, Greatest
<1> DEFINE Last == {e \in S : t[e] = m}
<1>2. PICK n \in {i[e] : e \in Last} : \A j \in {i[e] : e \in Last} : j <= n
  <2>1. {i[e] : e \in Last} \in SUBSET (0 .. MaxEntries) /\ {i[e] : e \in Last} # {}
    BY <1>0, <1>1
  <2>2. QED
    BY <1>0, <2>1, Greatest
<1>3. PICK b \in Last : i[b] = n
  BY <1>2
<1>4. ASSUME NEW e \in S PROVE t[e] < t[b] \/ (t[e] = t[b] /\ i[e] <= i[b])
  <2>1. t[e] <= m /\ t[e] \in 0 .. MaxTime /\ m \in 0 .. MaxTime
    BY <1>0, <1>1
  <2>2. t[e] = m => i[e] <= n
    BY <1>2
  <2>3. QED
    BY <1>3, <2>1, <2>2
<1>5. QED
  BY <1>3, <1>4

\* One element in the place of another.
LEMMA Replaced ==
  ASSUME NEW A, IsFiniteSet(A), NEW x \in A, NEW y, y \notin A \ {x}
  PROVE  /\ IsFiniteSet((A \ {x}) \cup {y})
         /\ Cardinality((A \ {x}) \cup {y}) = Cardinality(A)
<1> DEFINE B == A \ {x}
<1>1. IsFiniteSet(B) /\ Cardinality(B) = Cardinality(A) - 1 /\ Cardinality(A) \in Nat
  BY FS_RemoveElement, FS_CardinalityType
<1> HIDE DEF B
<1>2. y \notin B
  BY DEF B
<1>3. IsFiniteSet(B \cup {y}) /\ Cardinality(B \cup {y}) = Cardinality(B) + 1
  BY <1>1, <1>2, FS_AddElement
<1>4. QED
  BY <1>1, <1>3 DEF B

-----------------------------------------------------------------------------
(***************************************************************************)
(* Types.                                                                  *)
(***************************************************************************)
LEMMA Stamps ==
  /\ \A e \in Entry : /\ e.id \in Nat /\ e.id \in Ids /\ e.id # 0
                      /\ e.submitted \in Nat /\ e.submitted \in Times
                      /\ e.updated \in Nat /\ e.updated \in Times
  /\ MaxEntries \in Nat /\ MaxTime \in Nat /\ MaxFaults \in Nat
  /\ PageSize \in Nat \ {0}
  BY WatcherAssumption DEF Entry, Ids, Times

\* MaxComposite is an entry of the page, and not before any other.
LEMMA MaxIsThere ==
  ASSUME NEW page \in SUBSET Entry, page # {}
  PROVE  /\ MaxComposite(page) \in page
         /\ \A e \in page : \/ e.updated < MaxComposite(page).updated
                            \/ /\ e.updated = MaxComposite(page).updated
                               /\ e.id <= MaxComposite(page).id
<1> DEFINE t == [e \in page |-> e.updated]
           i == [e \in page |-> e.id]
<1>1. t \in [page -> Times] /\ i \in [page -> Ids]
  BY Stamps
<1>2. PICK b \in page : \A e \in page : t[e] < t[b] \/ (t[e] = t[b] /\ i[e] <= i[b])
  <2> HIDE DEF t, i
  <2>1. QED
    BY <1>1, GreatestPair
<1>3. QED
  BY <1>2 DEF MaxComposite

LEMMA NewestIsThere ==
  ASSUME TypeOK, poll # Idle, poll.todo # {}
  PROVE  Newest \in poll.todo /\ poll.todo \subseteq Entry
<1> DEFINE S == poll.todo
           t == [e \in S |-> e.submitted]
           i == [e \in S |-> e.id]
<1>1. S \subseteq Entry
  BY DEF TypeOK, PollStates, Idle
<1>2. t \in [S -> Times] /\ i \in [S -> Ids]
  BY <1>1, Stamps
<1>3. PICK b \in S : \A e \in S : t[e] < t[b] \/ (t[e] = t[b] /\ i[e] <= i[b])
  <2>1. S # {}
    OBVIOUS
  <2> HIDE DEF S, t, i
  <2>2. QED
    BY <1>2, <2>1, GreatestPair
<1>4. \A e \in S : ~Older(b, e)
  <2>1. TAKE e \in S
  <2>2. /\ e.submitted < b.submitted \/ (e.submitted = b.submitted /\ e.id <= b.id)
        /\ e \in Entry /\ b \in Entry
    BY <1>1, <1>3
  <2>3. QED
    BY <2>2, Stamps DEF Older
<1>5. QED
  BY <1>1, <1>4 DEF Newest

\* The version announced leaves the queue.
LEMMA Announced ==
  ASSUME TypeOK, NEW k \in DOMAIN hidden, Announce(k)
  PROVE  /\ hidden[k] \in Entry /\ Len(hidden) \in Nat
         /\ DOMAIN hidden = 1 .. Len(hidden)
         /\ hidden' \in Seq(Entry) /\ DOMAIN hidden' = 1 .. Len(hidden) - 1
         /\ \A j \in DOMAIN hidden' : hidden'[j] = IF j < k THEN hidden[j] ELSE hidden[j + 1]
<1>1. /\ hidden \in Seq(Entry) /\ Len(hidden) \in Nat /\ DOMAIN hidden = 1 .. Len(hidden)
      /\ \A j \in 1 .. Len(hidden) : hidden[j] \in Entry
  BY DEF TypeOK
<1> DEFINE n == Len(hidden)
           H(j) == IF j < k THEN hidden[j] ELSE hidden[j + 1]
<1>2. hidden' = [j \in 1 .. n - 1 |-> H(j)]
  BY DEF Announce
<1>3. n - 1 \in Nat /\ \A j \in 1 .. n - 1 : j \in 1 .. n /\ j + 1 \in 1 .. n
  BY <1>1
<1>4. \A j \in 1 .. n - 1 : H(j) \in Entry
  BY <1>1, <1>3
<1> HIDE DEF n, H
<1>5. hidden' \in [1 .. n - 1 -> Entry]
  BY <1>2, <1>4
<1>6. hidden' \in Seq(Entry)
  BY <1>3, <1>5, SeqDef
<1>7. DOMAIN hidden' = 1 .. n - 1 /\ \A j \in 1 .. n - 1 : hidden'[j] = H(j)
  BY <1>2
<1>8. QED
  BY <1>1, <1>6, <1>7 DEF n, H

\* The version submitted joins it.
LEMMA Submitted ==
  ASSUME TypeOK, NEW v \in Entry, hidden' = Append(hidden, v)
  PROVE  /\ hidden' \in Seq(Entry) /\ Len(hidden) \in Nat
         /\ DOMAIN hidden = 1 .. Len(hidden) /\ DOMAIN hidden' = 1 .. Len(hidden) + 1
         /\ \A j \in 1 .. Len(hidden) : hidden'[j] = hidden[j] /\ hidden[j] \in Entry
         /\ hidden'[Len(hidden) + 1] = v
<1>1. hidden \in Seq(Entry)
  BY DEF TypeOK
<1>2. QED
  BY <1>1, AppendProperties

LEMMA TypeStep == TypeOK /\ [Next]_vars => TypeOK'
<1> SUFFICES ASSUME TypeOK, [Next]_vars PROVE TypeOK'
  OBVIOUS
<1>0. /\ now \in Times /\ hidden \in Seq(Entry) /\ listed \subseteq Entry
      /\ cursor \in [time : Times \cup {NoTime}, id : 0 .. MaxEntries]
      /\ conn \in {"nil", "up", "cut"} /\ poll \in PollStates
      /\ ids \in 0 .. MaxEntries /\ faults \in 0 .. MaxFaults /\ received \subseteq Ids
      /\ calm \in BOOLEAN /\ lost \in BOOLEAN
  BY DEF TypeOK
<1>1. (\A kind : Fault(kind) => faults' \in 0 .. MaxFaults) /\ Idle \in PollStates
  BY <1>0, Stamps DEF Fault, PollStates
<1>2. CASE Tick
  <2>1. now' \in Times
    BY <1>0, <1>2, Stamps DEF Tick, Times
  <2>2. QED
    BY <1>0, <1>2, <2>1 DEF Tick, Watched, TypeOK
<1>3. CASE Submit
  <2>1. ids' \in 0 .. MaxEntries /\ ids + 1 \in Ids
    BY <1>0, <1>3, Stamps DEF Submit, Ids
  <2>2. [id |-> ids + 1, submitted |-> now, updated |-> now] \in Entry
    BY <1>0, <2>1 DEF Entry
  <2>3. hidden' \in Seq(Entry)
    BY <1>3, <2>2, Submitted DEF Submit
  <2>4. QED
    BY <1>0, <1>3, <2>1, <2>3 DEF Submit, Watched, TypeOK
<1>4. ASSUME NEW e \in listed, Revise(e) PROVE TypeOK'
  <2>1. [e EXCEPT !.updated = now] \in Entry
    BY <1>0, <1>4 DEF Entry
  <2>2. hidden' \in Seq(Entry)
    BY <1>4, <2>1, Submitted DEF Revise
  <2>3. QED
    BY <1>0, <1>4, <2>2 DEF Revise, Watched, TypeOK
<1>5. ASSUME NEW k \in DOMAIN hidden, Announce(k) PROVE TypeOK'
  <2>1. hidden[k] \in Entry /\ hidden' \in Seq(Entry)
    BY <1>5, Announced
  <2>2. listed' \subseteq Entry /\ calm' \in BOOLEAN
    BY <1>0, <1>5, <2>1 DEF Announce
  <2>3. UNCHANGED <<now, ids, cursor, conn, poll, received, faults, lost>>
    BY <1>5 DEF Announce, Watched
  <2>4. /\ now' \in Times /\ ids' \in 0 .. MaxEntries /\ faults' \in 0 .. MaxFaults
        /\ conn' \in {"nil", "up", "cut"} /\ poll' \in PollStates /\ received' \subseteq Ids
        /\ cursor' \in [time : Times \cup {NoTime}, id : 0 .. MaxEntries] /\ lost' \in BOOLEAN
    BY <1>0, <2>3
  <2>5. QED
    BY <2>1, <2>2, <2>4 DEF TypeOK
<1>6. CASE Fetch
  <2>1. FirstPage \in (SUBSET Entry) \ {{}} /\ {e \in FirstPage : After(e, cursor)} \in SUBSET Entry
    BY <1>0, <1>6 DEF Fetch, FirstPage
  <2>2. poll' \in PollStates
    BY <1>6, <2>1 DEF Fetch, PollStates
  <2>3. QED
    BY <1>0, <1>6, <2>2 DEF Fetch, arxiv, TypeOK
<1>7. CASE FetchFails
  BY <1>0, <1>1, <1>7 DEF FetchFails, arxiv, TypeOK
<1>8. CASE Write
  <2>1. Newest \in Entry /\ poll \in PollStates /\ poll # Idle
    BY <1>0, <1>8, NewestIsThere DEF Write, Writing
  <2>2. received' \subseteq Ids
    BY <1>0, <1>8, <2>1, Stamps DEF Write
  <2>3. poll' \in PollStates
    BY <1>8, <2>1 DEF Write, PollStates
  <2>4. QED
    BY <1>0, <1>8, <2>2, <2>3 DEF Write, arxiv, TypeOK
<1>9. CASE WriteFails \/ Crash
  <2>1. /\ UNCHANGED <<now, hidden, listed, ids, calm, cursor, received, lost>>
        /\ conn' = "nil" /\ poll' = Idle
    BY <1>9 DEF WriteFails, Crash, arxiv
  <2>2. faults' \in 0 .. MaxFaults
    BY <1>0, <1>1, <1>9 DEF WriteFails, Crash
  <2>3. QED
    BY <1>0, <1>1, <2>1, <2>2 DEF TypeOK
<1>10. CASE SetArxivCursor
  <2>1. poll.page \in SUBSET Entry /\ poll.page # {}
    BY <1>0, <1>10 DEF SetArxivCursor, PollStates
  <2>2. MaxComposite(poll.page) \in Entry
    BY <2>1, MaxIsThere
  <2>3. MaxComposite(poll.page).updated \in Times /\ MaxComposite(poll.page).id \in 0 .. MaxEntries
    BY <2>2, Stamps DEF Ids
  <2>4. cursor' \in [time : Times \cup {NoTime}, id : 0 .. MaxEntries]
    BY <1>0, <1>10, <2>3 DEF SetArxivCursor
  <2>5. UNCHANGED <<now, hidden, listed, ids, calm, conn, received, lost>> /\ poll' = Idle
    BY <1>10 DEF SetArxivCursor, arxiv
  <2>6. faults' \in 0 .. MaxFaults
    BY <1>0, <1>1, <1>10 DEF SetArxivCursor
  <2>7. QED
    BY <1>0, <1>1, <2>4, <2>5, <2>6 DEF TypeOK
<1>11. CASE DedupDies
  BY <1>0, <1>1, <1>11 DEF DedupDies, arxiv, TypeOK
<1>12. CASE UNCHANGED vars
  BY <1>0, <1>12 DEF vars, TypeOK
<1>13. QED
  BY <1>2, <1>3, <1>4, <1>5, <1>6, <1>7, <1>8, <1>9, <1>10, <1>11, <1>12 DEF Next, Watcher

-----------------------------------------------------------------------------
(***************************************************************************)
(* The invariant, while arXiv is calm.                                     *)
(***************************************************************************)
First(e) == e.updated = e.submitted

AtMost(a, b) == a.updated < b.updated \/ (a.updated = b.updated /\ a.id <= b.id)

\* The first version of e is later than the version x.
Later(e, x) == e.submitted > x.updated \/ (e.submitted = x.updated /\ e.id > x.id)

NoCursor == cursor.id = 0

Reached == [updated |-> cursor.time, id |-> cursor.id]

Known(e) == e.submitted <= e.updated /\ e.updated <= now /\ e.id <= ids

\* What arXiv promises while it is calm: versions are announced in the order of
\* their times, the first version of an entry after all older entries, and a
\* replacement after what it replaces.
InOrder ==
  /\ \A e \in listed : Known(e)
  /\ \A e, f \in listed : e.id = f.id => e = f
  /\ \A k \in DOMAIN hidden :
       /\ Known(hidden[k])
       /\ \A e \in listed : e.updated <= hidden[k].updated
       /\ IF First(hidden[k])
          THEN \A e \in listed : e.id < hidden[k].id
          ELSE \E e \in listed : e.id = hidden[k].id /\ e.submitted = hidden[k].submitted
  /\ \A j, k \in DOMAIN hidden : j < k =>
       /\ hidden[j].updated <= hidden[k].updated
       /\ First(hidden[j]) /\ First(hidden[k]) => hidden[j].id < hidden[k].id

\* The cursor is behind the first page, the entries it has not reached fit on a
\* page, and the others have been received.
CursorInv ==
  /\ cursor.time = NoTime <=> NoCursor
  /\ NoCursor \/ \E b \in FirstPage : AtMost(Reached, b)
  /\ Cardinality(Fresh) <= PageSize
  /\ ~lost => \A e \in listed : e \in Fresh \/ e.id \in received

\* The page of a poll is behind the first page and not behind the cursor; an
\* entry that is listed has been received, or is still to be written, or is
\* later than the page.
PollInv ==
  /\ \A x \in poll.page : \E b \in FirstPage : AtMost(x, b)
  /\ NoCursor \/ \E x \in poll.page : AtMost(Reached, x)
  /\ ~lost => \A e \in listed :
       \/ e.id \in received
       \/ \E f \in poll.todo : f.id = e.id
       \/ \A x \in poll.page : Later(e, x)

ArxivInv ==
  /\ IsFiniteSet(listed)
  /\ conn = "cut" => lost
  /\ poll # Idle => conn # "nil"
  /\ calm => InOrder /\ CursorInv /\ (poll # Idle => PollInv)
-----------------------------------------------------------------------------
(***************************************************************************)
(* Pages.                                                                  *)
(***************************************************************************)
PageOf(L) == {e \in L : Cardinality({f \in L : Older(e, f)}) < PageSize}

\* The newest entry is on the first page.
LEMMA NewestOnPage ==
  ASSUME NEW L \in SUBSET Entry, NEW v \in Entry,
         \A e \in L : e.submitted <= v.submitted /\ e.id < v.id
  PROVE  v \in PageOf(L \cup {v})
<1>1. \A f \in L \cup {v} : ~Older(v, f)
  <2>1. TAKE f \in L \cup {v}
  <2>2. f \in Entry /\ (f = v \/ (f.submitted <= v.submitted /\ f.id < v.id))
    OBVIOUS
  <2>3. QED
    BY <2>2, Stamps DEF Older
<1>2. {f \in L \cup {v} : Older(v, f)} = {}
  BY <1>1
<1>3. Cardinality({f \in L \cup {v} : Older(v, f)}) < PageSize
  BY <1>2, FS_EmptySet, Stamps
<1>4. QED
  BY <1>3 DEF PageOf

\* A replacement takes the place of what it replaces.
LEMMA ReplacementOnPage ==
  ASSUME NEW L \in SUBSET Entry, IsFiniteSet(L), \A e, f \in L : e.id = f.id => e = f,
         NEW old \in L, NEW v \in Entry, v.id = old.id, v.submitted = old.submitted,
         NEW e \in PageOf(L)
  PROVE  (IF e = old THEN v ELSE e) \in PageOf((L \ {old}) \cup {v})
<1> DEFINE M == (L \ {old}) \cup {v}
           x == IF e = old THEN v ELSE e
           N == {f \in L : Older(e, f)}
<1>1. e \in L /\ Cardinality(N) < PageSize /\ x \in M /\ IsFiniteSet(N)
  BY FS_Subset DEF PageOf
<1>2. \A f : Older(x, f) <=> Older(e, f)
  BY DEF Older
<1>3. Older(e, v) <=> Older(e, old)
  BY DEF Older
<1>4. v \notin L \ {old}
  OBVIOUS
<1>5. CASE Older(e, old)
  <2>1. {f \in M : Older(x, f)} = (N \ {old}) \cup {v}
    BY <1>2, <1>3, <1>5
  <2>2. old \in N /\ v \notin N \ {old}
    BY <1>4, <1>5
  <2> HIDE DEF N
  <2>3. Cardinality((N \ {old}) \cup {v}) = Cardinality(N)
    BY <1>1, <2>2, Replaced
  <2>4. QED
    BY <1>1, <2>1, <2>3 DEF PageOf
<1>6. CASE ~Older(e, old)
  <2>1. {f \in M : Older(x, f)} = N
    BY <1>2, <1>3, <1>4, <1>6
  <2>2. QED
    BY <1>1, <2>1 DEF PageOf
<1>7. QED
  BY <1>5, <1>6

LEMMA FreshMeans ==
  ASSUME TypeOK
  PROVE  /\ Fresh = {e \in listed : cursor.time = NoTime \/ NoCursor \/ Later(e, Reached)}
         /\ FirstPage = PageOf(listed) /\ FirstPage \subseteq listed /\ listed \subseteq Entry
         /\ cursor.time \in Int /\ cursor.id \in Nat
         /\ Reached.updated = cursor.time /\ Reached.id = cursor.id
<1>1. cursor.time \in Int /\ cursor.id \in Nat
  BY Stamps DEF TypeOK, Times, NoTime
<1>2. \A e \in listed : After([id |-> e.id, updated |-> e.submitted], cursor)
                          <=> cursor.time = NoTime \/ NoCursor \/ Later(e, Reached)
  BY DEF After, Later, Reached, NoCursor
<1>3. FirstPage = PageOf(listed) /\ FirstPage \subseteq listed
  BY DEF FirstPage, PageOf
<1>4. QED
  BY <1>1, <1>2, <1>3 DEF Fresh, Reached, TypeOK

\* What the cursor has not reached fits on the page that is fetched.
LEMMA FreshOnPage ==
  ASSUME TypeOK, IsFiniteSet(listed), Cardinality(Fresh) <= PageSize, NEW e \in Fresh
  PROVE  e \in FirstPage
<1> DEFINE N == {f \in listed : Older(e, f)}
<1>1. /\ e \in listed /\ listed \subseteq Entry /\ IsFiniteSet(N) /\ IsFiniteSet(Fresh)
      /\ Cardinality(N) \in Nat /\ Cardinality(Fresh) \in Nat
  BY FreshMeans, FS_Subset, FS_CardinalityType
<1>2. ASSUME NEW f \in N PROVE f \in Fresh
  <2>1. e \in Entry /\ f \in Entry /\ Older(e, f) /\ f \in listed
    BY <1>1
  <2>2. cursor.time = NoTime \/ NoCursor \/ Later(e, Reached)
    BY FreshMeans
  <2>3. Later(e, Reached) => Later(f, Reached)
    BY <2>1, FreshMeans, Stamps DEF Older, Later
  <2>4. QED
    BY <2>1, <2>2, <2>3, FreshMeans
<1>3. e \notin N
  BY <1>1, Stamps DEF Older
<1> HIDE DEF N
<1>4. IsFiniteSet(N \cup {e}) /\ Cardinality(N \cup {e}) = Cardinality(N) + 1
  BY <1>1, <1>3, FS_AddElement
<1>5. N \cup {e} \in SUBSET Fresh
  BY <1>2
<1>6. Cardinality(N) + 1 <= Cardinality(Fresh)
  BY <1>1, <1>4, <1>5, FS_Subset
<1>7. Cardinality(N) < PageSize
  BY <1>1, <1>6, Stamps
<1>8. QED
  BY <1>1, <1>7 DEF FirstPage, N
-----------------------------------------------------------------------------
(***************************************************************************)
(* The steps of arXiv.                                                     *)
(***************************************************************************)
LEMMA SameListing ==
  ASSUME UNCHANGED listed
  PROVE  FirstPage' = FirstPage /\ (UNCHANGED cursor => Fresh' = Fresh)
  BY DEF FirstPage, Fresh

LEMMA ListingStays ==
  ASSUME ArxivInv, UNCHANGED <<listed, calm, cursor, conn, poll, received, lost>>,
         calm => InOrder'
  PROVE  ArxivInv'
<1>1. FirstPage' = FirstPage /\ Fresh' = Fresh
  BY SameListing
<1>2. CursorInv => CursorInv'
  BY <1>1 DEF CursorInv, NoCursor, Reached
<1>3. PollInv => PollInv'
  BY <1>1 DEF PollInv, NoCursor, Reached
<1>4. QED
  BY <1>2, <1>3 DEF ArxivInv

LEMMA TickStep ==
  ASSUME TypeOK, ArxivInv, Tick
  PROVE  ArxivInv'
<1>1. /\ UNCHANGED <<hidden, listed, ids, calm, cursor, conn, poll, received, lost>>
      /\ now' = now + 1 /\ now \in Nat
  BY Stamps DEF Tick, Watched, TypeOK, Times
<1>2. ASSUME NEW e \in Entry, Known(e) PROVE Known(e)'
  BY <1>1, <1>2, Stamps DEF Known
<1>3. listed \subseteq Entry /\ \A k \in DOMAIN hidden : hidden[k] \in Entry
  BY DEF TypeOK
<1>4. InOrder => InOrder'
  <2> SUFFICES ASSUME InOrder PROVE InOrder'
    OBVIOUS
  <2>1. \A e \in listed : Known(e)'
    BY <1>2, <1>3 DEF InOrder
  <2>2. \A k \in DOMAIN hidden : Known(hidden[k])'
    <3>1. TAKE k \in DOMAIN hidden
    <3>2. PICK e \in Entry : e = hidden[k]
      BY <1>3
    <3>3. Known(e)'
      BY <1>2, <3>2 DEF InOrder
    <3>4. QED
      BY <1>1, <3>2, <3>3 DEF Known
  <2>3. QED
    BY <1>1, <2>1, <2>2 DEF InOrder, First
<1>5. QED
  BY <1>1, <1>4, ListingStays DEF ArxivInv

\* A version joins the queue: the first of a new entry, or a replacement of a
\* listed one.
LEMMA Joins ==
  ASSUME TypeOK, InOrder, NEW v \in Entry, hidden' = Append(hidden, v),
         UNCHANGED <<now, listed>>, ids <= ids', ids' \in Nat,
         Known(v)', v.updated = now,
         \/ First(v) /\ v.id = ids + 1
         \/ ~First(v) /\ \E e \in listed : e.id = v.id /\ e.submitted = v.submitted
  PROVE  InOrder'
<1> DEFINE n == Len(hidden)
<1>1. /\ n \in Nat /\ DOMAIN hidden = 1 .. n /\ DOMAIN hidden' = 1 .. n + 1
      /\ \A j \in 1 .. n : hidden'[j] = hidden[j] /\ hidden[j] \in Entry
      /\ hidden'[n + 1] = v
  BY Submitted
<1> HIDE DEF n
<1>2. /\ listed \subseteq Entry /\ now \in Nat /\ ids \in Nat
      /\ \A e \in Entry : e.id \in Nat /\ e.updated \in Nat /\ e.submitted \in Nat
  BY Stamps DEF TypeOK, Times
<1>3. ASSUME NEW e \in Entry, Known(e) PROVE Known(e)'
  BY <1>2, <1>3 DEF Known
<1>4. \A e \in listed : Known(e)'
  BY <1>2, <1>3 DEF InOrder
<1>5. \A j \in DOMAIN hidden' : j = n + 1 \/ j \in 1 .. n
  BY <1>1
<1>6. ASSUME NEW j \in 1 .. n, NEW w \in Entry, w = hidden[j]
      PROVE  /\ Known(w) /\ Known(w)'
             /\ \A e \in listed : e.updated <= w.updated
             /\ IF First(w)
                THEN \A e \in listed : e.id < w.id
                ELSE \E e \in listed : e.id = w.id /\ e.submitted = w.submitted
             /\ w.updated <= v.updated /\ (First(v) => w.id < v.id)
  <2>1. Known(w)
    BY <1>1, <1>6 DEF InOrder
  <2>2. Known(w)'
    BY <1>3, <2>1
  <2>3. w.updated <= v.updated /\ (First(v) => w.id < v.id)
    <3>1. w.updated <= now /\ w.id <= ids /\ w.id \in Nat /\ w.updated \in Nat
      BY <1>2, <2>1 DEF Known
    <3>2. QED
      BY <1>2, <3>1
  <2>4. QED
    BY <1>1, <1>6, <2>1, <2>2, <2>3 DEF InOrder
<1>7. /\ \A e \in listed : e.updated <= v.updated
      /\ IF First(v)
         THEN \A e \in listed : e.id < v.id
         ELSE \E e \in listed : e.id = v.id /\ e.submitted = v.submitted
  <2>1. ASSUME NEW e \in listed PROVE e.updated <= now /\ e.id < ids + 1
    BY <1>2 DEF InOrder, Known
  <2>2. QED
    BY <2>1
<1>8. ASSUME NEW j \in DOMAIN hidden', NEW w, w = hidden'[j]
      PROVE  /\ Known(w)'
             /\ \A e \in listed : e.updated <= w.updated
             /\ IF First(w)
                THEN \A e \in listed : e.id < w.id
                ELSE \E e \in listed : e.id = w.id /\ e.submitted = w.submitted
  BY <1>1, <1>5, <1>6, <1>7, <1>8
<1>9. ASSUME NEW i \in DOMAIN hidden', NEW j \in DOMAIN hidden', i < j,
             NEW u, NEW w, u = hidden'[i], w = hidden'[j]
      PROVE  /\ u.updated <= w.updated
             /\ First(u) /\ First(w) => u.id < w.id
  <2>1. i \in 1 .. n
    BY <1>1, <1>9
  <2>2. u = hidden[i] /\ u \in Entry
    BY <1>1, <1>9, <2>1
  <2>3. CASE j = n + 1
    BY <1>1, <1>6, <1>9, <2>1, <2>2, <2>3
  <2>4. CASE j \in 1 .. n
    BY <1>1, <1>9, <2>1, <2>4 DEF InOrder
  <2>5. QED
    BY <1>5, <2>3, <2>4
<1>10. /\ \A e \in listed' : Known(e)'
       /\ \A e, f \in listed' : e.id = f.id => e = f
  BY <1>4 DEF InOrder
<1>11. \A k \in DOMAIN hidden' :
         /\ Known(hidden[k])'
         /\ \A e \in listed' : e.updated <= hidden'[k].updated
         /\ IF First(hidden'[k])
            THEN \A e \in listed' : e.id < hidden'[k].id
            ELSE \E e \in listed' : e.id = hidden'[k].id /\ e.submitted = hidden'[k].submitted
  <2>1. TAKE k \in DOMAIN hidden'
  <2>2. PICK w : w = hidden'[k]
    OBVIOUS
  <2>3. Known(w)' <=> Known(hidden[k])'
    BY <2>2 DEF Known
  <2>4. QED
    BY <1>8, <2>2, <2>3
<1>12. \A i, j \in DOMAIN hidden' : i < j =>
         /\ hidden'[i].updated <= hidden'[j].updated
         /\ First(hidden'[i]) /\ First(hidden'[j]) => hidden'[i].id < hidden'[j].id
  BY <1>9
<1>13. QED
  BY <1>10, <1>11, <1>12 DEF InOrder, First

LEMMA SubmitStep ==
  ASSUME TypeOK, ArxivInv, Submit
  PROVE  ArxivInv'
<1>1. /\ UNCHANGED <<now, listed, calm, cursor, conn, poll, received, lost>>
      /\ ids < MaxEntries /\ ids' = ids + 1 /\ ids \in Nat /\ now \in Times /\ now \in Nat
      /\ hidden' = Append(hidden, [id |-> ids + 1, submitted |-> now, updated |-> now])
  BY Stamps DEF Submit, Watched, TypeOK, Times
<1>2. PICK v : v = [id |-> ids + 1, submitted |-> now, updated |-> now]
  OBVIOUS
<1>3. /\ v \in Entry /\ hidden' = Append(hidden, v)
      /\ v.id = ids + 1 /\ v.updated = now /\ v.submitted = now
  BY <1>1, <1>2, Stamps DEF Entry, Ids
<1>4. Known(v)' /\ First(v)
  BY <1>1, <1>3 DEF Known, First
<1>5. InOrder => InOrder'
  BY <1>1, <1>3, <1>4, Joins
<1>6. QED
  BY <1>1, <1>5, ListingStays DEF ArxivInv

LEMMA ReviseStep ==
  ASSUME TypeOK, ArxivInv, NEW e \in listed, Revise(e)
  PROVE  ArxivInv'
<1>1. /\ UNCHANGED <<now, listed, ids, calm, cursor, conn, poll, received, lost>>
      /\ e \in Entry /\ e.updated < now /\ ids \in Nat /\ now \in Times /\ now \in Nat
      /\ hidden' = Append(hidden, [e EXCEPT !.updated = now])
  BY Stamps DEF Revise, Watched, TypeOK, Times
<1>2. PICK v : v = [e EXCEPT !.updated = now]
  OBVIOUS
<1>3. /\ v \in Entry /\ hidden' = Append(hidden, v)
      /\ v.id = e.id /\ v.updated = now /\ v.submitted = e.submitted
  BY <1>1, <1>2 DEF Entry
<1>4. ASSUME InOrder PROVE InOrder'
  <2>1. Known(e)
    BY <1>4 DEF InOrder
  <2>2. Known(v)' /\ ~First(v)
    BY <1>1, <1>3, <2>1, Stamps DEF Known, First
  <2>3. \E f \in listed : f.id = v.id /\ f.submitted = v.submitted
    BY <1>3
  <2>4. QED
    BY <1>1, <1>3, <1>4, <2>2, <2>3, Joins
<1>5. QED
  BY <1>1, <1>4, ListingStays DEF ArxivInv
\* The version that shows up while arXiv is calm: what it does to the listing
\* and to the first page.
LEMMA ShowsUp ==
  ASSUME TypeOK, ArxivInv, NEW k \in DOMAIN hidden, Announce(k), calm',
         NEW v, v = hidden[1]
  PROVE  /\ k = 1 /\ calm /\ Cardinality(Fresh) < PageSize /\ v \in Entry /\ Known(v)
         /\ v \in listed' /\ IsFiniteSet(listed')
         /\ \A e \in listed' : e = v \/ e \in listed
         /\ \A e \in listed : e.id # v.id => e \in listed'
         /\ \A e, f \in listed' : e.id = f.id => e = f
         /\ \A e \in listed : e.updated <= v.updated
         /\ IF First(v)
            THEN \A e \in listed : e.id < v.id /\ e.submitted <= v.submitted
            ELSE \E e \in listed : e.id = v.id /\ e.submitted = v.submitted
         /\ \A e \in FirstPage : \E b \in FirstPage' : AtMost(e, b)
<1>1. /\ k = 1 /\ calm /\ Cardinality(Fresh) < PageSize
      /\ listed' = {f \in listed : f.id # v.id} \cup {v}
  BY DEF Announce
<1>2. InOrder /\ IsFiniteSet(listed) /\ v \in Entry /\ listed \subseteq Entry
  BY <1>1, Announced, FreshMeans DEF ArxivInv
<1>3. /\ Known(v) /\ (\A e \in listed : e.updated <= v.updated)
      /\ IF First(v)
         THEN \A e \in listed : e.id < v.id
         ELSE \E e \in listed : e.id = v.id /\ e.submitted = v.submitted
  BY <1>1, <1>2 DEF InOrder
<1>4. ASSUME First(v), NEW e \in listed PROVE e.id < v.id /\ e.submitted <= v.submitted
  <2>1. Known(e) /\ e.updated <= v.updated /\ e.id < v.id
    BY <1>2, <1>3, <1>4 DEF InOrder
  <2>2. QED
    BY <1>2, <1>4, <2>1, Stamps DEF Known, First
<1>5. \A e, f \in listed' : e.id = f.id => e = f
  BY <1>1, <1>2 DEF InOrder
<1>6. IsFiniteSet(listed')
  <2>1. IsFiniteSet({f \in listed : f.id # v.id})
    BY <1>2, FS_Subset
  <2>2. QED
    BY <1>1, <2>1, FS_AddElement
<1>7. FirstPage' = PageOf(listed') /\ FirstPage = PageOf(listed)
  BY DEF FirstPage, PageOf
<1>8. \A e \in FirstPage : \E b \in FirstPage' : AtMost(e, b)
  <2>1. CASE First(v)
    <3>1. listed' = listed \cup {v}
      BY <1>1, <1>2, <1>4, <2>1, Stamps
    <3>2. v \in PageOf(listed \cup {v})
      BY <1>2, <1>4, <2>1, NewestOnPage
    <3>3. \A e \in listed : AtMost(e, v)
      BY <1>2, <1>3, <1>4, <2>1, Stamps DEF AtMost
    <3>4. QED
      BY <1>7, <3>1, <3>2, <3>3 DEF FirstPage
  <2>2. CASE ~First(v)
    <3>1. PICK old \in listed : old.id = v.id /\ old.submitted = v.submitted
      BY <1>3, <2>2
    <3>2. listed' = (listed \ {old}) \cup {v}
      BY <1>1, <1>2, <3>1 DEF InOrder
    <3>3. AtMost(old, v)
      BY <1>2, <1>3, <3>1, Stamps DEF AtMost
    <3>4. \A e \in listed : AtMost(e, e)
      BY <1>2, Stamps DEF AtMost
    <3>5. ASSUME NEW e \in FirstPage PROVE \E b \in FirstPage' : AtMost(e, b)
      <4>1. (IF e = old THEN v ELSE e) \in PageOf((listed \ {old}) \cup {v})
        BY <1>2, <1>7, <3>1, ReplacementOnPage DEF InOrder
      <4>2. AtMost(e, IF e = old THEN v ELSE e)
        BY <3>3, <3>4 DEF FirstPage
      <4>3. QED
        BY <1>7, <3>2, <4>1, <4>2
    <3>6. QED
      BY <3>5
  <2>3. QED
    BY <2>1, <2>2
<1>9. QED
  BY <1>1, <1>2, <1>3, <1>4, <1>5, <1>6, <1>8

LEMMA OrderShown ==
  ASSUME TypeOK, ArxivInv, NEW k \in DOMAIN hidden, Announce(k), calm'
  PROVE  InOrder'
<1>0. PICK v : v = hidden[1]
  OBVIOUS
<1>1. UNCHANGED <<now, ids>>
  BY DEF Announce
<1>2. /\ k = 1 /\ calm /\ v \in Entry /\ Known(v)
      /\ \A e \in listed' : e = v \/ e \in listed
      /\ \A e \in listed : e.id # v.id => e \in listed'
      /\ \A e, f \in listed' : e.id = f.id => e = f
      /\ v \in listed'
      /\ IF First(v)
         THEN \A e \in listed : e.id < v.id /\ e.submitted <= v.submitted
         ELSE \E e \in listed : e.id = v.id /\ e.submitted = v.submitted
  BY <1>0, ShowsUp
<1>3. InOrder
  BY <1>2 DEF ArxivInv
<1> DEFINE n == Len(hidden)
<1>4. /\ n \in Nat /\ DOMAIN hidden = 1 .. n /\ DOMAIN hidden' = 1 .. n - 1
      /\ \A j \in 1 .. n - 1 : hidden'[j] = hidden[j + 1]
  BY <1>3, <1>1, <1>2, Announced
<1> HIDE DEF n
<1>5. \A j \in 1 .. n - 1 : j + 1 \in 1 .. n /\ 1 < j + 1 /\ 1 \in 1 .. n
  BY <1>4
<1>6. ASSUME NEW e, Known(e) PROVE Known(e)'
  BY <1>3, <1>1, <1>2, <1>6 DEF Known
<1>7. \A e \in listed' : Known(e)'
  BY <1>3, <1>1, <1>2, <1>6 DEF InOrder
<1>8. ASSUME NEW j \in 1 .. n - 1, NEW w, w = hidden[j + 1]
      PROVE  /\ Known(w)'
             /\ \A e \in listed' : e.updated <= w.updated
             /\ IF First(w)
                THEN \A e \in listed' : e.id < w.id
                ELSE \E e \in listed' : e.id = w.id /\ e.submitted = w.submitted
  <2>1. /\ Known(w) /\ \A e \in listed : e.updated <= w.updated
        /\ IF First(w)
           THEN \A e \in listed : e.id < w.id
           ELSE \E e \in listed : e.id = w.id /\ e.submitted = w.submitted
    BY <1>3, <1>1, <1>2, <1>4, <1>5, <1>8 DEF InOrder
  <2>2. v.updated <= w.updated /\ (First(v) /\ First(w) => v.id < w.id)
    BY <1>0, <1>3, <1>2, <1>4, <1>5, <1>8 DEF InOrder
  <2>3. Known(w)'
    BY <1>6, <2>1
  <2>4. ASSUME First(w), NEW e \in listed' PROVE e.id < w.id
    BY <1>3, <1>1, <1>2, <2>1, <2>2, <2>4
  <2>5. ASSUME ~First(w) PROVE \E e \in listed' : e.id = w.id /\ e.submitted = w.submitted
    <3>1. PICK e \in listed : e.id = w.id /\ e.submitted = w.submitted
      BY <2>1, <2>5
    <3>2. CASE e.id # v.id
      BY <1>3, <1>1, <1>2, <3>1, <3>2
    <3>3. CASE e.id = v.id
      <4>1. ~First(v)
        <5>1. e \in Entry
          BY FreshMeans
        <5>2. ~(e.id < v.id)
          BY <1>3, <1>1, <1>2, <3>3, <5>1, Stamps
        <5>3. QED
          BY <1>3, <1>1, <1>2, <5>2
      <4>2. PICK old \in listed : old.id = v.id /\ old.submitted = v.submitted
        BY <1>3, <1>1, <1>2, <4>1
      <4>3. old = e
        BY <1>3, <1>1, <1>2, <3>3, <4>2 DEF InOrder
      <4>4. QED
        BY <1>3, <1>1, <1>2, <3>1, <4>2, <4>3
    <3>4. QED
      BY <3>2, <3>3
  <2>6. \A e \in listed' : e.updated <= w.updated
    BY <1>3, <1>1, <1>2, <2>1, <2>2
  <2>7. QED
    BY <2>3, <2>4, <2>5, <2>6
<1>9. \A j \in DOMAIN hidden' :
        /\ Known(hidden[j])'
        /\ \A e \in listed' : e.updated <= hidden'[j].updated
        /\ IF First(hidden'[j])
           THEN \A e \in listed' : e.id < hidden'[j].id
           ELSE \E e \in listed' : e.id = hidden'[j].id /\ e.submitted = hidden'[j].submitted
  <2>1. TAKE j \in DOMAIN hidden'
  <2>2. PICK w : w = hidden[j + 1]
    OBVIOUS
  <2>3. w = hidden'[j] /\ j \in 1 .. n - 1
    BY <1>4, <2>2
  <2>4. Known(w)' <=> Known(hidden[j])'
    BY <2>3 DEF Known
  <2>5. /\ Known(w)'
        /\ \A e \in listed' : e.updated <= w.updated
        /\ IF First(w)
           THEN \A e \in listed' : e.id < w.id
           ELSE \E e \in listed' : e.id = w.id /\ e.submitted = w.submitted
    BY <1>8, <2>2, <2>3
  <2>6. QED
    BY <2>3, <2>4, <2>5
<1>10. \A i, j \in DOMAIN hidden' : i < j =>
        /\ hidden'[i].updated <= hidden'[j].updated
        /\ First(hidden'[i]) /\ First(hidden'[j]) => hidden'[i].id < hidden'[j].id
  <2>1. TAKE i, j \in DOMAIN hidden'
  <2>2. HAVE i < j
  <2>3. /\ i + 1 \in DOMAIN hidden /\ j + 1 \in DOMAIN hidden /\ i + 1 < j + 1
        /\ hidden'[i] = hidden[i + 1] /\ hidden'[j] = hidden[j + 1]
    BY <1>4, <1>5, <2>2
  <2>4. QED
    BY <1>3, <1>1, <1>2, <2>3 DEF InOrder
<1>11. QED
  BY <1>3, <1>1, <1>2, <1>7, <1>9, <1>10 DEF InOrder, First
LEMMA CursorShown ==
  ASSUME TypeOK, ArxivInv, NEW k \in DOMAIN hidden, Announce(k), calm'
  PROVE  CursorInv' /\ (poll # Idle => PollInv')
<1>0. PICK v : v = hidden[1]
  OBVIOUS
<1>1. UNCHANGED <<cursor, poll, received, lost>>
  BY DEF Announce, Watched
<1>2. /\ calm /\ Cardinality(Fresh) < PageSize /\ v \in Entry /\ Known(v)
      /\ v \in listed' /\ IsFiniteSet(listed')
      /\ \A e \in listed' : e = v \/ e \in listed
      /\ IF First(v)
         THEN \A e \in listed : e.id < v.id /\ e.submitted <= v.submitted
         ELSE \E e \in listed : e.id = v.id /\ e.submitted = v.submitted
      /\ \A e \in listed : e.updated <= v.updated
  BY <1>0, ShowsUp
<1>3. \A e \in FirstPage : \E b \in FirstPage' : AtMost(e, b)
  BY <1>0, ShowsUp
<1>4. CursorInv /\ IsFiniteSet(listed)
  BY <1>2 DEF ArxivInv
<1>5. /\ FirstPage \subseteq listed /\ listed \subseteq Entry
      /\ Fresh = {e \in listed : cursor.time = NoTime \/ NoCursor \/ Later(e, Reached)}
      /\ cursor.time \in Int /\ cursor.id \in Nat
      /\ Reached.updated = cursor.time /\ Reached.id = cursor.id
  BY FreshMeans
<1>6. /\ \A e \in Entry : e.id \in Int /\ e.updated \in Int /\ e.submitted \in Int
      /\ \A e \in FirstPage' : e \in Entry
  <2>1. FirstPage' \subseteq listed'
    BY DEF FirstPage
  <2>2. QED
    BY <1>2, <1>5, <2>1, Stamps
<1>7. Fresh' = {e \in listed' : cursor.time = NoTime \/ NoCursor \/ Later(e, Reached)}
  <2>1. \A e : After([id |-> e.id, updated |-> e.submitted], cursor)
               <=> cursor.time = NoTime \/ NoCursor \/ Later(e, Reached)
    BY <1>5 DEF After, Later, NoCursor
  <2>2. QED
    BY <1>1, <2>1 DEF Fresh
\* What a version on the first page precedes does not change.
<1>8. ASSUME NEW x, x.updated \in Int, x.id \in Int,
             \E b \in FirstPage : AtMost(x, b)
      PROVE  /\ \E b \in FirstPage' : AtMost(x, b)
             /\ First(v) => Later(v, x)
  <2>1. PICK b \in FirstPage : AtMost(x, b)
    BY <1>8
  <2>2. PICK c \in FirstPage' : AtMost(b, c)
    BY <1>3
  <2>3. b \in Entry /\ b \in listed /\ c \in Entry
    BY <1>5, <1>6
  <2>4. AtMost(x, c)
    BY <1>6, <1>8, <2>1, <2>2, <2>3 DEF AtMost
  <2>5. First(v) => Later(v, x)
    BY <1>2, <1>6, <1>8, <2>1, <2>3 DEF AtMost, Later, First
  <2>6. QED
    BY <2>2, <2>4, <2>5
\* A replacement is as late as what it replaces.
<1>9. ASSUME ~First(v)
      PROVE  \E e \in listed : e.id = v.id /\ \A x : Later(e, x) => Later(v, x)
  BY <1>2, <1>9 DEF Later
<1>10. CursorInv'
  <2>1. NoCursor \/ \E b \in FirstPage' : AtMost(Reached, b)
    BY <1>4, <1>5, <1>8 DEF CursorInv
  <2>2. Cardinality(Fresh') <= PageSize
    <3>1. Fresh' \in SUBSET (Fresh \cup {v})
      BY <1>2, <1>5, <1>7
    <3>2. /\ IsFiniteSet(Fresh \cup {v}) /\ Cardinality(Fresh \cup {v}) <= Cardinality(Fresh) + 1
          /\ Cardinality(Fresh) \in Nat
      <4>1. IsFiniteSet(Fresh)
        BY <1>4, <1>5, FS_Subset
      <4>2. /\ IsFiniteSet(Fresh \cup {v})
            /\ Cardinality(Fresh \cup {v}) =
                 IF v \in Fresh THEN Cardinality(Fresh) ELSE Cardinality(Fresh) + 1
        BY <4>1, FS_AddElement
      <4>3. Cardinality(Fresh) \in Nat
        BY <4>1, FS_CardinalityType
      <4>4. QED
        BY <4>2, <4>3
    <3>3. /\ Cardinality(Fresh') <= Cardinality(Fresh \cup {v})
          /\ Cardinality(Fresh') \in Nat /\ Cardinality(Fresh \cup {v}) \in Nat
      BY <3>1, <3>2, FS_Subset, FS_CardinalityType
    <3>4. QED
      BY <1>2, <3>2, <3>3, Stamps
  <2>3. ASSUME ~lost PROVE \A e \in listed' : e \in Fresh' \/ e.id \in received
    <3>1. v \in Fresh' \/ v.id \in received
      <4>1. CASE First(v)
        BY <1>2, <1>4, <1>5, <1>7, <1>8, <4>1 DEF CursorInv
      <4>2. CASE ~First(v)
        <5>1. PICK e \in listed : e.id = v.id /\ \A x : Later(e, x) => Later(v, x)
          BY <1>9, <4>2
        <5>2. e \in Fresh \/ e.id \in received
          BY <1>4, <2>3 DEF CursorInv
        <5>3. QED
          BY <1>2, <1>5, <1>7, <5>1, <5>2
      <4>3. QED
        BY <4>1, <4>2
    <3>2. QED
      BY <1>2, <1>4, <1>5, <1>7, <2>3, <3>1 DEF CursorInv
  <2>4. cursor.time = NoTime <=> NoCursor
    BY <1>4 DEF CursorInv
  <2>5. QED
    BY <1>1, <2>1, <2>2, <2>3, <2>4 DEF CursorInv, NoCursor, Reached
<1>11. ASSUME poll # Idle PROVE PollInv'
  <2>1. PollInv
    BY <1>2, <1>11 DEF ArxivInv
  <2>2. \A x \in poll.page : x.updated \in Int /\ x.id \in Int
    BY <1>6, <1>11 DEF TypeOK, PollStates
  <2>3. \A x \in poll.page : /\ \E b \in FirstPage' : AtMost(x, b)
                             /\ First(v) => Later(v, x)
    BY <1>8, <2>1, <2>2 DEF PollInv
  <2>4. ASSUME ~lost
        PROVE  \A e \in listed' : \/ e.id \in received
                                  \/ \E f \in poll.todo : f.id = e.id
                                  \/ \A x \in poll.page : Later(e, x)
    <3>1. \A e \in listed : \/ e.id \in received
                            \/ \E f \in poll.todo : f.id = e.id
                            \/ \A x \in poll.page : Later(e, x)
      BY <2>1, <2>4 DEF PollInv
    <3>2. \/ v.id \in received
          \/ \E f \in poll.todo : f.id = v.id
          \/ \A x \in poll.page : Later(v, x)
      <4>1. CASE First(v)
        BY <2>3, <4>1
      <4>2. CASE ~First(v)
        <5>1. PICK e \in listed : e.id = v.id /\ \A x : Later(e, x) => Later(v, x)
          BY <1>9, <4>2
        <5>2. QED
          BY <3>1, <5>1
      <4>3. QED
        BY <4>1, <4>2
    <3>3. \A e \in listed' : e = v \/ e \in listed
      BY <1>2
    <3>4. TAKE e \in listed'
    <3>5. CASE e = v
      BY <3>2, <3>5
    <3>6. CASE e \in listed
      BY <3>1, <3>6
    <3>7. QED
      BY <3>3, <3>5, <3>6
  <2>5. NoCursor \/ \E x \in poll.page : AtMost(Reached, x)
    BY <2>1 DEF PollInv
  <2>6. QED
    BY <1>1, <2>3, <2>4, <2>5 DEF PollInv, NoCursor, Reached
<1>12. QED
  BY <1>10, <1>11

LEMMA AnnounceStep ==
  ASSUME TypeOK, ArxivInv, NEW k \in DOMAIN hidden, Announce(k)
  PROVE  ArxivInv'
<1>1. UNCHANGED <<cursor, conn, poll, received, lost>>
  BY DEF Announce, Watched
<1>2. IsFiniteSet(listed')
  <2>1. IsFiniteSet({f \in listed : f.id # hidden[k].id})
    BY FS_Subset DEF ArxivInv
  <2>2. QED
    BY <2>1, FS_AddElement DEF Announce
<1>3. calm' => InOrder' /\ CursorInv' /\ (poll' # Idle => PollInv')
  BY <1>1, OrderShown, CursorShown
<1>4. QED
  BY <1>1, <1>2, <1>3 DEF ArxivInv
-----------------------------------------------------------------------------
(***************************************************************************)
(* The steps of the watcher.                                               *)
(***************************************************************************)
\* What they leave alone of arXiv and of the cursor.
LEMMA CursorStays ==
  ASSUME UNCHANGED <<now, hidden, listed, ids, cursor>>, lost => lost', received \subseteq received'
  PROVE  /\ InOrder => InOrder'
         /\ CursorInv => CursorInv'
         /\ FirstPage' = FirstPage /\ Fresh' = Fresh
<1>1. FirstPage' = FirstPage /\ Fresh' = Fresh
  BY SameListing
<1>2. InOrder => InOrder'
  BY DEF InOrder, Known, First
<1>3. CursorInv => CursorInv'
  BY <1>1 DEF CursorInv, NoCursor, Reached
<1>4. QED
  BY <1>1, <1>2, <1>3

LEMMA FetchStep ==
  ASSUME TypeOK, ArxivInv, Fetch
  PROVE  ArxivInv'
<1>1. /\ UNCHANGED <<now, hidden, listed, ids, calm, cursor, received, lost>>
      /\ poll' = [at |-> "write", page |-> FirstPage,
                  todo |-> {e \in FirstPage : After(e, cursor)}]
      /\ conn' = IF conn = "nil" THEN "up" ELSE conn
  BY DEF Fetch, arxiv
<1>2. poll'.page = FirstPage /\ poll'.todo = {e \in FirstPage : After(e, cursor)}
  BY <1>1
<1>3. FirstPage' = FirstPage /\ (InOrder => InOrder') /\ (CursorInv => CursorInv')
  BY <1>1, CursorStays
<1>4. ASSUME InOrder, CursorInv PROVE PollInv'
  <2>1. /\ FirstPage \subseteq listed /\ listed \subseteq Entry
        /\ Fresh = {e \in listed : cursor.time = NoTime \/ NoCursor \/ Later(e, Reached)}
        /\ cursor.time \in Int /\ cursor.id \in Nat
        /\ Reached.updated = cursor.time /\ Reached.id = cursor.id
    BY FreshMeans
  <2>2. \A x \in FirstPage : AtMost(x, x)
    BY <2>1, Stamps DEF AtMost
  <2>3. ASSUME ~lost, NEW e \in listed
        PROVE  e.id \in received \/ \E f \in FirstPage : After(f, cursor) /\ f.id = e.id
    <3>1. CASE e \notin Fresh
      BY <1>4, <2>3, <3>1 DEF CursorInv
    <3>2. CASE e \in Fresh
      <4>1. e \in FirstPage
        BY <1>4, <3>2, FreshOnPage DEF CursorInv, ArxivInv
      <4>2. After(e, cursor)
        <5>1. Known(e) /\ e \in Entry
          BY <1>4, <2>1 DEF InOrder
        <5>2. cursor.time = NoTime \/ NoCursor \/ Later(e, Reached)
          BY <2>1, <3>2
        <5>3. QED
          BY <2>1, <5>1, <5>2, Stamps DEF After, NoCursor, Later, Known
      <4>3. QED
        BY <4>1, <4>2
    <3>3. QED
      BY <3>1, <3>2
  <2>4. NoCursor \/ \E x \in FirstPage : AtMost(Reached, x)
    BY <1>4 DEF CursorInv
  <2>5. ~lost => \A e \in listed : e.id \in received \/ \E f \in poll'.todo : f.id = e.id
    BY <1>2, <2>3
  <2>6. QED
    BY <1>1, <1>2, <1>3, <2>2, <2>4, <2>5 DEF PollInv, NoCursor, Reached
<1>5. QED
  BY <1>1, <1>3, <1>4 DEF ArxivInv

LEMMA WriteStep ==
  ASSUME TypeOK, ArxivInv, Write
  PROVE  ArxivInv'
<1>1. /\ UNCHANGED <<now, hidden, listed, ids, calm, cursor, conn, lost>>
      /\ poll # Idle /\ poll.todo # {} /\ poll \in PollStates
      /\ poll' = [poll EXCEPT !.todo = @ \ {Newest}]
      /\ received' = IF conn = "up" THEN received \cup {Newest.id} ELSE received
  BY DEF Write, Writing, arxiv, TypeOK
<1>2. poll'.page = poll.page /\ poll'.todo = poll.todo \ {Newest} /\ poll' # Idle
  BY <1>1 DEF PollStates, Idle
<1>3. received \subseteq received' /\ (~lost => Newest.id \in received')
  BY <1>1 DEF ArxivInv, TypeOK
<1>4. /\ FirstPage' = FirstPage /\ (InOrder => InOrder') /\ (CursorInv => CursorInv')
  BY <1>1, <1>3, CursorStays
<1>5. ASSUME PollInv PROVE PollInv'
  <2>1. ASSUME ~lost, NEW e \in listed
        PROVE  \/ e.id \in received'
               \/ \E f \in poll.todo \ {Newest} : f.id = e.id
               \/ \A x \in poll.page : Later(e, x)
    BY <1>3, <1>5, <2>1 DEF PollInv
  <2>2. QED
    BY <1>1, <1>2, <1>4, <1>5, <2>1 DEF PollInv, NoCursor, Reached
<1>6. QED
  BY <1>1, <1>2, <1>4, <1>5 DEF ArxivInv

LEMMA CursorStep ==
  ASSUME TypeOK, ArxivInv, SetArxivCursor
  PROVE  ArxivInv'
<1>1. /\ UNCHANGED <<now, hidden, listed, ids, calm, conn, received, lost>>
      /\ poll # Idle /\ poll.todo = {} /\ poll' = Idle /\ poll \in PollStates
      /\ \/ UNCHANGED cursor
         \/ cursor' = [time |-> MaxComposite(poll.page).updated, id |-> MaxComposite(poll.page).id]
  BY DEF SetArxivCursor, arxiv, TypeOK
<1>2. CASE UNCHANGED cursor
  <2>1. (InOrder => InOrder') /\ (CursorInv => CursorInv')
    BY <1>1, <1>2, CursorStays
  <2>2. QED
    BY <1>1, <2>1 DEF ArxivInv
<1>3. CASE cursor' = [time |-> MaxComposite(poll.page).updated, id |-> MaxComposite(poll.page).id]
  <2>1. PICK best : best = MaxComposite(poll.page)
    OBVIOUS
  <2>2. /\ poll.page \subseteq Entry /\ best \in poll.page /\ best \in Entry
        /\ \A e \in poll.page : AtMost(e, best)
    <3>1. poll.page \in SUBSET Entry /\ poll.page # {}
      BY <1>1 DEF PollStates
    <3>2. QED
      BY <2>1, <3>1, MaxIsThere DEF AtMost
  <2>3. /\ cursor'.time = best.updated /\ cursor'.id = best.id
        /\ best.updated \in Nat /\ best.id \in Nat /\ best.id # 0
        /\ best.updated # NoTime
    BY <1>3, <2>1, <2>2, Stamps DEF NoTime
  <2>4. ASSUME calm PROVE InOrder' /\ CursorInv'
    <3>1. InOrder /\ CursorInv /\ PollInv /\ IsFiniteSet(listed)
      BY <1>1, <2>4 DEF ArxivInv
    <3>2. InOrder'
      BY <1>1, <3>1 DEF InOrder, Known, First
    <3>3. /\ FirstPage' = FirstPage
          /\ Fresh = {e \in listed : cursor.time = NoTime \/ NoCursor \/ Later(e, Reached)}
          /\ cursor.time \in Int /\ cursor.id \in Nat /\ listed \subseteq Entry
          /\ Reached.updated = cursor.time /\ Reached.id = cursor.id
          /\ \A e \in Entry : e.id \in Int /\ e.updated \in Int /\ e.submitted \in Int
      BY <1>1, FreshMeans, SameListing, Stamps
    <3>4. Fresh' = {e \in listed : Later(e, best)}
      <4>1. \A e : After([id |-> e.id, updated |-> e.submitted], cursor)' <=> Later(e, best)
        BY <2>3 DEF After, Later
      <4>2. QED
        BY <1>1, <4>1 DEF Fresh
    <3>5. Fresh' \subseteq Fresh
      <4>1. CASE NoCursor
        BY <3>3, <3>4, <4>1
      <4>2. CASE ~NoCursor
        <5>1. PICK x \in poll.page : AtMost(Reached, x)
          BY <3>1, <4>2 DEF PollInv
        <5>2. AtMost(Reached, best)
          BY <2>2, <3>3, <5>1 DEF AtMost
        <5>3. \A e \in listed : Later(e, best) => Later(e, Reached)
          BY <2>2, <3>3, <5>2 DEF AtMost, Later
        <5>4. QED
          BY <3>3, <3>4, <5>3
      <4>3. QED
        BY <4>1, <4>2
    <3>6. Cardinality(Fresh') <= PageSize
      <4>1. IsFiniteSet(Fresh) /\ Cardinality(Fresh) \in Nat
        BY <3>1, <3>3, FS_Subset, FS_CardinalityType
      <4>2. Cardinality(Fresh') <= Cardinality(Fresh) /\ Cardinality(Fresh') \in Nat
        BY <3>5, <4>1, FS_Subset, FS_CardinalityType
      <4>3. QED
        BY <3>1, <4>1, <4>2, Stamps DEF CursorInv
    <3>7. ~lost => \A e \in listed : e \in Fresh' \/ e.id \in received
      BY <1>1, <2>2, <3>1, <3>4 DEF PollInv
    <3>8. \E b \in FirstPage : AtMost(best, b)
      BY <2>2, <3>1 DEF PollInv
    <3>9. /\ (NoCursor \/ \E b \in FirstPage : AtMost(Reached, b))'
          /\ (cursor.time = NoTime <=> NoCursor)'
      BY <2>3, <3>3, <3>8 DEF NoCursor, Reached, AtMost
    <3>10. QED
      BY <1>1, <3>2, <3>6, <3>7, <3>9 DEF CursorInv
  <2>5. QED
    BY <1>1, <2>4 DEF ArxivInv
<1>4. QED
  BY <1>1, <1>2, <1>3

\* A poll ends before its cursor, or does not begin.
LEMMA PollStops ==
  ASSUME ArxivInv, FetchFails \/ WriteFails \/ Crash
  PROVE  ArxivInv'
<1>1. /\ UNCHANGED <<now, hidden, listed, ids, calm, cursor, received, lost>>
      /\ conn' # "cut" /\ poll' = Idle
  BY DEF FetchFails, WriteFails, Crash, arxiv
<1>2. (InOrder => InOrder') /\ (CursorInv => CursorInv')
  BY <1>1, CursorStays
<1>3. QED
  BY <1>1, <1>2 DEF ArxivInv

LEMMA DedupStep ==
  ASSUME ArxivInv, DedupDies
  PROVE  ArxivInv'
<1>1. /\ UNCHANGED <<now, hidden, listed, ids, calm, cursor, received, poll>>
      /\ conn' = "cut" /\ lost'
  BY DEF DedupDies, arxiv
<1>2. FirstPage' = FirstPage /\ (InOrder => InOrder') /\ (CursorInv => CursorInv')
  BY <1>1, CursorStays
<1>3. PollInv => PollInv'
  BY <1>1, <1>2 DEF PollInv, NoCursor, Reached
<1>4. QED
  BY <1>1, <1>2, <1>3 DEF ArxivInv

LEMMA ArxivStep == TypeOK /\ ArxivInv /\ [Next]_vars => ArxivInv'
<1> SUFFICES ASSUME TypeOK, ArxivInv, [Next]_vars PROVE ArxivInv'
  OBVIOUS
<1>1. CASE UNCHANGED vars
  <2>1. UNCHANGED <<now, hidden, listed, ids, calm, cursor, conn, poll, received, lost>>
    BY <1>1 DEF vars
  <2>2. InOrder => InOrder'
    BY <2>1, CursorStays
  <2>3. QED
    BY <2>1, <2>2, ListingStays DEF ArxivInv
<1>2. QED
  BY <1>1, TickStep, SubmitStep, ReviseStep, AnnounceStep, FetchStep, WriteStep, CursorStep,
     PollStops, DedupStep DEF Next, Watcher

LEMMA ArxivInit == Init => TypeOK /\ ArxivInv
<1> SUFFICES ASSUME Init PROVE TypeOK /\ ArxivInv
  OBVIOUS
<1>1. TypeOK
  <2>1. 0 \in Times /\ 0 \in 0 .. MaxEntries /\ 0 \in 0 .. MaxFaults /\ << >> \in Seq(Entry)
    BY Stamps DEF Times
  <2>2. QED
    BY <2>1 DEF Init, TypeOK, PollStates
<1>2. listed = {} /\ DOMAIN hidden = {} /\ Fresh = {} /\ NoCursor /\ cursor.time = NoTime
  BY DEF Init, Fresh, NoCursor
<1>3. InOrder /\ CursorInv
  BY <1>2, FS_EmptySet, Stamps DEF InOrder, CursorInv
<1>4. ArxivInv
  BY <1>2, <1>3, FS_EmptySet DEF Init, ArxivInv
<1>5. QED
  BY <1>1, <1>4

\* The cursor passes no entry that dedup has not received: not when versions
\* are announced during a poll, entries are revised, a page is full, or the
\* watcher dies between its writes and its cursor.  The page needs to hold only
\* what has become new since the last cursor.
THEOREM NoEntryPassed == Spec => []NothingPassed
<1>1. ASSUME TypeOK, ArxivInv PROVE NothingPassed
  <2> SUFFICES ASSUME calm, ~lost, NEW e \in listed, ~After(e, cursor) PROVE e.id \in received
    BY DEF NothingPassed
  <2>1. InOrder /\ CursorInv
    BY <1>1 DEF ArxivInv
  <2>2. /\ e \in Entry /\ cursor.time \in Int /\ cursor.id \in Nat
        /\ Fresh = {f \in listed : cursor.time = NoTime \/ NoCursor \/ Later(f, Reached)}
        /\ Reached.updated = cursor.time /\ Reached.id = cursor.id
    BY <1>1, FreshMeans
  <2>3. Known(e)
    BY <2>1 DEF InOrder
  <2>4. ~(cursor.time = NoTime \/ NoCursor \/ Later(e, Reached))
    BY <2>2, <2>3, Stamps DEF After, NoCursor, Later, Known
  <2>5. QED
    BY <2>1, <2>2, <2>4 DEF CursorInv
<1>2. QED
  BY <1>1, ArxivInit, TypeStep, ArxivStep, PTL DEF Spec

\* The cursor only moves forward: a page is never older than the cursor.
THEOREM CursorForward == Spec => CursorAdvances
<1>1. ASSUME TypeOK, ArxivInv, [Next]_vars, calm, cursor.id # 0
      PROVE  \/ cursor' = cursor
             \/ cursor'.time > cursor.time
             \/ cursor'.time = cursor.time /\ cursor'.id > cursor.id
  <2>1. CASE UNCHANGED cursor
    BY <2>1
  <2>2. CASE SetArxivCursor
    <3>1. /\ poll # Idle /\ poll \in PollStates
          /\ \/ UNCHANGED cursor
             \/ cursor' = [time |-> MaxComposite(poll.page).updated,
                           id |-> MaxComposite(poll.page).id]
      BY <1>1, <2>2 DEF SetArxivCursor, TypeOK
    <3>2. PICK best : best = MaxComposite(poll.page)
      OBVIOUS
    <3>3. /\ poll.page \subseteq Entry /\ best \in poll.page
          /\ \A e \in poll.page : AtMost(e, best)
      <4>1. poll.page \in SUBSET Entry /\ poll.page # {}
        BY <3>1 DEF PollStates
      <4>2. QED
        BY <3>2, <4>1, MaxIsThere DEF AtMost
    <3>4. PICK x \in poll.page : AtMost(Reached, x)
      BY <1>1, <3>1 DEF ArxivInv, PollInv, NoCursor
    <3>5. /\ cursor \in [time : Times \cup {NoTime}, id : 0 .. MaxEntries]
          /\ Reached.updated = cursor.time /\ Reached.id = cursor.id
          /\ cursor.time \in Int /\ cursor.id \in Nat
      BY <1>1, FreshMeans DEF TypeOK
    <3>6. best.updated > cursor.time \/ (best.updated = cursor.time /\ best.id >= cursor.id)
      BY <3>3, <3>4, <3>5, Stamps DEF AtMost
    <3>7. best \in Entry /\ best.id \in Nat
      BY <3>3, Stamps
    <3>8. cursor = [time |-> cursor.time, id |-> cursor.id]
      BY <3>5
    <3>9. CASE cursor' = [time |-> best.updated, id |-> best.id]
      BY <3>5, <3>6, <3>7, <3>8, <3>9
    <3>10. QED
      BY <2>1, <3>1, <3>2, <3>9
  <2>3. UNCHANGED cursor \/ SetArxivCursor
    BY <1>1 DEF Next, Watcher, vars, arxiv, Watched, Tick, Submit, Revise, Announce, Fetch,
                FetchFails, Write, WriteFails, Crash, DedupDies
  <2>4. QED
    BY <2>1, <2>2, <2>3
<1>2. TypeOK /\ ArxivInv /\ [Next]_vars =>
        [calm /\ cursor.id # 0 =>
           \/ cursor' = cursor
           \/ cursor'.time > cursor.time
           \/ cursor'.time = cursor.time /\ cursor'.id > cursor.id]_vars
  BY <1>1
<1>3. QED
  BY <1>2, ArxivInit, TypeStep, ArxivStep, PTL DEF Spec, CursorAdvances
=============================================================================
