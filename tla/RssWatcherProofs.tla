-------------------------- MODULE RssWatcherProofs --------------------------
(***************************************************************************)
(* What holds of the cursors of the feeds, for any number of feeds and     *)
(* items and any dates.                                                    *)
(***************************************************************************)
EXTENDS RssWatcher, SequenceTheorems, TLAPS

LEMMA Prepended ==
  ASSUME NEW S, NEW s \in Seq(S), NEW x \in S
  PROVE  /\ <<x>> \o s \in Seq(S) /\ Len(<<x>> \o s) = Len(s) + 1 /\ Len(s) \in Nat
         /\ (<<x>> \o s)[1] = x
         /\ \A i \in 1 .. Len(s) : (<<x>> \o s)[i + 1] = s[i]
<1>1. <<x>> \in Seq(S) /\ Len(<<x>>) = 1 /\ <<x>>[1] = x
  OBVIOUS
<1>2. /\ <<x>> \o s \in Seq(S)
      /\ Len(<<x>> \o s) = Len(<<x>>) + Len(s)
  BY <1>1, ConcatProperties
<1>3. \A i \in 1 .. Len(<<x>>) + Len(s) : (<<x>> \o s)[i] =
                     IF i <= Len(<<x>>) THEN <<x>>[i] ELSE s[i - Len(<<x>>)]
  BY <1>1, ConcatProperties
<1>4. Len(s) \in Nat
  OBVIOUS
<1>5. (<<x>> \o s)[1] = x /\ \A i \in 1 .. Len(s) : (<<x>> \o s)[i + 1] = s[i]
  BY <1>1, <1>3, <1>4
<1>6. QED
  BY <1>1, <1>2, <1>4, <1>5

LEMMA Reversed ==
  ASSUME NEW S, NEW s \in Seq(S)
  PROVE  /\ Reverse(s) \in Seq(S) /\ Len(Reverse(s)) = Len(s) /\ Len(s) \in Nat
         /\ \A i \in 1 .. Len(s) : Reverse(s)[i] = s[(Len(s) - i) + 1]
<1>1. Len(s) \in Nat /\ s \in [1 .. Len(s) -> S]
  OBVIOUS
<1>2. \A i \in 1 .. Len(s) : (Len(s) - i) + 1 \in 1 .. Len(s)
  BY <1>1
<1>3. Reverse(s) \in [1 .. Len(s) -> S]
  BY <1>1, <1>2 DEF Reverse
<1>4. Reverse(s) \in Seq(S) /\ Len(Reverse(s)) = Len(s)
  BY <1>1, <1>3, LenProperties
<1>5. QED
  BY <1>1, <1>4 DEF Reverse

-----------------------------------------------------------------------------
(***************************************************************************)
(* Types.                                                                  *)
(***************************************************************************)
FeedStates == [at : {"items"}, feed : 1 .. Feeds, todo : Seq(Item), best : Cursor]

LEMMA Shapes ==
  ASSUME TypeOK
  PROVE  /\ Feeds \in Nat /\ Item \subseteq Cursor
         /\ InFeed <=> (poll # Idle /\ poll \in FeedStates)
         /\ \A f : At(f) => f \in 1 .. Feeds + 1 /\ ~InFeed
         /\ poll = Idle => ~InFeed
         /\ InFeed => /\ poll.feed \in 1 .. Feeds /\ poll.todo \in Seq(Item)
                      /\ poll.best \in Cursor
         /\ Looking => Head(poll.todo) \in Item /\ Tail(poll.todo) \in Seq(Item)
<1>1. Feeds \in Nat /\ Item \subseteq Cursor
  BY RssAssumption DEF Item, Cursor
<1>2. InFeed <=> (poll # Idle /\ poll \in FeedStates)
  BY DEF TypeOK, PollStates, InFeed, FeedStates
<1>3. \A f : At(f) => f \in 1 .. Feeds + 1 /\ ~InFeed
  BY DEF TypeOK, PollStates, InFeed, At, Idle
<1>4. InFeed => /\ poll.feed \in 1 .. Feeds /\ poll.todo \in Seq(Item)
                /\ poll.best \in Cursor
  BY <1>2 DEF FeedStates
<1>5. Looking => Head(poll.todo) \in Item /\ Tail(poll.todo) \in Seq(Item)
  BY <1>4, HeadTailProperties DEF Looking
<1>6. QED
  BY <1>1, <1>2, <1>3, <1>4, <1>5 DEF InFeed

LEMMA TypeStep == TypeOK /\ [Next]_vars => TypeOK'
<1> SUFFICES ASSUME TypeOK, [Next]_vars PROVE TypeOK'
  OBVIOUS
<1>0. /\ listing \in [1 .. Feeds -> Seq(Item)] /\ cursor \in [1 .. Feeds -> Cursor]
      /\ conn \in {"nil", "up", "cut"} /\ poll \in PollStates /\ faults \in 0 .. MaxFaults
      /\ received \in [1 .. Feeds -> SUBSET Item] /\ lost \in BOOLEAN /\ MaxFaults \in Nat
  BY RssAssumption DEF TypeOK
<1> DEFINE Poll(f) == [at |-> "next", feed |-> f]
<1>1. Idle \in PollStates /\ \A f \in 1 .. Feeds + 1 : Poll(f) \in PollStates
  BY DEF PollStates
<1>2. \A kind : Fault(kind) => faults' \in 0 .. MaxFaults
  BY <1>0 DEF Fault
<1>3. \A f \in 1 .. Feeds : f + 1 \in 1 .. Feeds + 1 /\ 1 \in 1 .. Feeds + 1
  BY Shapes
<1>4. \A f \in 1 .. Feeds : Proceed(f) => poll' \in PollStates
  BY <1>1, <1>3 DEF Proceed
<1>5. ASSUME NEW f \in 1 .. Feeds, NEW item \in Item, Publish(f, item) PROVE TypeOK'
  <2>1. listing[f] \in Seq(Item)
    BY <1>0
  <2>2. <<item>> \o listing[f] \in Seq(Item)
    BY <2>1, Prepended
  <2>3. listing' \in [1 .. Feeds -> Seq(Item)]
    BY <1>0, <1>5, <2>2 DEF Publish
  <2>4. QED
    BY <1>0, <1>5, <2>3 DEF Publish, TypeOK
<1>6. CASE PollStart
  <2>1. poll' \in PollStates
    BY <1>0, <1>1, <1>6, Shapes DEF PollStart
  <2>2. QED
    BY <1>0, <1>2, <1>6, <2>1 DEF PollStart, TypeOK
<1>7. ASSUME NEW f \in 1 .. Feeds, FeedStart(f) PROVE TypeOK'
  <2>1. Reverse(listing[f]) \in Seq(Item)
    BY <1>0, Reversed
  <2>2. poll' \in PollStates
    BY <1>0, <1>7, <2>1 DEF FeedStart, PollStates
  <2>3. QED
    BY <1>0, <1>7, <2>2 DEF FeedStart, TypeOK
<1>8. ASSUME NEW f \in 1 .. Feeds, FeedFails(f) PROVE TypeOK'
  BY <1>0, <1>2, <1>4, <1>8 DEF FeedFails, TypeOK
<1>9. CASE ItemSkip
  <2>1. InFeed /\ poll \in FeedStates /\ Tail(poll.todo) \in Seq(Item)
    BY <1>9, Shapes DEF ItemSkip, Looking
  <2>2. poll' \in PollStates
    BY <1>9, <2>1 DEF ItemSkip, FeedStates, PollStates
  <2>3. QED
    BY <1>0, <1>9, <2>2 DEF ItemSkip, TypeOK
<1>10. CASE ItemWrite
  <2>1. /\ InFeed /\ poll \in FeedStates /\ Tail(poll.todo) \in Seq(Item)
        /\ Head(poll.todo) \in Item /\ Head(poll.todo) \in Cursor
    BY <1>10, Shapes DEF ItemWrite, Looking
  <2>2. poll' \in PollStates
    BY <1>10, <2>1 DEF ItemWrite, FeedStates, PollStates
  <2>3. received' \in [1 .. Feeds -> SUBSET Item]
    BY <1>0, <1>10, <2>1 DEF ItemWrite
  <2>4. QED
    BY <1>0, <1>10, <2>2, <2>3 DEF ItemWrite, TypeOK
<1>11. CASE ItemWriteFails
  BY <1>0, <1>4, <1>11, Shapes DEF ItemWriteFails, Looking, TypeOK
<1>12. CASE ItemPanics \/ PollEnd
  BY <1>0, <1>1, <1>12 DEF ItemPanics, PollEnd, TypeOK
<1>13. CASE FeedEnd
  <2>1. poll' \in PollStates /\ cursor' \in [1 .. Feeds -> Cursor]
    BY <1>0, <1>4, <1>13, Shapes DEF FeedEnd
  <2>2. QED
    BY <1>0, <1>2, <1>13, <2>1 DEF FeedEnd, TypeOK
<1>14. CASE Crash \/ DedupDies
  BY <1>0, <1>1, <1>2, <1>14 DEF Crash, DedupDies, TypeOK
<1>15. CASE UNCHANGED vars
  BY <1>0, <1>15 DEF vars, TypeOK
<1>16. QED
  BY <1>5, <1>6, <1>7, <1>8, <1>9, <1>10, <1>11, <1>12, <1>13, <1>14, <1>15 DEF Next, Watcher
-----------------------------------------------------------------------------
(***************************************************************************)
(* The order of the items.                                                 *)
(***************************************************************************)
LEMMA Times == \A c \in Cursor : c.time \in Int /\ c.key \in Nat /\ (c.time = NoTime \/ c.time \in Nat)
<1>1. TAKE c \in Cursor
<1>2. c.time \in Dates \cup {NoTime} /\ c.key \in 0 .. Keys
  BY DEF Cursor
<1>3. Dates \subseteq Nat \cup {NoTime} /\ Keys \in Nat
  BY RssAssumption
<1>4. c.time = NoTime \/ c.time \in Nat
  BY <1>2, <1>3
<1>5. QED
  BY <1>2, <1>3, <1>4 DEF NoTime

LEMMA NewerAfter ==
  ASSUME NEW a \in Item, NEW c \in Cursor, Newer(a, c)
  PROVE  AfterCursor(a, c)
<1>1. a \in Cursor /\ a.key # 0
  BY DEF Item, Cursor
<1>2. /\ a.time \in Int /\ a.key \in Nat /\ (a.time = NoTime \/ a.time \in Nat)
      /\ c.time \in Int /\ c.key \in Nat /\ (c.time = NoTime \/ c.time \in Nat)
  BY <1>1, Times
<1>3. QED
  BY <1>1, <1>2 DEF Newer, AfterCursor, NoTime

LEMMA AfterNewer ==
  ASSUME NEW a \in Item, NEW c \in Cursor, a.time # NoTime, c.key # 0, AfterCursor(a, c)
  PROVE  Newer(a, c)
<1>1. a \in Cursor
  BY DEF Item, Cursor
<1>2. /\ a.time \in Int /\ a.key \in Nat /\ (a.time = NoTime \/ a.time \in Nat)
      /\ c.time \in Int /\ c.key \in Nat /\ (c.time = NoTime \/ c.time \in Nat)
  BY <1>1, Times
<1>3. QED
  BY <1>2 DEF Newer, AfterCursor, NoTime

LEMMA NewerTransitive ==
  ASSUME NEW a \in Cursor, NEW b \in Cursor, NEW c \in Cursor, Newer(a, b), Newer(b, c)
  PROVE  Newer(a, c)
<1>1. /\ a.time \in Int /\ a.key \in Int /\ b.time \in Int /\ b.key \in Int
      /\ c.time \in Int /\ c.key \in Int
  BY Times
<1>2. QED
  BY <1>1 DEF Newer

-----------------------------------------------------------------------------
(***************************************************************************)
(* The invariant.  Within a feed the items still to be looked at are a run *)
(* of its listing, what is listed after them has been received, and so has *)
(* all that the running cursor leaves behind.  The listing may grow at its *)
(* head meanwhile.                                                         *)
(***************************************************************************)
\* The items of todo are those at k + 1 .. k + Len(todo), backwards.
Place(f, todo, k) ==
  /\ k + Len(todo) <= Len(listing[f])
  /\ \A i \in 1 .. Len(todo) : todo[i] = listing[f][k + (Len(todo) - i) + 1]

Passed(f, todo, k) ==
  \A j \in DOMAIN listing[f] : j > k + Len(todo) => listing[f][j] \in received[f]

Delivered(f, best) ==
  \A item \in Listed(f) : AfterCursor(item, best) \/ item \in received[f]

Dated(f) == \A item \in Listed(f) : item.time # NoTime

FeedInv(f, todo, best) ==
  /\ best = cursor[f] \/ best \in Listed(f)
  /\ \E k \in Nat : /\ Place(f, todo, k)
                    /\ ~lost /\ NewestFirst(f) => Passed(f, todo, k)
  /\ ~lost /\ NewestFirst(f) => Delivered(f, best)
  /\ cursor[f].key # 0 /\ Dated(f) => best = cursor[f] \/ Newer(best, cursor[f])

RssInv ==
  /\ conn = "cut" => lost
  /\ \A f \in 1 .. Feeds : cursor[f].key = 0 \/ cursor[f] \in Listed(f)
  /\ NothingSkipped
  /\ InFeed => FeedInv(poll.feed, poll.todo, poll.best)

LEMMA ListedItems ==
  ASSUME TypeOK, NEW f \in 1 .. Feeds
  PROVE  /\ listing[f] \in Seq(Item) /\ Len(listing[f]) \in Nat
         /\ DOMAIN listing[f] = 1 .. Len(listing[f])
         /\ Listed(f) \subseteq Item /\ Item \subseteq Cursor /\ cursor[f] \in Cursor
<1>1. listing[f] \in Seq(Item) /\ cursor[f] \in Cursor
  BY DEF TypeOK
<1>2. QED
  BY <1>1, Shapes DEF Listed

\* What an item at the head of a listing does to it.
LEMMA Published1 ==
  ASSUME TypeOK, NEW f \in 1 .. Feeds, NEW item \in Item, Publish(f, item)
  PROVE  /\ \A g \in 1 .. Feeds : g # f => listing'[g] = listing[g]
         /\ listing'[f] \in Seq(Item) /\ Len(listing'[f]) = Len(listing[f]) + 1
         /\ listing'[f][1] = item
         /\ \A i \in 1 .. Len(listing[f]) : listing'[f][i + 1] = listing[f][i]
         /\ Listed(f)' = Listed(f) \cup {item}
         /\ NewestFirst(f)' =>
              NewestFirst(f) /\ \A other \in Listed(f) : Newer(item, other)
<1> DEFINE L == listing[f]
           M == listing'[f]
<1>1. L \in Seq(Item) /\ Len(L) \in Nat /\ listing' = [listing EXCEPT ![f] = <<item>> \o L]
      /\ listing \in [1 .. Feeds -> Seq(Item)]
  BY ListedItems DEF Publish, TypeOK
<1>2. M = <<item>> \o L /\ \A g \in 1 .. Feeds : g # f => listing'[g] = listing[g]
  BY <1>1
<1>3. /\ M \in Seq(Item) /\ Len(M) = Len(L) + 1 /\ M[1] = item
      /\ \A i \in 1 .. Len(L) : M[i + 1] = L[i]
  BY <1>1, <1>2, Prepended
<1> HIDE DEF L, M
<1>4. DOMAIN L = 1 .. Len(L) /\ DOMAIN M = 1 .. Len(L) + 1
  BY <1>1, <1>3
<1>5. {M[k] : k \in DOMAIN M} = {L[k] : k \in DOMAIN L} \cup {item}
  <2>1. ASSUME NEW k \in DOMAIN M PROVE M[k] \in {L[i] : i \in DOMAIN L} \cup {item}
    <3>1. k = 1 \/ (k - 1 \in 1 .. Len(L) /\ (k - 1) + 1 = k)
      BY <1>1, <1>4
    <3>2. QED
      BY <1>3, <1>4, <3>1
  <2>2. ASSUME NEW k \in DOMAIN L PROVE L[k] \in {M[i] : i \in DOMAIN M}
    <3>1. k + 1 \in DOMAIN M /\ M[k + 1] = L[k]
      BY <1>1, <1>3, <1>4
    <3>2. QED
      BY <3>1
  <2>3. item \in {M[i] : i \in DOMAIN M}
    <3>1. 1 \in DOMAIN M
      BY <1>1, <1>4
    <3>2. QED
      BY <1>3, <3>1
  <2>4. QED
    BY <2>1, <2>2, <2>3
<1>6. ASSUME \A k, n \in DOMAIN M : k < n => Newer(M[k], M[n])
      PROVE  /\ \A k, n \in DOMAIN L : k < n => Newer(L[k], L[n])
             /\ \A n \in DOMAIN L : Newer(item, L[n])
  <2>1. ASSUME NEW k \in DOMAIN L, NEW n \in DOMAIN L, k < n PROVE Newer(L[k], L[n])
    <3>1. /\ k + 1 \in DOMAIN M /\ n + 1 \in DOMAIN M /\ k + 1 < n + 1
          /\ M[k + 1] = L[k] /\ M[n + 1] = L[n]
      BY <1>1, <1>3, <1>4, <2>1
    <3>2. QED
      BY <1>6, <3>1
  <2>2. ASSUME NEW n \in DOMAIN L PROVE Newer(item, L[n])
    <3>1. 1 \in DOMAIN M /\ n + 1 \in DOMAIN M /\ 1 < n + 1 /\ M[n + 1] = L[n]
      BY <1>1, <1>3, <1>4
    <3>2. QED
      BY <1>3, <1>6, <3>1
  <2>3. QED
    BY <2>1, <2>2
<1>7. /\ Listed(f) = {L[k] : k \in DOMAIN L} /\ Listed(f)' = {M[k] : k \in DOMAIN M}
      /\ NewestFirst(f) <=> \A k, n \in DOMAIN L : k < n => Newer(L[k], L[n])
      /\ NewestFirst(f)' <=> \A k, n \in DOMAIN M : k < n => Newer(M[k], M[n])
  BY DEF Listed, NewestFirst, L, M
<1>8. NewestFirst(f)' => NewestFirst(f) /\ \A other \in Listed(f) : Newer(item, other)
  BY <1>6, <1>7
<1>9. QED
  BY <1>2, <1>3, <1>5, <1>7, <1>8 DEF L, M
\* An item that is published leaves the place of a poll in the listing.
LEMMA PlaceKept ==
  ASSUME TypeOK, NEW f \in 1 .. Feeds, NEW item \in Item, Publish(f, item),
         NEW todo \in Seq(Item), NEW k \in Nat, Place(f, todo, k)
  PROVE  Place(f, todo, k + 1)' /\ (Passed(f, todo, k) => Passed(f, todo, k + 1)')
<1> DEFINE L == listing[f]
           M == listing'[f]
           m == Len(todo)
<1>1. /\ Len(L) \in Nat /\ m \in Nat /\ k + m <= Len(L)
      /\ DOMAIN L = 1 .. Len(L)
      /\ \A i \in 1 .. m : todo[i] = L[k + (m - i) + 1]
  BY ListedItems DEF Place
<1>2. /\ Len(M) = Len(L) + 1 /\ DOMAIN M = 1 .. Len(M)
      /\ \A i \in 1 .. Len(L) : M[i + 1] = L[i]
  BY Published1
<1>3. UNCHANGED received
  BY DEF Publish
<1> HIDE DEF L, M, m
<1>4. ASSUME NEW i \in 1 .. m PROVE todo[i] = M[(k + 1) + (m - i) + 1]
  <2>1. /\ k + (m - i) + 1 \in 1 .. Len(L)
        /\ (k + (m - i) + 1) + 1 = (k + 1) + (m - i) + 1
    BY <1>1
  <2>2. QED
    BY <1>1, <1>2, <2>1
<1>5. (k + 1) + m <= Len(M)
  BY <1>1, <1>2
<1>6. ASSUME NEW j \in DOMAIN M, j > (k + 1) + m,
             \A i \in DOMAIN L : i > k + m => L[i] \in received[f]
      PROVE  M[j] \in received[f]
  <2>1. j - 1 \in DOMAIN L /\ j - 1 > k + m /\ (j - 1) + 1 = j
    BY <1>1, <1>2, <1>6
  <2>2. QED
    BY <1>1, <1>2, <1>6, <2>1
<1>7. QED
  BY <1>3, <1>4, <1>5, <1>6 DEF Place, Passed, L, M, m

LEMMA PublishStep ==
  ASSUME TypeOK, RssInv, NEW f \in 1 .. Feeds, NEW item \in Item, Publish(f, item)
  PROVE  RssInv'
<1>1. UNCHANGED <<cursor, conn, poll, received, lost>>
  BY DEF Publish
<1>2. /\ \A g \in 1 .. Feeds : g # f => listing'[g] = listing[g]
      /\ Listed(f)' = Listed(f) \cup {item}
      /\ NewestFirst(f)' => NewestFirst(f) /\ \A other \in Listed(f) : Newer(item, other)
  BY Published1
<1>3. \A g \in 1 .. Feeds : g # f =>
        /\ Listed(g)' = Listed(g) /\ (NewestFirst(g)' <=> NewestFirst(g))
  BY <1>2 DEF Listed, NewestFirst
<1>4. \A g \in 1 .. Feeds : Listed(g) \subseteq Listed(g)'
  BY <1>2, <1>3
<1>5. \A g \in 1 .. Feeds : cursor'[g].key = 0 \/ cursor'[g] \in Listed(g)'
  BY <1>1, <1>4 DEF RssInv
\* The new item comes after any cursor that is one of the others.
<1>6. ASSUME NEW best \in Cursor, best.key = 0 \/ best \in Listed(f), NewestFirst(f)'
      PROVE  AfterCursor(item, best)
  <2>1. CASE best.key = 0
    <3>1. item.key # 0
      BY DEF Item
    <3>2. QED
      BY <2>1, <3>1 DEF AfterCursor
  <2>2. CASE best \in Listed(f)
    BY <1>2, <1>6, <2>2, NewerAfter
  <2>3. QED
    BY <1>6, <2>1, <2>2
<1>7. NothingSkipped'
  <2>1. ASSUME ~lost, NEW g \in 1 .. Feeds, NewestFirst(g)', NEW other \in Listed(g)'
        PROVE  AfterCursor(other, cursor[g]) \/ other \in received[g]
    <3>1. CASE other \in Listed(g)
      <4>1. NewestFirst(g)
        BY <1>2, <1>3, <2>1
      <4>2. QED
        BY <2>1, <3>1, <4>1 DEF RssInv, NothingSkipped
    <3>2. CASE g = f /\ other = item
      <4>1. cursor[f].key = 0 \/ cursor[f] \in Listed(f)
        BY DEF RssInv
      <4>2. QED
        BY <1>6, <2>1, <3>2, <4>1, ListedItems
    <3>3. QED
      BY <1>2, <1>3, <2>1, <3>1, <3>2
  <2>2. QED
    BY <1>1, <2>1 DEF NothingSkipped
<1>8. ASSUME InFeed, NEW g, NEW todo, NEW best,
             g = poll.feed, todo = poll.todo, best = poll.best
      PROVE  FeedInv(g, todo, best)'
  <2>1. /\ g \in 1 .. Feeds /\ todo \in Seq(Item) /\ best \in Cursor
        /\ FeedInv(g, todo, best)
    BY <1>8, Shapes DEF RssInv
  <2>2. PICK k \in Nat : Place(g, todo, k) /\ (~lost /\ NewestFirst(g) => Passed(g, todo, k))
    BY <2>1 DEF FeedInv
  <2>3. CASE g # f
    <3>1. listing'[g] = listing[g] /\ Listed(g)' = Listed(g) /\ (NewestFirst(g)' <=> NewestFirst(g))
      BY <1>2, <1>3, <2>1, <2>3
    <3>2. Place(g, todo, k)' /\ (Passed(g, todo, k)' <=> Passed(g, todo, k))
      BY <1>1, <2>2, <3>1 DEF Place, Passed
    <3>3. (Delivered(g, best) => Delivered(g, best)') /\ (Dated(g)' <=> Dated(g))
      BY <1>1, <3>1 DEF Delivered, Dated
    <3>4. QED
      BY <1>1, <2>1, <2>2, <3>1, <3>2, <3>3 DEF FeedInv
  <2>4. CASE g = f
    <3>1. best = cursor[f] \/ best \in Listed(f)
      BY <2>1, <2>4 DEF FeedInv
    <3>2. best.key = 0 \/ best \in Listed(f)
      BY <3>1 DEF RssInv
    <3>3. k + 1 \in Nat /\ Place(f, todo, k + 1)'
          /\ (~lost /\ NewestFirst(f)' => Passed(f, todo, k + 1)')
      BY <1>2, <2>1, <2>2, <2>4, PlaceKept
    <3>4. ~lost /\ NewestFirst(f)' => Delivered(f, best)'
      <4>1. ASSUME ~lost, NewestFirst(f)', NEW other \in Listed(f)'
            PROVE  AfterCursor(other, best) \/ other \in received[f]
        <5>1. Delivered(f, best)
          BY <1>2, <2>1, <2>4, <4>1 DEF FeedInv
        <5>2. other \in Listed(f) \/ other = item
          BY <1>2, <4>1
        <5>3. QED
          BY <1>6, <2>1, <3>2, <4>1, <5>1, <5>2 DEF Delivered
      <4>2. QED
        BY <1>1, <4>1 DEF Delivered
    <3>5. Dated(f)' => Dated(f)
      BY <1>2 DEF Dated
    <3>6. FeedInv(f, todo, best)'
      <4>1. (best = cursor[f] \/ best \in Listed(f))'
        BY <1>1, <1>2, <3>1
      <4>2. (\E i \in Nat : /\ Place(f, todo, i)
                            /\ ~lost /\ NewestFirst(f) => Passed(f, todo, i))'
        BY <1>1, <3>3
      <4>3. (cursor[f].key # 0 /\ Dated(f) => best = cursor[f] \/ Newer(best, cursor[f]))'
        BY <1>1, <2>1, <2>4, <3>5 DEF FeedInv
      <4>4. QED
        BY <1>1, <3>4, <4>1, <4>2, <4>3 DEF FeedInv
    <3>7. QED
      BY <2>4, <3>6
  <2>5. QED
    BY <2>3, <2>4
<1>9. ASSUME InFeed' PROVE FeedInv(poll.feed, poll.todo, poll.best)'
  <2>1. InFeed
    BY <1>1, <1>9 DEF InFeed
  <2>2. PICK g, todo, best : g = poll.feed /\ todo = poll.todo /\ best = poll.best
    OBVIOUS
  <2>3. FeedInv(g, todo, best)'
    BY <1>8, <2>1, <2>2
  <2>4. g = poll'.feed /\ todo = poll'.todo /\ best = poll'.best
    BY <1>1, <2>2
  <2>5. QED
    BY <2>3, <2>4
<1>10. QED
  BY <1>1, <1>5, <1>7, <1>9 DEF RssInv
\* The item a poll comes to next.
LEMMA HeadItem ==
  ASSUME TypeOK, NEW f \in 1 .. Feeds, NEW todo \in Seq(Item), todo # << >>,
         NEW k \in Nat, Place(f, todo, k)
  PROVE  /\ k + Len(todo) \in DOMAIN listing[f] /\ Head(todo) = listing[f][k + Len(todo)]
         /\ Head(todo) \in Listed(f)
         /\ Len(Tail(todo)) = Len(todo) - 1 /\ Len(todo) \in Nat
         /\ Place(f, Tail(todo), k)
<1> DEFINE L == listing[f]
           m == Len(todo)
<1>1. /\ Len(L) \in Nat /\ m \in Nat /\ k + m <= Len(L)
      /\ DOMAIN L = 1 .. Len(L)
      /\ \A i \in 1 .. m : todo[i] = L[k + (m - i) + 1]
  BY ListedItems DEF Place
<1>2. /\ Len(Tail(todo)) = m - 1 /\ Tail(todo) \in Seq(Item)
      /\ \A i \in 1 .. Len(Tail(todo)) : Tail(todo)[i] = todo[i + 1]
      /\ m # 0 /\ Head(todo) = todo[1]
  BY HeadTailProperties
<1> HIDE DEF L, m
<1>3. k + m \in DOMAIN L /\ Head(todo) = L[k + m]
  <2>1. 1 \in 1 .. m /\ k + (m - 1) + 1 = k + m
    BY <1>1, <1>2
  <2>2. QED
    BY <1>1, <1>2, <2>1
<1>4. ASSUME NEW i \in 1 .. m - 1 PROVE Tail(todo)[i] = L[k + ((m - 1) - i) + 1]
  <2>1. i + 1 \in 1 .. m /\ k + (m - (i + 1)) + 1 = k + ((m - 1) - i) + 1
    BY <1>1
  <2>2. QED
    BY <1>1, <1>2, <2>1
<1>5. k + (m - 1) <= Len(L)
  BY <1>1
<1>6. Head(todo) \in Listed(f)
  BY <1>3 DEF Listed, L
<1>7. QED
  BY <1>1, <1>2, <1>3, <1>4, <1>5, <1>6 DEF Place, L, m

LEMMA ThisFeed ==
  ASSUME NEW f, NEW todo, NEW best, f = poll'.feed, todo = poll'.todo, best = poll'.best,
         FeedInv(f, todo, best)'
  PROVE  FeedInv(poll.feed, poll.todo, poll.best)'
<1>1. /\ (best = cursor[f] \/ best \in {listing[f][k] : k \in DOMAIN listing[f]})'
      /\ (cursor[f].key # 0 /\ Dated(f) => best = cursor[f] \/ Newer(best, cursor[f]))'
  BY DEF FeedInv, Listed
<1>2. /\ (\E k \in Nat : /\ Place(f, todo, k)
                         /\ ~lost /\ NewestFirst(f) => Passed(f, todo, k))'
      /\ (~lost /\ NewestFirst(f) => Delivered(f, best))'
  BY DEF FeedInv
<1>3. /\ Listed(f)' = Listed(poll.feed)' /\ (NewestFirst(f)' <=> NewestFirst(poll.feed)')
      /\ (Dated(f)' <=> Dated(poll.feed)')
      /\ (Delivered(f, best)' <=> Delivered(poll.feed, poll.best)')
      /\ (Newer(best, cursor[f])' <=> Newer(poll.best, cursor[poll.feed])')
  BY DEF Listed, NewestFirst, Dated, Delivered, Newer
<1>4. \A k \in Nat : /\ Place(f, todo, k)' <=> Place(poll.feed, poll.todo, k)'
                    /\ Passed(f, todo, k)' <=> Passed(poll.feed, poll.todo, k)'
  BY DEF Place, Passed
<1>5. QED
  BY <1>1, <1>2, <1>3, <1>4 DEF FeedInv

\* A step within a feed that leaves listing and cursor alone.
LEMMA WithinFeed ==
  ASSUME RssInv, UNCHANGED <<listing, cursor, conn, lost>>,
         \A g \in 1 .. Feeds : received[g] \subseteq received'[g],
         InFeed' => FeedInv(poll.feed, poll.todo, poll.best)'
  PROVE  RssInv'
<1>1. \A g \in 1 .. Feeds : Listed(g)' = Listed(g) /\ (NewestFirst(g)' <=> NewestFirst(g))
  BY DEF Listed, NewestFirst
<1>2. QED
  BY <1>1 DEF RssInv, NothingSkipped

LEMMA SkipStep ==
  ASSUME TypeOK, RssInv, ItemSkip
  PROVE  RssInv'
<1>1. /\ UNCHANGED <<listing, cursor, conn, received, lost>> /\ InFeed /\ Looking
      /\ poll' = [poll EXCEPT !.todo = Tail(@)]
      /\ ~AfterCursor(Head(poll.todo), poll.best)
  BY DEF ItemSkip, Looking, IsNew
<1>2. ASSUME NEW f, NEW todo, NEW best, f = poll.feed, todo = poll.todo, best = poll.best
      PROVE  FeedInv(f, Tail(todo), best)'
  <2>1. /\ f \in 1 .. Feeds /\ todo \in Seq(Item) /\ best \in Cursor /\ todo # << >>
        /\ FeedInv(f, todo, best) /\ ~AfterCursor(Head(todo), best)
    BY <1>1, <1>2, Shapes DEF RssInv, Looking
  <2>2. PICK k \in Nat : Place(f, todo, k) /\ (~lost /\ NewestFirst(f) => Passed(f, todo, k))
    BY <2>1 DEF FeedInv
  <2>3. /\ Head(todo) = listing[f][k + Len(todo)] /\ Head(todo) \in Listed(f)
        /\ Len(Tail(todo)) = Len(todo) - 1 /\ Len(todo) \in Nat
        /\ Place(f, Tail(todo), k)
    BY <2>1, <2>2, HeadItem
  <2>4. ASSUME ~lost, NewestFirst(f) PROVE Passed(f, Tail(todo), k)
    <3>1. Head(todo) \in received[f]
      BY <2>1, <2>3, <2>4 DEF FeedInv, Delivered
    <3>2. ASSUME NEW j \in DOMAIN listing[f], j > k + Len(Tail(todo))
          PROVE  j = k + Len(todo) \/ j > k + Len(todo)
      BY <2>1, <2>3, <3>2, ListedItems
    <3>3. QED
      BY <2>2, <2>3, <2>4, <3>1, <3>2 DEF Passed
  <2>5. FeedInv(f, Tail(todo), best)
    BY <2>1, <2>3, <2>4 DEF FeedInv
  <2>6. QED
    BY <1>1, <2>5 DEF FeedInv, Place, Passed, Delivered, Dated, Listed, NewestFirst
<1>3. poll'.feed = poll.feed /\ poll'.todo = Tail(poll.todo) /\ poll'.best = poll.best
  BY <1>1, Shapes DEF FeedStates
<1>4. FeedInv(poll.feed, poll.todo, poll.best)'
  <2>1. PICK f, todo, best : f = poll.feed /\ todo = poll.todo /\ best = poll.best
    OBVIOUS
  <2>2. FeedInv(f, Tail(todo), best)'
    BY <1>2, <2>1
  <2>3. QED
    BY <1>3, <2>1, <2>2, ThisFeed
<1>5. QED
  BY <1>1, <1>4, WithinFeed

LEMMA WriteStep ==
  ASSUME TypeOK, RssInv, ItemWrite
  PROVE  RssInv'
<1>1. /\ UNCHANGED <<listing, cursor, conn, lost>> /\ InFeed /\ Looking
      /\ poll' = [poll EXCEPT !.todo = Tail(@), !.best = Head(poll.todo)]
      /\ AfterCursor(Head(poll.todo), poll.best)
      /\ received' = IF conn = "cut" THEN received
                     ELSE [received EXCEPT ![poll.feed] = @ \cup {Head(poll.todo)}]
  BY DEF ItemWrite, Looking, IsNew
<1>2. /\ \A g \in 1 .. Feeds : received[g] \subseteq received'[g]
      /\ ~lost => Head(poll.todo) \in received'[poll.feed]
  <2>1. poll.feed \in 1 .. Feeds /\ received \in [1 .. Feeds -> SUBSET Item]
    BY <1>1, Shapes DEF TypeOK
  <2>2. QED
    BY <1>1, <2>1 DEF RssInv
<1>3. ASSUME NEW f, NEW todo, NEW best, f = poll.feed, todo = poll.todo, best = poll.best
      PROVE  FeedInv(f, Tail(todo), Head(todo))'
  <2> DEFINE x == Head(todo)
  <2>1. /\ f \in 1 .. Feeds /\ todo \in Seq(Item) /\ best \in Cursor /\ todo # << >>
        /\ FeedInv(f, todo, best) /\ AfterCursor(x, best) /\ x \in Item
    BY <1>1, <1>3, Shapes DEF RssInv, Looking
  <2>2. PICK k \in Nat : Place(f, todo, k) /\ (~lost /\ NewestFirst(f) => Passed(f, todo, k))
    BY <2>1 DEF FeedInv
  <2>3. /\ k + Len(todo) \in DOMAIN listing[f] /\ x = listing[f][k + Len(todo)]
        /\ x \in Listed(f)
        /\ Len(Tail(todo)) = Len(todo) - 1 /\ Len(todo) \in Nat
        /\ Place(f, Tail(todo), k)
    BY <2>1, <2>2, HeadItem
  <2>4. /\ received[f] \subseteq received'[f] /\ (~lost => x \in received'[f])
        /\ DOMAIN listing[f] = 1 .. Len(listing[f]) /\ Len(listing[f]) \in Nat
        /\ Listed(f) \subseteq Item /\ Item \subseteq Cursor /\ cursor[f] \in Cursor
    BY <1>2, <1>3, <2>1, ListedItems
  <2> HIDE DEF x
  <2>5. ASSUME ~lost, NewestFirst(f), NEW j \in DOMAIN listing[f]
        PROVE  /\ j > k + Len(Tail(todo)) => listing[f][j] \in received'[f]
               /\ AfterCursor(listing[f][j], x) \/ listing[f][j] \in received'[f]
    <3>1. j < k + Len(todo) \/ j = k + Len(todo) \/ j > k + Len(todo)
      BY <2>3, <2>4
    <3>2. j > k + Len(Tail(todo)) => j = k + Len(todo) \/ j > k + Len(todo)
      BY <2>3, <2>4
    <3>3. j = k + Len(todo) \/ j > k + Len(todo) => listing[f][j] \in received'[f]
      BY <2>2, <2>3, <2>4, <2>5 DEF Passed
    <3>4. j < k + Len(todo) => AfterCursor(listing[f][j], x)
      <4>1. ASSUME j < k + Len(todo) PROVE AfterCursor(listing[f][j], x)
        <5>1. Newer(listing[f][j], x)
          BY <2>3, <2>5, <4>1 DEF NewestFirst
        <5>2. listing[f][j] \in Item /\ x \in Cursor
          BY <2>1, <2>4 DEF Listed
        <5>3. QED
          BY <5>1, <5>2, NewerAfter
      <4>2. QED
        BY <4>1
    <3>5. QED
      BY <3>1, <3>2, <3>3, <3>4
  <2>6. ASSUME cursor[f].key # 0, Dated(f) PROVE Newer(x, cursor[f])
    <3>1. best = cursor[f] \/ (best \in Listed(f) /\ Newer(best, cursor[f]))
      BY <2>1, <2>6 DEF FeedInv
    <3>2. best.key # 0
      BY <2>4, <2>6, <3>1 DEF Item
    <3>3. Newer(x, best)
      BY <2>1, <2>3, <2>6, <3>2, AfterNewer DEF Dated
    <3>4. QED
      BY <2>1, <2>4, <3>1, <3>3, NewerTransitive
  <2>7. /\ Listed(f)' = Listed(f) /\ (NewestFirst(f)' <=> NewestFirst(f))
        /\ (Dated(f)' <=> Dated(f)) /\ (Place(f, Tail(todo), k)' <=> Place(f, Tail(todo), k))
    BY <1>1 DEF Listed, NewestFirst, Dated, Place
  <2>8. ~lost /\ NewestFirst(f) => Passed(f, Tail(todo), k)' /\ Delivered(f, x)'
    BY <1>1, <2>5 DEF Passed, Delivered, Listed
  <2>9. FeedInv(f, Tail(todo), x)'
    BY <1>1, <2>3, <2>6, <2>7, <2>8 DEF FeedInv
  <2>10. QED
    BY <2>9 DEF x
<1>4. poll'.feed = poll.feed /\ poll'.todo = Tail(poll.todo) /\ poll'.best = Head(poll.todo)
  BY <1>1, Shapes DEF FeedStates
<1>5. FeedInv(poll.feed, poll.todo, poll.best)'
  <2>1. PICK f, todo, best : f = poll.feed /\ todo = poll.todo /\ best = poll.best
    OBVIOUS
  <2>2. FeedInv(f, Tail(todo), Head(todo))'
    BY <1>3, <2>1
  <2>3. QED
    BY <1>4, <2>1, <2>2, ThisFeed
<1>6. QED
  BY <1>1, <1>2, <1>5, WithinFeed

LEMMA FeedStartStep ==
  ASSUME TypeOK, RssInv, NEW f \in 1 .. Feeds, FeedStart(f)
  PROVE  RssInv'
<1>1. /\ UNCHANGED <<listing, cursor, conn, received, lost>>
      /\ poll' = [at |-> "items", feed |-> f, todo |-> Reverse(listing[f]), best |-> cursor[f]]
  BY DEF FeedStart
<1>2. ASSUME NEW todo, NEW best, todo = Reverse(listing[f]), best = cursor[f]
      PROVE  FeedInv(f, todo, best)'
  <2> DEFINE n == Len(listing[f])
  <2>1. /\ listing[f] \in Seq(Item) /\ n \in Nat /\ DOMAIN listing[f] = 1 .. n
    BY ListedItems
  <2>2. Len(todo) = n /\ \A i \in 1 .. n : todo[i] = listing[f][(n - i) + 1]
    BY <1>2, <2>1, Reversed
  <2> HIDE DEF n
  <2>3. \A i \in 1 .. n : 0 + (n - i) + 1 = (n - i) + 1
    BY <2>1
  <2>4. 0 + n <= n /\ \A j \in 1 .. n : ~(j > 0 + n)
    BY <2>1
  <2>5. Place(f, todo, 0) /\ Passed(f, todo, 0)
    BY <2>1, <2>2, <2>3, <2>4 DEF Place, Passed, n
  <2>6. ~lost /\ NewestFirst(f) => Delivered(f, best)
    BY <1>2 DEF RssInv, NothingSkipped, Delivered
  <2>7. FeedInv(f, todo, best)
    BY <1>2, <2>5, <2>6 DEF FeedInv
  <2>8. QED
    BY <1>1, <2>7 DEF FeedInv, Place, Passed, Delivered, Dated, Listed, NewestFirst
<1>3. poll'.feed = f /\ poll'.todo = Reverse(listing[f]) /\ poll'.best = cursor[f]
  BY <1>1
<1>4. FeedInv(poll.feed, poll.todo, poll.best)'
  <2>1. PICK todo, best : todo = Reverse(listing[f]) /\ best = cursor[f]
    OBVIOUS
  <2>2. FeedInv(f, todo, best)'
    BY <1>2, <2>1
  <2>3. QED
    BY <1>3, <2>1, <2>2, ThisFeed
<1>5. QED
  BY <1>1, <1>4, WithinFeed

\* A step out of a feed, or between two.
LEMMA OutOfFeed ==
  ASSUME RssInv, UNCHANGED <<listing, cursor, received, lost>>, ~InFeed',
         conn' = conn \/ conn' # "cut"
  PROVE  RssInv'
<1>1. \A g \in 1 .. Feeds : Listed(g)' = Listed(g) /\ (NewestFirst(g)' <=> NewestFirst(g))
  BY DEF Listed, NewestFirst
<1>2. QED
  BY <1>1 DEF RssInv, NothingSkipped

LEMMA FeedEndStep ==
  ASSUME TypeOK, RssInv, FeedEnd
  PROVE  RssInv'
<1>1. /\ UNCHANGED <<listing, received, lost>> /\ InFeed /\ ~InFeed'
      /\ \/ cursor' = [cursor EXCEPT ![poll.feed] = poll.best] /\ UNCHANGED conn
         \/ conn' = "nil" /\ UNCHANGED cursor
  BY DEF FeedEnd, Proceed, InFeed
<1>2. CASE UNCHANGED cursor /\ conn' = "nil"
  BY <1>1, <1>2, OutOfFeed
<1>3. CASE cursor' = [cursor EXCEPT ![poll.feed] = poll.best] /\ UNCHANGED conn
  <2>1. /\ poll.feed \in 1 .. Feeds /\ cursor \in [1 .. Feeds -> Cursor]
        /\ FeedInv(poll.feed, poll.todo, poll.best)
    BY <1>1, Shapes DEF TypeOK, RssInv
  <2>2. \A g \in 1 .. Feeds : Listed(g)' = Listed(g) /\ (NewestFirst(g)' <=> NewestFirst(g))
    BY <1>1 DEF Listed, NewestFirst
  <2>3. \A g \in 1 .. Feeds : cursor'[g] = IF g = poll.feed THEN poll.best ELSE cursor[g]
    BY <1>3, <2>1
  <2>4. \A g \in 1 .. Feeds : cursor'[g].key = 0 \/ cursor'[g] \in Listed(g)'
    BY <2>1, <2>2, <2>3 DEF RssInv, FeedInv
  <2>5. NothingSkipped'
    BY <1>1, <2>1, <2>2, <2>3 DEF RssInv, NothingSkipped, FeedInv, Delivered
  <2>6. QED
    BY <1>1, <1>3, <2>4, <2>5 DEF RssInv
<1>4. QED
  BY <1>1, <1>2, <1>3

LEMMA RssStep == TypeOK /\ RssInv /\ [Next]_vars => RssInv'
<1> SUFFICES ASSUME TypeOK, RssInv, [Next]_vars PROVE RssInv'
  OBVIOUS
<1>1. CASE PollStart
  <2>1. /\ UNCHANGED <<listing, cursor, received, lost>> /\ ~InFeed'
        /\ (conn' = conn \/ conn' # "cut")
    BY <1>1 DEF PollStart, InFeed
  <2>2. QED
    BY <2>1, OutOfFeed
<1>2. ASSUME NEW f, Proceed(f) \/ poll' = Idle PROVE ~InFeed'
  BY <1>2 DEF Proceed, InFeed
<1>3. CASE PollEnd \/ ItemPanics \/ ItemWriteFails \/ Crash
  <2>1. UNCHANGED <<listing, cursor, received, lost>> /\ (conn' = conn \/ conn' # "cut")
    BY <1>3 DEF PollEnd, ItemPanics, ItemWriteFails, Crash
  <2>2. Proceed(poll.feed) \/ poll' = Idle
    BY <1>3 DEF PollEnd, ItemPanics, ItemWriteFails, Crash
  <2>3. ~InFeed'
    <3>1. PICK f : f = poll.feed
      OBVIOUS
    <3>2. Proceed(f) \/ poll' = Idle
      BY <2>2, <3>1 DEF Proceed
    <3>3. QED
      BY <1>2, <3>2
  <2>4. QED
    BY <2>1, <2>3, OutOfFeed
<1>4. ASSUME NEW f \in 1 .. Feeds, FeedFails(f) PROVE RssInv'
  BY <1>2, <1>4, OutOfFeed DEF FeedFails
<1>5. CASE DedupDies
  <2>1. UNCHANGED <<listing, cursor, poll, received>> /\ lost'
    BY <1>5 DEF DedupDies
  <2>2. ASSUME NEW f, NEW todo, NEW best, FeedInv(f, todo, best) PROVE FeedInv(f, todo, best)'
    BY <2>1, <2>2 DEF FeedInv, Place, Dated, Listed
  <2>3. ASSUME InFeed PROVE FeedInv(poll.feed, poll.todo, poll.best)'
    <3>1. FeedInv(poll.feed, poll.todo, poll.best)
      BY <2>3 DEF RssInv
    <3>2. QED
      BY <2>1, <2>2, <3>1 DEF FeedInv, Place, Passed, Delivered, Dated, Listed, NewestFirst
  <2>4. QED
    BY <2>1, <2>3 DEF RssInv, NothingSkipped, Listed, InFeed
<1>6. CASE UNCHANGED vars
  <2>1. UNCHANGED <<listing, cursor, conn, poll, received, lost>>
    BY <1>6 DEF vars
  <2>2. InFeed' => FeedInv(poll.feed, poll.todo, poll.best)'
    BY <2>1 DEF RssInv, InFeed, FeedInv, Place, Passed, Delivered, Dated, Listed, NewestFirst
  <2>3. QED
    BY <2>1, <2>2, WithinFeed
<1>7. QED
  BY <1>1, <1>3, <1>4, <1>5, <1>6, PublishStep, SkipStep, WriteStep, FeedStartStep, FeedEndStep
     DEF Next, Watcher

LEMMA RssInit == Init => TypeOK /\ RssInv
<1> SUFFICES ASSUME Init PROVE TypeOK /\ RssInv
  OBVIOUS
<1>1. /\ [key |-> 0, time |-> NoTime] \in Cursor /\ 0 \in 0 .. MaxFaults
      /\ << >> \in Seq(Item)
  BY RssAssumption DEF Cursor
<1>2. TypeOK
  BY <1>1 DEF Init, TypeOK, PollStates
<1>3. RssInv
  BY DEF Init, RssInv, NothingSkipped, Listed, InFeed
<1>4. QED
  BY <1>2, <1>3

\* The cursor of a feed that lists newest first passes no item that dedup has
\* not received: not when items appear during a poll, the connection is shared
\* with feeds that fail, or the watcher dies between two writes.
THEOREM NoItemSkipped == Spec => []NothingSkipped
<1>1. RssInv => NothingSkipped
  BY DEF RssInv
<1>2. QED
  BY <1>1, RssInit, TypeStep, RssStep, PTL DEF Spec

\* The cursor of a feed whose items have dates only moves forward, in whatever
\* order the feed lists them.
THEOREM CursorForward == Spec => CursorAdvances
<1>1. ASSUME TypeOK, RssInv, [Next]_vars, NEW f \in 1 .. Feeds,
             cursor[f].key # 0, \A item \in Listed(f) : item.time # NoTime
      PROVE  cursor'[f] = cursor[f] \/ Newer(cursor'[f], cursor[f])
  <2>1. CASE UNCHANGED cursor
    BY <2>1
  <2>2. CASE FeedEnd
    <3>1. InFeed /\ (UNCHANGED cursor \/ cursor' = [cursor EXCEPT ![poll.feed] = poll.best])
      BY <2>2 DEF FeedEnd
    <3>2. FeedInv(poll.feed, poll.todo, poll.best) /\ cursor \in [1 .. Feeds -> Cursor]
      BY <1>1, <3>1 DEF RssInv, TypeOK
    <3>3. QED
      BY <1>1, <3>1, <3>2 DEF FeedInv, Dated
  <2>3. UNCHANGED cursor \/ FeedEnd
    BY <1>1 DEF Next, Watcher, vars, Publish, PollStart, PollEnd, FeedStart, FeedFails,
                ItemSkip, ItemWrite, ItemWriteFails, ItemPanics, Crash, DedupDies
  <2>4. QED
    BY <2>1, <2>2, <2>3
<1>2. TypeOK /\ RssInv /\ [Next]_vars =>
        [\A f \in 1 .. Feeds :
           (cursor[f].key # 0 /\ \A item \in Listed(f) : item.time # NoTime)
             => cursor'[f] = cursor[f] \/ Newer(cursor'[f], cursor[f])]_vars
  BY <1>1
<1>3. QED
  BY <1>2, RssInit, TypeStep, RssStep, PTL DEF Spec, CursorAdvances
=============================================================================
