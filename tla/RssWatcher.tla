----------------------------- MODULE RssWatcher -----------------------------
(***************************************************************************)
(* cmd/rss-watcher: at each poll it goes through the enabled feeds in the  *)
(* order of their ids, writes the items that come after the feed's cursor  *)
(* to dedup and moves the cursor.  One connection to dedup serves all      *)
(* feeds.  The feeds are external: items are published at their head.      *)
(***************************************************************************)
EXTENDS CursorOrder, Sequences, SequencesExt

CONSTANTS Feeds,      \* the enabled feeds are 1 .. Feeds
          Dead,       \* those whose fetch always fails
          Keys,       \* the items have keys 1 .. Keys, each published once
          Dates,      \* the dates an item may have, NoTime among them or not
          Faults,     \* which faults may happen, see FaultKinds
          MaxFaults   \* bound: faults

\* "watcher", "dedup": the process dies; "db": a statement fails;
\* "fetch": a fetch fails that may succeed the next time.
FaultKinds == {"watcher", "dedup", "db", "fetch"}

ASSUME RssAssumption ==
  /\ Feeds \in Nat /\ Dead \subseteq 1 .. Feeds
  /\ Keys \in Nat /\ Dates \subseteq Nat \cup {NoTime}
  /\ Faults \subseteq FaultKinds /\ MaxFaults \in Nat

VARIABLES
  listing,   \* the items of each feed, as the feed lists them
  cursor,    \* the row of rss_cursors of each feed
  conn,      \* the connection to dedup: nil, up, or cut at the other end
  poll,      \* where runOnce and processFeed are
  faults,    \* bound: faults so far
  received,  \* history: the items dedup has received from each feed
  lost       \* history: dedup has died with a connection open

vars == <<listing, cursor, conn, poll, faults, received, lost>>

Item   == [key : 1 .. Keys, time : Dates]
Cursor == [key : 0 .. Keys, time : Dates \cup {NoTime}]
Idle   == [at |-> "idle"]

\* Between two feeds, and within one: the items still to be looked at, oldest
\* first as the code assumes, and the running cursor.
PollStates ==
  {Idle} \cup [at : {"next"}, feed : 1 .. Feeds + 1]
         \cup [at : {"items"}, feed : 1 .. Feeds, todo : Seq(Item), best : Cursor]

TypeOK ==
  /\ listing \in [1 .. Feeds -> Seq(Item)]
  /\ cursor \in [1 .. Feeds -> Cursor]
  /\ conn \in {"nil", "up", "cut"}
  /\ poll \in PollStates
  /\ faults \in 0 .. MaxFaults
  /\ received \in [1 .. Feeds -> SUBSET Item]
  /\ lost \in BOOLEAN

Init ==
  /\ listing = [f \in 1 .. Feeds |-> << >>]
  /\ cursor = [f \in 1 .. Feeds |-> [key |-> 0, time |-> NoTime]]
  /\ conn = "nil" /\ poll = Idle
  /\ received = [f \in 1 .. Feeds |-> {}]
  /\ faults = 0 /\ lost = FALSE

Fault(kind) ==
  /\ kind \in Faults /\ faults < MaxFaults
  /\ faults' = faults + 1

-----------------------------------------------------------------------------
Published == UNION {{listing[f][k].key : k \in DOMAIN listing[f]} : f \in 1 .. Feeds}

\* A feed publishes an item, of whatever date.
Publish(f, item) ==
  /\ item.key \notin Published
  /\ listing' = [listing EXCEPT ![f] = <<item>> \o @]
  /\ UNCHANGED <<cursor, conn, poll, faults, received, lost>>

-----------------------------------------------------------------------------
\* runOnce: dialDedup, then the list of feeds.
PollStart ==
  /\ poll = Idle
  /\ conn' = IF conn = "nil" THEN "up" ELSE conn
  /\ \/ poll' = [at |-> "next", feed |-> 1] /\ UNCHANGED faults
     \/ Fault("db") /\ UNCHANGED poll
  /\ UNCHANGED <<listing, cursor, received, lost>>

At(f) == poll = [at |-> "next", feed |-> f]

Proceed(f) == poll' = [at |-> "next", feed |-> f + 1]

\* processFeed: the fetch and the stored cursor.
FeedStart(f) ==
  /\ At(f) /\ f \notin Dead
  /\ poll' = [at |-> "items", feed |-> f, todo |-> Reverse(listing[f]),
              best |-> cursor[f]]
  /\ UNCHANGED <<listing, cursor, conn, faults, received, lost>>

\* An error of processFeed closes the connection; the next feed is tried.
FeedFails(f) ==
  /\ At(f)
  /\ \/ f \in Dead /\ UNCHANGED faults
     \/ \E kind \in {"fetch", "db"} : Fault(kind)
  /\ conn' = "nil" /\ Proceed(f)
  /\ UNCHANGED <<listing, cursor, received, lost>>

InFeed == poll # Idle /\ poll.at = "items"
Looking == InFeed /\ poll.todo # << >>
IsNew == AfterCursor(Head(poll.todo), poll.best)

ItemSkip ==
  /\ Looking /\ ~IsNew
  /\ poll' = [poll EXCEPT !.todo = Tail(@)]
  /\ UNCHANGED <<listing, cursor, conn, faults, received, lost>>

\* A frame written to a connection that is cut may be lost without an error.
ItemWrite ==
  /\ Looking /\ IsNew /\ conn # "nil"
  /\ received' = IF conn = "cut" THEN received
                 ELSE [received EXCEPT ![poll.feed] = @ \cup {Head(poll.todo)}]
  /\ poll' = [poll EXCEPT !.todo = Tail(@), !.best = Head(poll.todo)]
  /\ UNCHANGED <<listing, cursor, conn, faults, lost>>

ItemWriteFails ==
  /\ Looking /\ IsNew /\ conn = "cut"
  /\ conn' = "nil" /\ Proceed(poll.feed)
  /\ UNCHANGED <<listing, cursor, faults, received, lost>>

\* A write to nil: the process dies and is restarted.
ItemPanics ==
  /\ Looking /\ IsNew /\ conn = "nil"
  /\ poll' = Idle
  /\ UNCHANGED <<listing, cursor, conn, faults, received, lost>>

\* Mutant of FeedEnd: the cursor is the last item looked at, new or not.
FeedEndLast ==
  /\ InFeed /\ poll.todo = << >>
  /\ cursor' = [cursor EXCEPT ![poll.feed] =
                  IF listing[poll.feed] = << >> THEN @ ELSE Head(listing[poll.feed])]
  /\ Proceed(poll.feed)
  /\ UNCHANGED <<listing, conn, faults, received, lost>>

FeedEnd ==
  /\ InFeed /\ poll.todo = << >>
  /\ \/ /\ cursor' = [cursor EXCEPT ![poll.feed] = poll.best]
        /\ UNCHANGED <<conn, faults>>
     \/ /\ poll.best # cursor[poll.feed] /\ Fault("db")
        /\ conn' = "nil" /\ UNCHANGED cursor
  /\ Proceed(poll.feed)
  /\ UNCHANGED <<listing, received, lost>>

PollEnd ==
  /\ At(Feeds + 1)
  /\ poll' = Idle
  /\ UNCHANGED <<listing, cursor, conn, faults, received, lost>>

Crash ==
  /\ poll # Idle /\ Fault("watcher")
  /\ poll' = Idle /\ conn' = "nil"
  /\ UNCHANGED <<listing, cursor, received, lost>>

DedupDies ==
  /\ conn = "up" /\ Fault("dedup")
  /\ conn' = "cut" /\ lost' = TRUE
  /\ UNCHANGED <<listing, cursor, poll, received>>

Watcher ==
  \/ PollStart \/ PollEnd
  \/ \E f \in 1 .. Feeds : FeedStart(f) \/ FeedFails(f)
  \/ ItemSkip \/ ItemWrite \/ ItemWriteFails \/ ItemPanics \/ FeedEnd

Next ==
  \/ \E f \in 1 .. Feeds, item \in Item : Publish(f, item)
  \/ Watcher \/ Crash \/ DedupDies

Spec == Init /\ [][Next]_vars

\* The ticker fires and each step of a poll is taken.
FairSpec == Spec /\ WF_vars(Watcher)

-----------------------------------------------------------------------------
Listed(f) == {listing[f][k] : k \in DOMAIN listing[f]}

Newer(a, b) == a.time > b.time \/ (a.time = b.time /\ a.key > b.key)

\* The feed lists its items newest first, by date and key.
NewestFirst(f) ==
  \A k, n \in DOMAIN listing[f] : k < n => Newer(listing[f][k], listing[f][n])

\* The cursor of a feed that lists newest first passes no item that dedup has
\* not received, whatever fails, unless dedup dies.
NothingSkipped ==
  ~lost => \A f \in 1 .. Feeds : NewestFirst(f) =>
    \A item \in Listed(f) : AfterCursor(item, cursor[f]) \/ item \in received[f]

\* The cursor of a feed whose items all have dates never goes back, in whatever
\* order it lists them.
CursorAdvances ==
  [][\A f \in 1 .. Feeds :
       (cursor[f].key # 0 /\ \A item \in Listed(f) : item.time # NoTime)
         => cursor'[f] = cursor[f] \/ Newer(cursor'[f], cursor[f])]_vars

\* Every item of a feed that lists newest first reaches dedup in the end, if no
\* dead feed comes before it, however often the watcher dies or its fetches and
\* statements fail, unless dedup dies.
EveryItemReceived ==
  \A f \in 1 .. Feeds : \A item \in Item :
    (item \in Listed(f) /\ \A d \in Dead : d > f)
      ~> (item \in received[f] \/ lost \/ ~NewestFirst(f))
=============================================================================
