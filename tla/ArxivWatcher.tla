---------------------------- MODULE ArxivWatcher ----------------------------
(***************************************************************************)
(* cmd/arxiv-watcher: polls the newest page of a query, writes the entries *)
(* that come after a cursor kept in Postgres to dedup, then moves the      *)
(* cursor.  The arXiv side is external: versions of entries are submitted, *)
(* and appear in the listing some time later.                              *)
(***************************************************************************)
EXTENDS CursorOrder, Sequences, FiniteSets

CONSTANTS PageSize,    \* max_results
          Faults,      \* which faults may happen, see FaultKinds
          MaxFaults,   \* bound: faults
          MaxEntries,  \* bound: entries submitted
          MaxTime      \* bound: the clock

\* "watcher", "dedup": the process dies; "db": a statement fails;
\* "arxiv": a request fails.
FaultKinds == {"watcher", "dedup", "db", "arxiv"}

ASSUME WatcherAssumption ==
  /\ PageSize \in Nat \ {0} /\ Faults \subseteq FaultKinds
  /\ MaxEntries \in Nat /\ MaxTime \in Nat /\ MaxFaults \in Nat

VARIABLES
  now,       \* the clock
  hidden,    \* versions submitted and not yet announced, oldest first
  listed,    \* the current version of each announced entry
  cursor,    \* the row of arxiv_cursor
  conn,      \* the connection to dedup: nil, up, or cut at the other end
  poll,      \* where run() is
  ids,       \* bound: entries submitted
  faults,    \* bound: faults so far
  received,  \* history: ids that reached dedup
  calm,      \* history: so far arXiv announced in order, a page at most
  lost       \* history: dedup has died with a connection open

vars == <<now, hidden, listed, cursor, conn, poll, ids, faults, received, calm, lost>>
arxiv == <<now, hidden, listed, ids, calm>>

Ids   == 1 .. MaxEntries
Times == 0 .. MaxTime
Entry == [id : Ids, submitted : Times, updated : Times]
Idle  == [at |-> "idle"]
PollStates == {Idle} \cup [at : {"write"}, page : (SUBSET Entry) \ {{}}, todo : SUBSET Entry]

TypeOK ==
  /\ now \in Times
  /\ hidden \in Seq(Entry)
  /\ listed \subseteq Entry
  /\ cursor \in [time : Times \cup {NoTime}, id : 0 .. MaxEntries]
  /\ conn \in {"nil", "up", "cut"}
  /\ poll \in PollStates
  /\ ids \in 0 .. MaxEntries
  /\ faults \in 0 .. MaxFaults
  /\ received \subseteq Ids
  /\ calm \in BOOLEAN /\ lost \in BOOLEAN

Init ==
  /\ now = 0 /\ hidden = << >> /\ listed = {} /\ ids = 0
  /\ cursor = [time |-> NoTime, id |-> 0]
  /\ conn = "nil" /\ poll = Idle /\ received = {}
  /\ faults = 0 /\ calm = TRUE /\ lost = FALSE

Watched == <<cursor, conn, poll, received, faults, lost>>

Fault(kind) ==
  /\ kind \in Faults /\ faults < MaxFaults
  /\ faults' = faults + 1

-----------------------------------------------------------------------------
(***************************************************************************)
(* arXiv.                                                                  *)
(***************************************************************************)
Tick ==
  /\ now < MaxTime /\ now' = now + 1
  /\ UNCHANGED <<hidden, listed, ids, calm, Watched>>

Submit ==
  /\ ids < MaxEntries /\ ids' = ids + 1
  /\ hidden' = Append(hidden, [id |-> ids + 1, submitted |-> now, updated |-> now])
  /\ UNCHANGED <<now, listed, calm, Watched>>

\* A replacement of a listed entry.
Revise(e) ==
  /\ e.updated < now
  /\ \A k \in DOMAIN hidden : hidden[k].id # e.id
  /\ hidden' = Append(hidden, [e EXCEPT !.updated = now])
  /\ UNCHANGED <<now, listed, ids, calm, Watched>>

Older(e, f) == e.submitted < f.submitted \/ (e.submitted = f.submitted /\ e.id < f.id)

\* Entries whose first version the cursor has not reached.
Fresh == {e \in listed : After([id |-> e.id, updated |-> e.submitted], cursor)}

\* A version shows up.  While arXiv is calm versions do so in the order of
\* their times, and no more than a page of new entries between two polls that
\* move the cursor.
Announce(k) ==
  /\ calm' = (calm /\ k = 1 /\ Cardinality(Fresh) < PageSize)
  /\ LET e == hidden[k] IN
       listed' = {f \in listed : f.id # e.id} \cup {e}
  /\ hidden' = [i \in 1 .. Len(hidden) - 1 |-> IF i < k THEN hidden[i] ELSE hidden[i + 1]]
  /\ UNCHANGED <<now, ids, Watched>>

\* sortBy=submittedDate&sortOrder=descending&start=0&max_results=PageSize
FirstPage ==
  {e \in listed : Cardinality({f \in listed : Older(e, f)}) < PageSize}

-----------------------------------------------------------------------------
(***************************************************************************)
(* The watcher: run.                                                       *)
(***************************************************************************)

\* dialD, GetArxivCursor and SearchPage.  Nobody else writes the cursor.
Fetch ==
  /\ poll = Idle
  /\ FirstPage # {}
  /\ conn' = IF conn = "nil" THEN "up" ELSE conn
  /\ poll' = [at |-> "write", page |-> FirstPage,
              todo |-> {e \in FirstPage : After(e, cursor)}]
  /\ UNCHANGED <<arxiv, cursor, received, faults, lost>>

\* The query of the cursor or the request fails after the dial.  Other failures
\* change nothing.
FetchFails ==
  /\ poll = Idle
  /\ \E kind \in {"db", "arxiv"} : Fault(kind)
  /\ conn = "nil" /\ conn' = "up"
  /\ UNCHANGED <<arxiv, cursor, poll, received, lost>>

\* The entries are written in the order of the page.
Newest == CHOOSE e \in poll.todo : \A f \in poll.todo : ~Older(e, f)

Writing == poll # Idle /\ poll.todo # {}

\* On a connection that is cut the first writes still succeed: the frame is
\* lost.
Write ==
  /\ Writing
  /\ received' = IF conn = "up" THEN received \cup {Newest.id} ELSE received
  /\ poll' = [poll EXCEPT !.todo = @ \ {Newest}]
  /\ UNCHANGED <<arxiv, cursor, conn, faults, lost>>

WriteFails ==
  /\ Writing /\ conn = "cut"
  /\ conn' = "nil" /\ poll' = Idle
  /\ UNCHANGED <<arxiv, cursor, received, faults, lost>>

SetArxivCursor ==
  /\ poll # Idle /\ poll.todo = {}
  /\ poll' = Idle
  /\ LET best == MaxComposite(poll.page) IN
       \/ cursor' = [time |-> best.updated, id |-> best.id] /\ UNCHANGED faults
       \/ Fault("db") /\ UNCHANGED cursor
  /\ UNCHANGED <<arxiv, conn, received, lost>>

\* The watcher dies; its kernel still delivers what it has written.
Crash ==
  /\ poll # Idle /\ Fault("watcher")
  /\ poll' = Idle /\ conn' = "nil"
  /\ UNCHANGED <<arxiv, cursor, received, lost>>

DedupDies ==
  /\ conn = "up" /\ Fault("dedup")
  /\ conn' = "cut" /\ lost' = TRUE
  /\ UNCHANGED <<arxiv, cursor, poll, received>>

Watcher == Fetch \/ FetchFails \/ Write \/ WriteFails \/ SetArxivCursor

Next ==
  \/ Tick \/ Submit
  \/ \E e \in listed : Revise(e)
  \/ \E k \in DOMAIN hidden : Announce(k)
  \/ Watcher \/ Crash \/ DedupDies

Spec == Init /\ [][Next]_vars

\* The ticker fires, and what does not fail succeeds.
FairSpec == Spec /\ WF_vars(Fetch \/ Write \/ SetArxivCursor)

-----------------------------------------------------------------------------
\* The cursor passes no entry that dedup has not received: what is listed and
\* not after the cursor has been delivered, in this or an earlier version,
\* whatever fails, unless dedup dies or arXiv announces late.
NothingPassed ==
  calm /\ ~lost => \A e \in listed : After(e, cursor) \/ e.id \in received

\* The cursor only moves forward, though each poll sets it to the greatest
\* entry of its own page: an older page would need a late announcement.
CursorAdvances ==
  [][calm /\ cursor.id # 0 =>
       \/ cursor' = cursor
       \/ cursor'.time > cursor.time
       \/ cursor'.time = cursor.time /\ cursor'.id > cursor.id]_vars

\* Every entry that is listed reaches dedup in the end, however often the
\* watcher dies or its requests fail, with the same exceptions.
EveryEntryReceived ==
  \A i \in Ids :
    (\E e \in listed : e.id = i) ~> (i \in received \/ lost \/ ~calm)
=============================================================================
