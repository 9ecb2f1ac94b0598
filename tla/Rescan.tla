------------------------------- MODULE Rescan -------------------------------
(***************************************************************************)
(* handleAdminArxivRescan: the pages of a window of arXiv, oldest entry    *)
(* first, are fetched by their offset and written to dedup.  arXiv lists   *)
(* more entries of the window in the meantime (external), wherever their   *)
(* dates put them.  Entries are numbered by date.  Written frames are      *)
(* taken as received; what a restart of dedup loses is in ArxivWatcher.    *)
(***************************************************************************)
EXTENDS Integers, FiniteSets

CONSTANTS
  Entries,    \* the entries of the window, 1 .. n
  Odd,        \* those whose identifier decodeAtom does not recognise
  PageSizes,  \* page sizes an installation may have: 25 .. 500
  SmallPage,  \* the page size after a 429: 100
  MaxPages,   \* pages of one request: at most 40
  RescanFaults \* "limited": arXiv answers 429 to all attempts at a page;
               \* "fail": another error of a page or of a frame; "cancel"

ASSUME RescanAssumption ==
  /\ Entries \subseteq Nat /\ IsFiniteSet(Entries)
  /\ Odd \subseteq Entries
  /\ PageSizes \subseteq Nat \ {0}
  /\ SmallPage \in Nat \ {0} /\ MaxPages \in Nat \ {0}
  /\ RescanFaults \subseteq {"limited", "fail", "cancel"}

VARIABLES
  listed,   \* what arXiv lists
  first,    \* history: what it listed when the request came in
  at,       \* "fetch", "asked", "write", or how the request ended: "all" after a
            \* short page, "capped", "cut" when cancelled, "failed"
  page,     \* index of the page to fetch or being written
  size,     \* pageSize
  entries,  \* entries of the page not written yet
  short,    \* whether that page had fewer entries than were asked for
  sent      \* what dedup has received

rescan == <<listed, first, at, page, size, entries, short, sent>>

RescanTypeOK ==
  /\ first \subseteq listed /\ listed \subseteq Entries
  /\ at \in {"fetch", "asked", "write", "all", "capped", "cut", "failed"}
  /\ page \in 0 .. MaxPages - 1
  /\ size \in PageSizes \cup {SmallPage}
  /\ entries \subseteq Entries \ Odd /\ sent \subseteq Entries \ Odd
  /\ short \in BOOLEAN

RescanInit ==
  /\ listed \in SUBSET Entries /\ first = listed
  /\ at = "fetch" /\ page = 0 /\ size \in PageSizes
  /\ entries = {} /\ short = FALSE /\ sent = {}

-----------------------------------------------------------------------------
\* The offset of an entry in the listing.
Offset(e) == Cardinality({d \in listed : d < e})

\* Mutant of Slice: the offset of arXiv taken to start at 1.
SliceFromOne(start) == {e \in listed : Offset(e) + 1 > start /\ Offset(e) < start + size - 1}

\* What arXiv answers: at most size entries from an offset on.
Slice(start) == {e \in listed : Offset(e) >= start /\ Offset(e) < start + size}

\* The request for a page goes out.
Ask ==
  /\ at = "fetch"
  /\ at' = "asked"
  /\ UNCHANGED <<listed, first, page, size, entries, short, sent>>

\* SearchPagedInRange and decodeAtom.
Fetch ==
  /\ at = "asked"
  /\ entries' = Slice(page * size) \ Odd
  /\ short' = (Cardinality(entries') < size)
  /\ at' = "write"
  /\ UNCHANGED <<listed, first, page, size, sent>>

\* Mutant of Limited: the page index moves on.
LimitedMovesOn ==
  /\ "limited" \in RescanFaults
  /\ at = "asked"
  /\ IF size > SmallPage
     THEN /\ size' = SmallPage
          /\ page' = IF page + 1 < MaxPages THEN page + 1 ELSE page
          /\ at' = "fetch"
     ELSE at' = "failed" /\ UNCHANGED <<page, size>>
  /\ UNCHANGED <<listed, first, entries, short, sent>>

\* Mutant of Limited: a page of the small size is tried again too.
LimitedAgain ==
  /\ "limited" \in RescanFaults
  /\ at = "asked"
  /\ IF size >= SmallPage
     THEN size' = SmallPage /\ at' = "fetch"
     ELSE at' = "failed" /\ UNCHANGED size
  /\ UNCHANGED <<listed, first, page, entries, short, sent>>

\* 429: the same index again, with a smaller size.
Limited ==
  /\ "limited" \in RescanFaults
  /\ at = "asked"
  /\ IF size > SmallPage
     THEN size' = SmallPage /\ at' = "fetch"
     ELSE at' = "failed" /\ UNCHANGED size
  /\ UNCHANGED <<listed, first, page, entries, short, sent>>

Fails ==
  /\ "fail" \in RescanFaults
  /\ at = "asked" \/ (at = "write" /\ entries # {})
  /\ at' = "failed"
  /\ UNCHANGED <<listed, first, page, size, entries, short, sent>>

\* WriteFrame, in the order of the page.
Write ==
  /\ at = "write"
  /\ \E e \in entries :
       /\ \A d \in entries : e <= d
       /\ entries' = entries \ {e} /\ sent' = sent \cup {e}
  /\ UNCHANGED <<listed, first, at, page, size, short>>

LastPage == page = MaxPages - 1

\* The end of a page: the last one, or on to the next.
Turn ==
  /\ at = "write" /\ entries = {}
  /\ \/ short /\ at' = "all" /\ UNCHANGED page
     \/ ~short /\ LastPage /\ at' = "capped" /\ UNCHANGED page
     \/ ~short /\ ~LastPage /\ at' = "fetch" /\ page' = page + 1
     \/ ~short /\ ~LastPage /\ "cancel" \in RescanFaults
          /\ at' = "cut" /\ UNCHANGED page
  /\ UNCHANGED <<listed, first, size, entries, short, sent>>

\* arXiv lists another entry of the window.
Announce ==
  /\ \E e \in Entries \ listed : listed' = listed \cup {e}
  /\ UNCHANGED <<first, at, page, size, entries, short, sent>>

Ended == at \in {"all", "capped", "cut", "failed"}

\* The request has been answered.
Finished == Ended /\ UNCHANGED rescan

Handler == Ask \/ Fetch \/ Limited \/ Fails \/ Write \/ Turn

RescanNext == Handler \/ Announce \/ Finished

RescanSpec == RescanInit /\ [][RescanNext]_rescan

FairRescanSpec == RescanSpec /\ WF_rescan(Handler)

-----------------------------------------------------------------------------
SentUpTo(offset) == \A e \in first \ Odd : Offset(e) < offset => e \in sent

\* Pages leave no gap: every entry listed from the start that lies before the
\* page to come has been sent, although arXiv inserts entries and a 429
\* changes the size, and with it the offset, of the pages half-way.  A request
\* that answers ok, also one that is capped, cancelled or ended too early by an
\* entry that decodeAtom drops, has sent what its pagesFetched pages span.
NoGap ==
  /\ at \in {"fetch", "asked"} => SentUpTo(page * size)
  /\ at \in {"all", "capped", "cut"} => SentUpTo((page + 1) * size)

\* A request that ends at a short page has sent every entry that was listed
\* when it started, unless one that decodeAtom drops made the page short.  One
\* that is capped or cancelled answers ok as well and need not have.
Complete == (at = "all" /\ listed \cap Odd = {}) => first \subseteq sent

\* Every request is answered, even when arXiv answers 429 for ever.
EveryRequestEnds == <>Ended
=============================================================================
