------------------------ MODULE ArxivRequestsProofs ------------------------
(***************************************************************************)
(* Theorems about the requests to arXiv: how they are paced, and which     *)
(* pages a rescan asks for.                                                *)
(***************************************************************************)
EXTENDS ArxivLimiter, Rescan, FiniteSetTheorems, TLAPS

-----------------------------------------------------------------------------
(***************************************************************************)
(* Requests to arXiv are serialized, for any number of processes and       *)
(* goroutines, pools of any size and any pacing.  The argument: who is     *)
(* past the lock is in holder, unless a session of its process was ended,  *)
(* and holder has at most one member.                                      *)
(***************************************************************************)
PastLock == {c \in Callers : caller[c].at \in {"wait", "flight"} /\ ProcOf[c] \notin torn}

CallersOK == caller \in [Callers -> {Idle} \cup Busy]

LockKept ==
  /\ holder \subseteq Callers
  /\ \A c, d \in holder : c = d
  /\ PastLock \subseteq holder

Inv == CallersOK /\ LockKept

\* A goroutine that gives its connection back is past the lock no more.
LEMMA ReleaseKeeps ==
  ASSUME Inv, NEW c \in Callers, Release(c), torn' = torn
  PROVE  Inv'
  BY DEF Inv, CallersOK, LockKept, PastLock, Release, Idle, Busy

\* A rejected attempt that is tried again stays past the lock.
LEMMA RetryKeeps ==
  ASSUME LimiterAssumption, Inv, NEW c \in Callers,
         caller[c].at = "flight", ~LastAttempt(c),
         caller' = [caller EXCEPT ![c] = [at |-> "wait", tried |-> @.tried + 1]],
         holder' = holder, torn' = torn
  PROVE  Inv'
<1>1. caller[c] \in Busy
  BY DEF Inv, CallersOK, Idle
<1>2. caller[c].tried + 1 \in 0 .. MaxAttempts - 1
  BY <1>1 DEF Busy, LastAttempt, LimiterAssumption
<1>3. CallersOK'
  BY <1>2 DEF Inv, CallersOK, Busy
<1>4. LockKept'
  BY DEF Inv, CallersOK, LockKept, PastLock
<1> QED
  BY <1>3, <1>4 DEF Inv

\* Every step keeps the invariant: the loss of a session takes its process out.
LEMMA StepKeeps ==
  ASSUME LimiterAssumption, Inv, [Next]_vars
  PROVE  Inv'
<1>1. ASSUME NEW c \in Callers, WantConnection(c) \/ Acquire(c)
      PROVE  Inv'
  BY <1>1 DEF LimiterAssumption, WantConnection, Acquire, Inv, CallersOK, LockKept, PastLock, Idle, Busy
<1>2. ASSUME NEW c \in Callers, Lock(c)
      PROVE  Inv'
  BY <1>2 DEF LimiterAssumption, Lock, Inv, CallersOK, LockKept, PastLock, Idle, Busy
<1>3. ASSUME NEW c \in Callers, Send(c)
      PROVE  Inv'
  BY <1>3 DEF Send, Inv, CallersOK, LockKept, PastLock, Idle, Busy
<1>4. ASSUME NEW c \in Callers, Answered(c)
      PROVE  Inv'
  BY <1>4, ReleaseKeeps DEF Answered
<1>5. ASSUME NEW c \in Callers, Rejected(c)
      PROVE  Inv'
  BY <1>5, ReleaseKeeps, RetryKeeps DEF Rejected
<1>6. ASSUME NEW c \in Callers, Cancel(c)
      PROVE  Inv'
  BY <1>6, ReleaseKeeps DEF Cancel
<1>7. ASSUME NEW p \in Procs, Crash(p)
      PROVE  Inv'
  BY <1>7 DEF Crash, Inv, CallersOK, LockKept, PastLock, Idle, Busy
<1>8. ASSUME UNCHANGED <<caller, holder, torn>>
      PROVE  Inv'
  BY <1>8 DEF Inv, CallersOK, LockKept, PastLock
<1>9. ASSUME NEW c \in Callers, SessionLost(c)
      PROVE  Inv'
  BY <1>9 DEF SessionLost, Inv, CallersOK, LockKept, PastLock
<1> QED
  BY <1>1, <1>2, <1>3, <1>4, <1>5, <1>6, <1>7, <1>8, <1>9 DEF Next, Search, Tick, vars

LEMMA AtMostOne ==
  ASSUME Inv
  PROVE  OneInFlight
<1> DEFINE Counted == {c \in InFlight : ProcOf[c] \notin torn}
<1>1. Counted \subseteq holder
  BY DEF Inv, LockKept, PastLock, InFlight
<1>2. CASE Counted = {}
  BY <1>2, FS_EmptySet DEF OneInFlight
<1>3. CASE Counted # {}
  <2>1. PICK c \in Counted : TRUE
    BY <1>3
  <2>2. Counted = {c}
    BY <1>1, <2>1 DEF Inv, LockKept
  <2> QED
    BY <2>2, FS_Singleton DEF OneInFlight
<1> QED
  BY <1>2, <1>3

\* Outbound requests to arXiv are serialized across all processes of one
\* database (WithArxivRequestLock), whoever dies, is cancelled or is rejected
\* at whatever moment; only a process whose session Postgres has ended may send
\* a request too many.
THEOREM Serialized == Spec => []OneInFlight
<1>1. Init => Inv
  BY DEF Init, Inv, CallersOK, LockKept, PastLock, Idle
<1>2. Inv /\ [Next]_vars => Inv'
  BY StepKeeps, LimiterAssumption
<1>3. Inv => OneInFlight
  BY AtMostOne
<1> QED
  BY <1>1, <1>2, <1>3, PTL DEF Spec
-----------------------------------------------------------------------------
(***************************************************************************)
(* The pace.  rateNoteResponse overwrites the time of the next request, so *)
(* a short wait could hide a longer one that an earlier answer asked for.  *)
(* It does not while the lock is held: whoever is in flight has waited out *)
(* all that was owed, and nobody else of its process has answers to note.  *)
(***************************************************************************)
ClocksOK ==
  /\ earliest \in [Procs -> Nat] /\ owed \in [Procs -> Nat]
  /\ rested \in [Procs -> 0 .. Gap]

\* Who may be sent for when earliest has come.
Due(p) == owed[p] <= earliest[p] /\ Gap - rested[p] <= earliest[p]

Paced ==
  /\ \A p \in Procs \ torn : Due(p)
  /\ \A c \in PastLock : caller[c].at = "flight" => earliest[ProcOf[c]] = 0

PaceInv == Inv /\ ClocksOK /\ Paced

\* What is noted for an answer is due for all answers, when nothing was owed.
LEMMA NoteDue ==
  ASSUME LimiterAssumption, ClocksOK, NEW p \in Procs,
         NEW wait \in Nat, NEW asked \in 0 .. MaxRetryAfter, asked <= wait,
         Note(p, wait, asked)
  PROVE  /\ ClocksOK'
         /\ \A q \in Procs \ {p} : /\ earliest'[q] = earliest[q]
                                   /\ owed'[q] = owed[q] /\ rested'[q] = rested[q]
         /\ owed[p] = 0 => Due(p)'
<1>1. /\ Larger(Gap, wait) \in Nat /\ Larger(Gap, wait) >= Gap /\ Larger(Gap, wait) >= wait
      /\ Larger(owed[p], asked) \in Nat
      /\ owed[p] = 0 => Larger(owed[p], asked) = asked
  BY DEF LimiterAssumption, Larger, ClocksOK
<1>2. ClocksOK'
  BY <1>1 DEF Note, ClocksOK, LimiterAssumption
<1>3. \A q \in Procs \ {p} : /\ earliest'[q] = earliest[q]
                             /\ owed'[q] = owed[q] /\ rested'[q] = rested[q]
  BY DEF Note, ClocksOK
<1>4. /\ earliest'[p] = Larger(Gap, wait) /\ rested'[p] = 0
      /\ owed'[p] = Larger(owed[p], asked)
  BY DEF Note, ClocksOK
<1>5. asked \in Nat
  BY DEF LimiterAssumption
<1>6. ASSUME owed[p] = 0 PROVE Due(p)'
  BY <1>1, <1>4, <1>5, <1>6 DEF Due, LimiterAssumption
<1> QED
  BY <1>2, <1>3, <1>6

LEMMA RejectionDue ==
  ASSUME LimiterAssumption, ClocksOK, NEW p \in Procs,
         NoteRejection(p) \/ Note(p, 0, 0)
  PROVE  /\ ClocksOK'
         /\ \A q \in Procs \ {p} : /\ earliest'[q] = earliest[q]
                                   /\ owed'[q] = owed[q] /\ rested'[q] = rested[q]
         /\ owed[p] = 0 => Due(p)'
<1>1. CASE NoteRejection(p)
  <2>1. PICK least \in {GapLimited, GapFailed}, asked \in 0 .. MaxRetryAfter :
          Note(p, Larger(least, asked), asked)
    BY <1>1 DEF NoteRejection
  <2>2. Larger(least, asked) \in Nat /\ asked <= Larger(least, asked)
    BY DEF Larger, LimiterAssumption
  <2> QED
    BY <2>1, <2>2, NoteDue
<1>2. CASE Note(p, 0, 0)
  BY <1>2, NoteDue DEF LimiterAssumption
<1> QED
  BY <1>1, <1>2

\* An answer is noted by the only one of its process that is past the lock.
LEMMA AnswerPaced ==
  ASSUME LimiterAssumption, PaceInv, NEW c \in Callers, caller[c].at = "flight",
         NoteRejection(ProcOf[c]) \/ Note(ProcOf[c], 0, 0),
         torn' = torn, caller'[c].at # "flight",
         \A d \in Callers \ {c} : caller'[d] = caller[d]
  PROVE  ClocksOK' /\ Paced'
<1> DEFINE p == ProcOf[c]
<1>1. p \in Procs
  BY DEF LimiterAssumption
<1>2. /\ ClocksOK'
      /\ \A q \in Procs \ {p} : /\ earliest'[q] = earliest[q]
                                /\ owed'[q] = owed[q] /\ rested'[q] = rested[q]
      /\ owed[p] = 0 => Due(p)'
  BY <1>1, RejectionDue DEF PaceInv
<1>3. p \notin torn => c \in PastLock
  BY DEF PastLock
<1>4. p \notin torn => owed[p] = 0
  BY <1>1, <1>3 DEF PaceInv, Paced, Due, ClocksOK
<1>5. \A q \in Procs \ torn' : Due(q)'
  BY <1>2, <1>4 DEF PaceInv, Paced, Due
<1>6. ASSUME NEW d \in PastLock', caller'[d].at = "flight"
      PROVE  earliest'[ProcOf[d]] = 0
  <2>1. d # c /\ d \in Callers /\ caller'[d] = caller[d]
    BY <1>6 DEF PastLock
  <2>2. d \in PastLock /\ ProcOf[d] \in Procs
    BY <1>6, <2>1 DEF PastLock, LimiterAssumption
  <2>3. c \in PastLock => d = c
    BY <2>2 DEF PaceInv, Inv, LockKept
  <2>4. ProcOf[d] # p
    BY <1>3, <2>1, <2>2, <2>3 DEF PastLock
  <2> QED
    BY <1>2, <1>6, <2>1, <2>2, <2>4 DEF PaceInv, Paced
<1> QED
  BY <1>2, <1>5, <1>6 DEF Paced

\* A step that touches no clock and puts nobody in flight.
LEMMA StillPaced ==
  ASSUME LimiterAssumption, PaceInv, UNCHANGED limiter, torn \subseteq torn',
         \A d \in Callers : caller'[d].at = "flight" => caller[d].at = "flight"
  PROVE  ClocksOK' /\ Paced'
<1>1. ClocksOK' /\ \A p \in Procs \ torn' : Due(p)'
  BY DEF PaceInv, ClocksOK, Paced, Due, limiter
<1>2. \A d \in PastLock' : caller'[d].at = "flight" => d \in PastLock /\ caller[d].at = "flight"
  BY DEF PastLock
<1>3. UNCHANGED earliest
  BY DEF limiter
<1> QED
  BY <1>1, <1>2, <1>3 DEF PaceInv, Paced

LEMMA PaceKept ==
  ASSUME LimiterAssumption, PaceInv, [Next]_vars
  PROVE  PaceInv'
<1> SUFFICES ClocksOK' /\ Paced'
  BY StepKeeps DEF PaceInv
<1>0. caller \in [Callers -> {Idle} \cup Busy]
  BY DEF PaceInv, Inv, CallersOK
<1>1. ASSUME NEW c \in Callers, WantConnection(c) \/ Acquire(c) \/ Lock(c) \/ Cancel(c)
                                   \/ SessionLost(c)
      PROVE  ClocksOK' /\ Paced'
  <2>1. UNCHANGED limiter /\ torn \subseteq torn'
    BY <1>1 DEF WantConnection, Acquire, Lock, Cancel, SessionLost
  <2>2. \A d \in Callers : caller'[d].at = "flight" => caller[d].at = "flight"
    BY <1>0, <1>1 DEF WantConnection, Acquire, Lock, Cancel, SessionLost, Release, Idle
  <2> QED
    BY <2>1, <2>2, StillPaced
<1>2. ASSUME NEW c \in Callers, Send(c)
      PROVE  ClocksOK' /\ Paced'
  <2>1. UNCHANGED limiter /\ UNCHANGED torn /\ earliest[ProcOf[c]] = 0
    BY <1>2 DEF Send
  <2>2. \A d \in Callers \ {c} : caller'[d] = caller[d]
    BY <1>0, <1>2 DEF Send
  <2>3. ClocksOK' /\ \A p \in Procs \ torn' : Due(p)'
    BY <2>1 DEF PaceInv, ClocksOK, Paced, Due, limiter
  <2>4. \A d \in PastLock' : caller'[d].at = "flight" => earliest'[ProcOf[d]] = 0
    BY <2>1, <2>2 DEF PaceInv, Paced, PastLock, limiter
  <2> QED
    BY <2>3, <2>4 DEF Paced
<1>3. ASSUME NEW c \in Callers, Answered(c) \/ Rejected(c)
      PROVE  ClocksOK' /\ Paced'
  <2>1. /\ caller[c].at = "flight" /\ torn' = torn
        /\ NoteRejection(ProcOf[c]) \/ Note(ProcOf[c], 0, 0)
    BY <1>3 DEF Answered, Rejected
  <2>2. caller'[c].at # "flight" /\ \A d \in Callers \ {c} : caller'[d] = caller[d]
    BY <1>0, <1>3 DEF Answered, Rejected, Release, Idle
  <2> QED
    BY <2>1, <2>2, AnswerPaced
<1>4. ASSUME NEW p \in Procs, Crash(p)
      PROVE  ClocksOK' /\ Paced'
  <2>1. /\ \A q \in Procs \ {p} : /\ earliest'[q] = earliest[q]
                                  /\ owed'[q] = owed[q] /\ rested'[q] = rested[q]
        /\ earliest'[p] = 0 /\ owed'[p] = 0 /\ rested'[p] = Gap
        /\ ClocksOK'
    BY <1>4 DEF PaceInv, ClocksOK, Crash, LimiterAssumption
  <2>2. \A q \in Procs \ torn' : Due(q)'
    BY <1>4, <2>1 DEF Crash, PaceInv, Paced, Due, LimiterAssumption
  <2>3. ASSUME NEW d \in PastLock', caller'[d].at = "flight"
        PROVE  earliest'[ProcOf[d]] = 0
    <3>1. d \in Callers /\ ProcOf[d] # p /\ caller'[d] = caller[d] /\ ProcOf[d] \in Procs
      BY <1>4, <2>3 DEF Crash, PastLock, Idle, LimiterAssumption
    <3>2. d \in PastLock
      BY <1>4, <2>3, <3>1 DEF Crash, PastLock
    <3> QED
      BY <2>1, <2>3, <3>1, <3>2 DEF PaceInv, Paced
  <2> QED
    BY <2>1, <2>2, <2>3 DEF Paced
<1>5. ASSUME Tick
      PROVE  ClocksOK' /\ Paced'
  <2>1. /\ \A p \in Procs : /\ earliest'[p] = Down(earliest[p])
                            /\ owed'[p] = Down(owed[p])
                            /\ rested'[p] = IF rested[p] < Gap THEN rested[p] + 1 ELSE Gap
        /\ torn' = torn /\ caller' = caller
    BY <1>5 DEF Tick
  <2>2. \A p \in Procs : earliest[p] \in Nat /\ owed[p] \in Nat /\ rested[p] \in 0 .. Gap
    BY DEF PaceInv, ClocksOK
  <2>3. ClocksOK'
    BY <1>5, <2>2 DEF Tick, ClocksOK, Down, LimiterAssumption
  <2>4. ASSUME NEW p \in Procs, Due(p) PROVE Due(p)'
    BY <2>1, <2>2, <2>4 DEF Due, Down, LimiterAssumption
  <2>5. \A d \in PastLock' : caller'[d].at = "flight" => earliest'[ProcOf[d]] = 0
    BY <2>1 DEF PaceInv, Paced, PastLock, Down, LimiterAssumption
  <2> QED
    BY <2>1, <2>3, <2>4, <2>5 DEF PaceInv, Paced
<1>6. CASE UNCHANGED vars
  BY <1>6, StillPaced DEF vars, limiter
<1> QED
  BY <1>1, <1>2, <1>3, <1>4, <1>5, <1>6 DEF Next, Search

\* Only Send puts a request in flight.
LEMMA SentPolitely ==
  ASSUME LimiterAssumption, PaceInv, [Next]_vars, NEW c \in InFlight' \ InFlight
  PROVE  ProcOf[c] \in torn \/ (rested[ProcOf[c]] = Gap /\ owed[ProcOf[c]] = 0)
<1>0. /\ caller \in [Callers -> {Idle} \cup Busy]
      /\ c \in Callers /\ caller'[c].at = "flight" /\ caller[c].at # "flight"
  BY DEF PaceInv, Inv, CallersOK, InFlight
<1>1. Send(c)
  <2>1. ASSUME NEW d \in Callers, WantConnection(d) \/ Acquire(d) \/ Lock(d) \/ Cancel(d)
                                     \/ Answered(d) \/ Rejected(d)
        PROVE  FALSE
    BY <1>0, <2>1 DEF WantConnection, Acquire, Lock, Cancel, Answered, Rejected, Release, Idle
  <2>2. ASSUME NEW d \in Callers, Send(d) PROVE c = d
    BY <1>0, <2>2 DEF Send
  <2>3. ASSUME \E d \in Callers : SessionLost(d) PROVE FALSE
    BY <1>0, <2>3 DEF SessionLost
  <2>4. ASSUME NEW p \in Procs, Crash(p) PROVE FALSE
    BY <1>0, <2>4 DEF Crash, Idle
  <2>5. ASSUME Tick \/ UNCHANGED vars PROVE FALSE
    BY <1>0, <2>5 DEF Tick, vars
  <2> QED
    BY <2>1, <2>2, <2>3, <2>4, <2>5 DEF Next, Search
<1>2. earliest[ProcOf[c]] = 0 /\ ProcOf[c] \in Procs
  BY <1>0, <1>1 DEF Send, LimiterAssumption
<1> QED
  BY <1>2 DEF PaceInv, ClocksOK, Paced, Due, LimiterAssumption

\* The watcher and the rescans of a process together keep to the pace that
\* arXiv asks for, through rejections, retries, cancellations and restarts.
THEOREM Courteous == Spec => Polite
<1>1. Init => PaceInv
  BY LimiterAssumption
     DEF Init, PaceInv, Inv, CallersOK, LockKept, PastLock, Idle, ClocksOK, Paced, Due,
         LimiterAssumption
<1>2. PaceInv /\ [Next]_vars => PaceInv'
  BY PaceKept, LimiterAssumption
<1>3. PaceInv /\ [Next]_vars =>
        [\A c \in InFlight' \ InFlight :
           ProcOf[c] \in torn \/ (rested[ProcOf[c]] = Gap /\ owed[ProcOf[c]] = 0)]_vars
  BY SentPolitely, LimiterAssumption
<1> QED
  BY <1>1, <1>2, <1>3, PTL DEF Spec, Polite

-----------------------------------------------------------------------------
(***************************************************************************)
(* The pages of a rescan leave no gap, for listings of any length, any     *)
(* page sizes and any number of pages.  The argument: offsets only grow,   *)
(* and a smaller page size only moves the next page back.  While a page is *)
(* written, what it adds to the covered part is in entries or in sent.     *)
(***************************************************************************)
Typed ==
  /\ first \subseteq listed /\ listed \subseteq Entries
  /\ page \in Nat /\ size \in Nat \ {0}

Wanted == first \ Odd

\* What lies before an offset is sent, or in the page being written.
CoveredUpTo(end) == \A e \in Wanted : Offset(e) < end => e \in sent \cup entries

Covered ==
  /\ at \in {"fetch", "asked"} => entries = {} /\ CoveredUpTo(page * size)
  /\ at = "write" => CoveredUpTo((page + 1) * size)
  /\ at \in {"all", "capped", "cut"} => entries = {} /\ CoveredUpTo((page + 1) * size)

PagesInv == Typed /\ Covered

\* Where an entry stands in the listing is a number.
LEMMA OffsetNat ==
  ASSUME RescanAssumption, Typed, NEW e
  PROVE  Offset(e) \in Nat /\ IsFiniteSet({d \in listed : d < e})
<1>1. {d \in listed : d < e} \subseteq Entries
  BY DEF Typed
<1>2. IsFiniteSet({d \in listed : d < e})
  BY <1>1, FS_Subset DEF RescanAssumption
<1> QED
  BY <1>2, FS_CardinalityType DEF Offset

\* An entry that arXiv inserts moves no other towards the start.
LEMMA OffsetGrows ==
  ASSUME RescanAssumption, Typed, Typed', listed \subseteq listed', NEW e
  PROVE  Offset(e) <= Offset(e)'
<1> DEFINE Before == {d \in listed : d < e}
<1>1. Before \subseteq Before'
  OBVIOUS
<1>2. IsFiniteSet(Before')
  <2>1. Before' \subseteq Entries
    BY DEF Typed
  <2> QED
    BY <2>1, FS_Subset DEF RescanAssumption
<1>3. Cardinality(Before) <= Cardinality(Before')
  BY <1>1, <1>2, FS_Subset
<1> QED
  BY <1>3 DEF Offset

\* Less of the listing lies before a page of the same index and a smaller size.
LEMMA SmallerPage ==
  ASSUME NEW p \in Nat, NEW s \in Nat, NEW t \in Nat, t < s
  PROVE  p * t <= p * s
  OBVIOUS

LEMMA NextPage ==
  ASSUME NEW p \in Nat, NEW s \in Nat
  PROVE  (p + 1) * s = p * s + s
  OBVIOUS

LEMMA TypedKept ==
  ASSUME RescanAssumption, Typed, [RescanNext]_rescan
  PROVE  Typed'
<1>1. CASE Ask \/ Fetch \/ Fails \/ Write \/ UNCHANGED rescan
  BY <1>1 DEF Typed, Ask, Fetch, Fails, Write, rescan
<1>2. CASE Limited
  BY <1>2 DEF RescanAssumption, Typed, Limited
<1>3. CASE Turn
  BY <1>3 DEF Typed, Turn
<1>4. CASE Announce
  BY <1>4 DEF Typed, Announce
<1> QED
  BY <1>1, <1>2, <1>3, <1>4 DEF RescanNext, Handler, Finished

\* A step that leaves listing, page and size alone keeps the offsets.
LEMMA OffsetSame ==
  ASSUME listed' = listed, NEW e
  PROVE  Offset(e)' = Offset(e)
  BY DEF Offset

LEMMA CoveredSame ==
  ASSUME listed' = listed, first' = first, sent \cup entries \subseteq (sent \cup entries)',
         NEW STATE end, CoveredUpTo(end)
  PROVE  \A e \in Wanted' : Offset(e)' < end => e \in (sent \cup entries)'
  BY OffsetSame DEF CoveredUpTo, Wanted

LEMMA FetchCovers ==
  ASSUME RescanAssumption, PagesInv, Fetch
  PROVE  Covered'
<1>1. ASSUME NEW e \in Wanted', Offset(e)' < ((page + 1) * size)'
      PROVE  e \in (sent \cup entries)'
  <2>1. Offset(e) \in Nat
    BY OffsetNat DEF PagesInv
  <2>2. page \in Nat /\ size \in Nat /\ page * size \in Nat
    BY DEF PagesInv, Typed
  <2>3. Offset(e) < page * size + size
    BY <1>1, <2>2, NextPage, OffsetSame DEF Fetch
  <2>4. CASE Offset(e) < page * size
    <3>1. e \in sent
      BY <1>1, <2>4 DEF PagesInv, Covered, CoveredUpTo, Fetch, Wanted
    <3> QED
      BY <3>1 DEF Fetch
  <2>5. CASE ~(Offset(e) < page * size)
    <3>1. e \in Slice(page * size) \ Odd
      BY <1>1, <2>1, <2>2, <2>3, <2>5 DEF Slice, Fetch, Wanted, PagesInv, Typed
    <3> QED
      BY <3>1 DEF Fetch
  <2> QED
    BY <2>4, <2>5
<1> QED
  BY <1>1 DEF Covered, CoveredUpTo, Fetch

LEMMA LimitedCovers ==
  ASSUME RescanAssumption, PagesInv, Limited
  PROVE  Covered'
<1>1. CASE ~(size > SmallPage)
  BY <1>1 DEF Limited, Covered
<1>2. CASE size > SmallPage
  <2>1. page * SmallPage <= page * size
    BY <1>2, SmallerPage DEF PagesInv, Typed, RescanAssumption
  <2>2. page * SmallPage \in Nat /\ page * size \in Nat
    BY DEF PagesInv, Typed, RescanAssumption
  <2>3. ASSUME NEW e \in Wanted', Offset(e)' < (page * size)'
        PROVE  e \in (sent \cup entries)'
    <3>1. Offset(e) \in Nat
      BY OffsetNat DEF PagesInv
    <3>2. Offset(e) < page * size
      BY <1>2, <2>1, <2>2, <2>3, <3>1, OffsetSame DEF Limited
    <3> QED
      BY <2>3, <3>2 DEF PagesInv, Covered, CoveredUpTo, Limited, Wanted
  <2> QED
    BY <1>2, <2>3 DEF Covered, CoveredUpTo, Limited, PagesInv
<1> QED
  BY <1>1, <1>2

LEMMA AnnounceCovers ==
  ASSUME RescanAssumption, PagesInv, Typed', Announce
  PROVE  Covered'
<1>1. ASSUME NEW e \in Wanted', NEW end \in Nat, CoveredUpTo(end), Offset(e)' < end
      PROVE  e \in (sent \cup entries)'
  <2>1. Offset(e) \in Nat /\ Offset(e)' \in Nat
    <3>1. Offset(e) \in Nat
      BY OffsetNat DEF PagesInv
    <3>2. {d \in listed' : d < e} \subseteq Entries
      BY DEF Typed
    <3>3. Offset(e)' \in Nat
      BY <3>2, FS_Subset, FS_CardinalityType DEF Offset, RescanAssumption
    <3> QED
      BY <3>1, <3>3
  <2>2. Offset(e) <= Offset(e)'
    BY OffsetGrows DEF PagesInv, Announce
  <2>3. Offset(e) < end
    BY <1>1, <2>1, <2>2
  <2> QED
    BY <1>1, <2>3 DEF CoveredUpTo, Announce, Wanted
<1>2. page * size \in Nat /\ (page + 1) * size \in Nat
  BY DEF PagesInv, Typed
<1> QED
  BY <1>1, <1>2 DEF PagesInv, Covered, CoveredUpTo, Announce

LEMMA PageStepKeeps ==
  ASSUME RescanAssumption, PagesInv, [RescanNext]_rescan
  PROVE  PagesInv'
<1>1. Typed'
  BY TypedKept DEF PagesInv
<1> SUFFICES Covered'
  BY <1>1 DEF PagesInv
<1>2. CASE Ask
  BY <1>2, CoveredSame DEF PagesInv, Covered, CoveredUpTo, Ask
<1>3. CASE Fetch
  BY <1>1, <1>3, FetchCovers
<1>4. CASE Limited
  BY <1>4, LimitedCovers
<1>5. CASE Fails
  BY <1>5 DEF Covered, Fails
<1>6. CASE Write
  BY <1>6, CoveredSame DEF PagesInv, Covered, CoveredUpTo, Write
<1>7. CASE Turn
  BY <1>7, CoveredSame DEF PagesInv, Covered, CoveredUpTo, Turn
<1>8. CASE Announce
  BY <1>1, <1>8, AnnounceCovers
<1>9. CASE UNCHANGED rescan
  BY <1>9, CoveredSame DEF PagesInv, Covered, CoveredUpTo, rescan
<1> QED
  BY <1>2, <1>3, <1>4, <1>5, <1>6, <1>7, <1>8, <1>9 DEF RescanNext, Handler, Finished

LEMMA InitCovers == ASSUME RescanAssumption, RescanInit PROVE PagesInv
<1>1. Typed
  BY DEF RescanInit, Typed, RescanAssumption
<1>2. ASSUME NEW e \in Wanted PROVE ~(Offset(e) < page * size)
  <2>1. page * size = 0
    BY DEF RescanInit, RescanAssumption
  <2>2. Offset(e) \in Nat
    BY <1>1, OffsetNat
  <2> QED
    BY <2>1, <2>2
<1> QED
  BY <1>1, <1>2 DEF RescanInit, PagesInv, Covered, CoveredUpTo

\* Before the page to come, every entry listed from the start has been sent
\* (the loop of handleAdminArxivRescan), for any listing, any insertions into
\* it, any page sizes and a 429 at any page; and so has all that the pages of a
\* rescan span that answers ok, capped, cancelled or ended early.
THEOREM PagesLeaveNoGap == RescanSpec => []NoGap
<1>1. RescanInit => PagesInv
  BY InitCovers, RescanAssumption
<1>2. PagesInv /\ [RescanNext]_rescan => PagesInv'
  BY PageStepKeeps, RescanAssumption
<1>3. PagesInv => NoGap
  BY DEF PagesInv, Covered, CoveredUpTo, NoGap, SentUpTo, Wanted
<1> QED
  BY <1>1, <1>2, <1>3, PTL DEF RescanSpec
-----------------------------------------------------------------------------
(***************************************************************************)
(* A short page ends the listing.  Offsets have no holes, so that a page   *)
(* with less than size entries leaves none behind it: the earliest entry   *)
(* behind the page would be preceded by fewer entries than it is.          *)
(***************************************************************************)
LEMMA LeastElement ==
  ASSUME NEW T \in SUBSET Nat, T # {}
  PROVE  \E m \in T : \A n \in T : m <= n
<1>1. PICK m \in T : \A n \in T : ~(<<n, m>> \in OpToRel(<, Nat))
  BY NatLessThanWellFounded, WFMin
<1>2. \A n \in T : ~(n < m)
  BY <1>1 DEF OpToRel
<1> QED
  BY <1>2

LEMMA GreatestElement ==
  ASSUME NEW T \in SUBSET Nat, T # {}, NEW bound \in Nat, \A n \in T : n <= bound
  PROVE  \E m \in T : \A n \in T : n <= m
<1> DEFINE Below == {bound - n : n \in T}
<1>1. Below \in SUBSET Nat /\ Below # {}
  <2>1. \A n \in T : bound - n \in Nat
    OBVIOUS
  <2> QED
    BY <2>1
<1>2. PICK k \in Below : \A n \in Below : k <= n
  BY <1>1, LeastElement
<1>3. PICK m \in T : k = bound - m
  BY <1>2
<1>4. ASSUME NEW n \in T PROVE n <= m
  <2>1. bound - m <= bound - n
    BY <1>2, <1>3
  <2> QED
    BY <2>1
<1> QED
  BY <1>4

\* At most as many entries as an offset says lie before it.
LEMMA FewBefore ==
  ASSUME RescanAssumption, Typed, NEW start \in Nat,
         NEW A \in SUBSET listed, \A d \in A : Offset(d) < start,
         NEW bound \in Nat, \A d \in A : d <= bound
  PROVE  IsFiniteSet(A) /\ Cardinality(A) <= start
<1>0. IsFiniteSet(listed) /\ listed \subseteq Nat
  BY FS_Subset DEF Typed, RescanAssumption
<1>1. IsFiniteSet(A)
  BY <1>0, FS_Subset
<1>2. CASE A = {}
  BY <1>2, FS_EmptySet
<1>3. CASE A # {}
  <2>2. PICK a \in A : \A d \in A : d <= a
    BY <1>0, <1>3, GreatestElement
  <2> DEFINE Before == {d \in listed : d < a}
  <2>3. IsFiniteSet(Before) /\ Cardinality(Before) = Offset(a) /\ Offset(a) \in Nat
    BY OffsetNat DEF Offset
  <2>4. A \subseteq Before \cup {a}
    <3>1. ASSUME NEW d \in A PROVE d \in Before \cup {a}
      <4>1. d \in Nat /\ a \in Nat /\ d <= a /\ d \in listed
        BY <1>0, <2>2
      <4> QED
        BY <4>1
    <3> QED
      BY <3>1
  <2>5. IsFiniteSet(Before \cup {a}) /\ Cardinality(Before \cup {a}) = Offset(a) + 1
    <3>1. a \notin Before
      BY <1>0
    <3> HIDE DEF Before
    <3> QED
      BY <2>3, <3>1, FS_AddElement
  <2>6. Cardinality(A) <= Offset(a) + 1
    BY <2>4, <2>5, FS_Subset
  <2> QED
    BY <1>1, <2>2, <2>3, <2>6, FS_CardinalityType
<1> QED
  BY <1>2, <1>3

\* A page that is not full is followed by nothing.
LEMMA ShortPageLast ==
  ASSUME RescanAssumption, Typed, NEW start \in Nat,
         Cardinality(Slice(start)) < size, NEW e \in listed
  PROVE  Offset(e) < start + size
<1>0. IsFiniteSet(listed) /\ listed \subseteq Nat /\ size \in Nat
  BY FS_Subset DEF Typed, RescanAssumption
<1>1. \A d \in listed : Offset(d) \in Nat
  BY OffsetNat
<1> SUFFICES ASSUME ~(Offset(e) < start + size) PROVE FALSE
  OBVIOUS
<1> DEFINE Behind == {d \in listed : Offset(d) >= start + size}
<1>2. e \in Behind
  BY <1>0, <1>1
<1>3. PICK m \in Behind : \A d \in Behind : m <= d
  BY <1>0, <1>2, LeastElement
<1> DEFINE Before == {d \in listed : d < m}
           A == {d \in Before : Offset(d) < start}
<1>4. Before \subseteq A \cup Slice(start)
  <2>1. ASSUME NEW d \in Before PROVE d \in A \cup Slice(start)
    <3>1. d \in listed /\ d \notin Behind /\ Offset(d) \in Nat
      BY <1>0, <1>1, <1>3, <2>1
    <3> QED
      BY <1>0, <2>1, <3>1 DEF Slice
  <2> QED
    BY <2>1
<1>5. IsFiniteSet(A) /\ Cardinality(A) <= start /\ Cardinality(A) \in Nat
  <2>1. A \in SUBSET listed /\ \A d \in A : Offset(d) < start
    OBVIOUS
  <2>2. m \in Nat /\ \A d \in A : d <= m
    BY <1>0, <1>3
  <2> HIDE DEF A
  <2> QED
    BY <2>1, <2>2, FewBefore, FS_CardinalityType
<1>6. IsFiniteSet(Slice(start)) /\ Cardinality(Slice(start)) \in Nat
  BY <1>0, FS_Subset, FS_CardinalityType DEF Slice
<1>7. /\ IsFiniteSet(A \cup Slice(start)) /\ Cardinality(A \cap Slice(start)) \in Nat
      /\ Cardinality(A \cup Slice(start)) =
           Cardinality(A) + Cardinality(Slice(start)) - Cardinality(A \cap Slice(start))
  BY <1>5, <1>6, FS_Union, FS_Intersection, FS_CardinalityType
<1>8. Cardinality(Before) <= Cardinality(A \cup Slice(start))
  BY <1>4, <1>7, FS_Subset
<1>9. Cardinality(Before) = Offset(m) /\ Offset(m) \in Nat /\ Offset(m) >= start + size
  BY <1>1, <1>3 DEF Offset
<1> HIDE DEF A, Before
<1> QED
  BY <1>0, <1>5, <1>6, <1>7, <1>8, <1>9

\* Once a short page has come, what was listed from the start is sent or in it.
Whole == Wanted \subseteq sent \cup entries

Ending ==
  listed \cap Odd = {} => /\ at = "write" /\ short => Whole
                          /\ at = "all" => Whole /\ entries = {}

LEMMA EndingKept ==
  ASSUME RescanAssumption, PagesInv, Ending, [RescanNext]_rescan
  PROVE  Ending'
<1> SUFFICES ASSUME (listed \cap Odd = {})' PROVE Ending'
  BY DEF Ending
<1>0. listed \subseteq listed' /\ first' = first /\ listed \cap Odd = {}
  <2>1. listed \subseteq listed' /\ first' = first
    BY DEF RescanNext, Handler, Ask, Fetch, Limited, Fails, Write, Turn, Announce, Finished, rescan
  <2> QED
    BY <2>1
<1>1. CASE Ask \/ Limited \/ Fails
  BY <1>1 DEF Ask, Limited, Fails, Ending
<1>2. CASE Fetch
  <2>1. ASSUME short' PROVE Whole'
    <3>1. Slice(page * size) \ Odd = Slice(page * size)
      BY <1>0 DEF Slice
    <3>2. Cardinality(Slice(page * size)) < size /\ page * size \in Nat
      <4>1. entries' = Slice(page * size) /\ short' = (Cardinality(entries') < size)
        BY <1>2, <3>1 DEF Fetch
      <4>2. page * size \in Nat
        BY DEF PagesInv, Typed
      <4> QED
        BY <2>1, <4>1, <4>2
    <3>3. ASSUME NEW e \in Wanted PROVE e \in (sent \cup entries)'
      <4>1. e \in listed
        BY <3>3 DEF Wanted, PagesInv, Typed
      <4>2. Offset(e) < page * size + size /\ Offset(e) \in Nat
        BY <3>2, <4>1, ShortPageLast, OffsetNat DEF PagesInv
      <4>3. CASE Offset(e) < page * size
        BY <1>2, <4>3 DEF PagesInv, Covered, CoveredUpTo, Fetch
      <4>4. CASE ~(Offset(e) < page * size)
        <5>1. e \in Slice(page * size)
          BY <3>2, <4>1, <4>2, <4>4 DEF Slice, PagesInv, Typed
        <5> QED
          BY <1>2, <3>1, <5>1 DEF Fetch
      <4> QED
        BY <4>3, <4>4
    <3> QED
      BY <1>0, <3>3 DEF Whole, Wanted
  <2> QED
    BY <1>2, <2>1 DEF Ending, Fetch
<1>3. CASE Write
  BY <1>0, <1>3 DEF Ending, Whole, Wanted, Write
<1>4. CASE Turn
  BY <1>0, <1>4 DEF Ending, Whole, Wanted, Turn
<1>5. CASE Announce \/ UNCHANGED rescan
  BY <1>0, <1>5 DEF Ending, Whole, Wanted, Announce, rescan
<1> QED
  BY <1>1, <1>2, <1>3, <1>4, <1>5 DEF RescanNext, Handler, Finished

\* A rescan that ends at a short page has sent all that was listed when it
\* started, whatever was inserted and however the page size changed, as long as
\* arXiv lists no entry that decodeAtom drops.  A rescan that maxPages or a
\* cancellation ends also answers ok; of that one PagesLeaveNoGap speaks.
THEOREM ShortPageEnds == RescanSpec => []Complete
<1>1. RescanInit => PagesInv
  BY InitCovers, RescanAssumption
<1>2. PagesInv /\ [RescanNext]_rescan => PagesInv'
  BY PageStepKeeps, RescanAssumption
<1>3. RescanInit => Ending
  BY DEF RescanInit, Ending
<1>4. PagesInv /\ Ending /\ [RescanNext]_rescan => Ending'
  BY EndingKept, RescanAssumption
<1>5. PagesInv /\ Ending => Complete
  BY DEF PagesInv, Typed, Ending, Complete, Whole, Wanted
<1> QED
  BY <1>1, <1>2, <1>3, <1>4, <1>5, PTL DEF RescanSpec
=============================================================================
