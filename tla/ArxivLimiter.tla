---------------------------- MODULE ArxivLimiter ----------------------------
(***************************************************************************)
(* Requests to export.arxiv.org.  The watcher and each rescan of the API   *)
(* take a connection of their process's pool, wait on it for an advisory   *)
(* lock of Postgres, then for the limiter of their process, and try up to  *)
(* MaxAttempts times.  arXiv and Postgres are external.  Time is counted   *)
(* in ticks; what is left to wait is counted down.                         *)
(***************************************************************************)
EXTENDS Integers, Sequences, FiniteSets

CONSTANTS
  Procs,        \* processes
  Callers,      \* goroutines that send requests
  ProcOf,       \* ProcOf[c]: the process of c
  PoolSize,     \* connections in the pool of a process
  MaxAttempts,  \* 8 in the code
  Gap,          \* apiMinInterval, at least 3 s
  GapLimited,   \* the least wait after a 429, 10 s
  GapFailed,    \* the least wait after a 502, 503 or 504, 8 s
  MaxRetryAfter,\* bound: what a Retry-After may ask for
  Faults        \* "crash": a process dies; "session": Postgres ends the
                \* session of a connection; "cancel": a request is cancelled

ASSUME LimiterAssumption ==
  /\ ProcOf \in [Callers -> Procs]
  /\ PoolSize \in Nat \ {0} /\ MaxAttempts \in Nat \ {0}
  /\ Gap \in Nat \ {0} /\ GapLimited \in Nat /\ GapFailed \in Nat
  /\ MaxRetryAfter \in Nat
  /\ Faults \subseteq {"crash", "session", "cancel"}

VARIABLES
  caller,    \* where each goroutine is and how often it has tried
  queue,     \* who waits for the advisory lock, in the order Postgres serves
  holder,    \* the sessions that hold it: at most one
  earliest,  \* rateEarliestNext of each process, as ticks to go
  rested,    \* history: ticks since the last answer, up to Gap
  owed,      \* history: ticks left of what the answers so far asked for
  torn       \* history: processes that Postgres has ended a session of

vars == <<caller, queue, holder, earliest, rested, owed, torn>>
limiter == <<earliest, rested, owed>>

Larger(a, b) == IF a > b THEN a ELSE b
Longest == Larger(Gap, Larger(Larger(GapLimited, GapFailed), MaxRetryAfter))

Idle == [at |-> "idle", tried |-> 0]
Busy == [at : {"pool", "queue", "wait", "flight"}, tried : 0 .. MaxAttempts - 1]

TypeOK ==
  /\ caller \in [Callers -> {Idle} \cup Busy]
  /\ queue \in Seq(Callers) /\ holder \subseteq Callers
  /\ earliest \in [Procs -> 0 .. Longest]
  /\ rested \in [Procs -> 0 .. Gap]
  /\ owed \in [Procs -> 0 .. MaxRetryAfter]
  /\ torn \subseteq Procs

Init ==
  /\ caller = [c \in Callers |-> Idle]
  /\ queue = << >> /\ holder = {}
  /\ earliest = [p \in Procs |-> 0]
  /\ rested = [p \in Procs |-> Gap]
  /\ owed = [p \in Procs |-> 0] /\ torn = {}

-----------------------------------------------------------------------------
Connected == {c \in Callers : caller[c].at \in {"queue", "wait", "flight"}}
InUse(p) == {c \in Connected : ProcOf[c] = p}

\* WithArxivRequestLock is called: the goroutine asks the pool for a connection.
WantConnection(c) ==
  /\ caller[c] = Idle
  /\ caller' = [caller EXCEPT ![c] = [at |-> "pool", tried |-> 0]]
  /\ UNCHANGED <<queue, holder, limiter, torn>>

\* p.Acquire returns, then pg_advisory_lock.
Acquire(c) ==
  /\ caller[c].at = "pool"
  /\ Cardinality(InUse(ProcOf[c])) < PoolSize
  /\ caller' = [caller EXCEPT ![c] = [at |-> "queue", tried |-> 0]]
  /\ queue' = Append(queue, c)
  /\ UNCHANGED <<holder, limiter, torn>>

\* Mutant of Lock: pg_try_advisory_lock, without a look at its answer.
LockTry(c) ==
  /\ caller[c].at = "queue"
  /\ queue' = SelectSeq(queue, LAMBDA d : d # c)
  /\ holder' = holder \cup {c}
  /\ caller' = [caller EXCEPT ![c] = [at |-> "wait", tried |-> @.tried]]
  /\ UNCHANGED <<limiter, torn>>

Lock(c) ==
  /\ holder = {}
  /\ queue # << >> /\ c = Head(queue)
  /\ queue' = Tail(queue) /\ holder' = {c}
  /\ caller' = [caller EXCEPT ![c] = [at |-> "wait", tried |-> @.tried]]
  /\ UNCHANGED <<limiter, torn>>

\* Mutant of Release: the unlock takes a connection of the pool.
ReleasePooled(c) ==
  /\ Cardinality(InUse(ProcOf[c])) < PoolSize
  /\ caller' = [caller EXCEPT ![c] = Idle]
  /\ holder' = holder \ {c}

\* The deferred unlock, and the connection goes back to the pool.
Release(c) ==
  /\ caller' = [caller EXCEPT ![c] = Idle]
  /\ holder' = holder \ {c}

\* rateWait returns: the slot is not reserved, the lock keeps others out.
Send(c) ==
  /\ caller[c].at = "wait"
  /\ earliest[ProcOf[c]] = 0
  /\ caller' = [caller EXCEPT ![c] = [at |-> "flight", tried |-> @.tried]]
  /\ UNCHANGED <<queue, holder, limiter, torn>>

\* Mutant of Note: the wait that a rejection asks for is ignored.
NoteGap(p, wait, asked) ==
  /\ earliest' = [earliest EXCEPT ![p] = Gap]
  /\ rested' = [rested EXCEPT ![p] = 0]
  /\ owed' = [owed EXCEPT ![p] = Larger(@, asked)]

\* rateNoteResponse, with what the answer asked for.
Note(p, wait, asked) ==
  /\ earliest' = [earliest EXCEPT ![p] = Larger(Gap, wait)]
  /\ rested' = [rested EXCEPT ![p] = 0]
  /\ owed' = [owed EXCEPT ![p] = Larger(@, asked)]

\* A 429, 502, 503 or 504, with or without Retry-After.
NoteRejection(p) ==
  \E least \in {GapLimited, GapFailed}, asked \in 0 .. MaxRetryAfter :
    Note(p, Larger(least, asked), asked)

\* SearchPage returns: 200, an error that is not retried, a transport error,
\* a cancellation, or a body that cannot be read, whatever the status.
Answered(c) ==
  /\ caller[c].at = "flight"
  /\ Note(ProcOf[c], 0, 0) \/ NoteRejection(ProcOf[c])
  /\ Release(c)
  /\ UNCHANGED <<queue, torn>>

LastAttempt(c) == caller[c].tried + 1 = MaxAttempts

\* A rejection is tried again, until the attempts are used up.
Rejected(c) ==
  /\ caller[c].at = "flight"
  /\ NoteRejection(ProcOf[c])
  /\ IF ~LastAttempt(c)
     THEN /\ caller' = [caller EXCEPT ![c] = [at |-> "wait", tried |-> @.tried + 1]]
          /\ UNCHANGED holder
     ELSE Release(c)
  /\ UNCHANGED <<queue, torn>>

\* The context is done while the goroutine waits for a connection, the lock or
\* the limiter.
Cancel(c) ==
  /\ "cancel" \in Faults
  /\ caller[c].at \in {"pool", "queue", "wait"}
  /\ Release(c)
  /\ queue' = SelectSeq(queue, LAMBDA d : d # c)
  /\ UNCHANGED <<limiter, torn>>

\* Postgres ends the session: its lock is free, its goroutine goes on.
SessionLost(c) ==
  /\ "session" \in Faults
  /\ c \in holder
  /\ holder' = holder \ {c}
  /\ torn' = torn \cup {ProcOf[c]}
  /\ UNCHANGED <<caller, queue, limiter>>

\* A process dies and is restarted: Postgres ends its sessions.
Crash(p) ==
  /\ "crash" \in Faults
  /\ caller' = [c \in Callers |-> IF ProcOf[c] = p THEN Idle ELSE caller[c]]
  /\ queue' = SelectSeq(queue, LAMBDA c : ProcOf[c] # p)
  /\ holder' = {c \in holder : ProcOf[c] # p}
  /\ earliest' = [earliest EXCEPT ![p] = 0]
  /\ rested' = [rested EXCEPT ![p] = Gap]
  /\ owed' = [owed EXCEPT ![p] = 0]
  /\ torn' = torn \ {p}

Down(n) == IF n = 0 THEN 0 ELSE n - 1

Tick ==
  /\ earliest' = [p \in Procs |-> Down(earliest[p])]
  /\ owed' = [p \in Procs |-> Down(owed[p])]
  /\ rested' = [p \in Procs |-> IF rested[p] < Gap THEN rested[p] + 1 ELSE Gap]
  /\ UNCHANGED <<caller, queue, holder, torn>>

Search(c) == Lock(c) \/ Send(c) \/ Answered(c) \/ Rejected(c)

Next ==
  \/ \E c \in Callers : WantConnection(c) \/ Acquire(c) \/ Search(c) \/ Cancel(c) \/ SessionLost(c)
  \/ \E p \in Procs : Crash(p)
  \/ Tick

Spec == Init /\ [][Next]_vars

\* Requests are answered or time out, and time passes.  The pool serves those
\* who wait for a connection in the order they came, which strong fairness
\* stands for.
Fairness ==
  /\ \A c \in Callers : SF_vars(Acquire(c)) /\ WF_vars(Search(c))
  /\ WF_vars(Tick)

FairSpec == Spec /\ Fairness

-----------------------------------------------------------------------------
InFlight == {c \in Callers : caller[c].at = "flight"}

\* Outbound requests are serialized across all processes, whatever dies or is
\* cancelled at whatever moment.  A process whose session Postgres has ended
\* may send a second one, until it is restarted; the others may not.
OneInFlight == Cardinality({c \in InFlight : ProcOf[c] \notin torn}) <= 1

\* A process sends a request no sooner than Gap after it had its last answer,
\* and not before what every answer asked for has gone by.
Polite ==
  [][\A c \in InFlight' \ InFlight :
       ProcOf[c] \in torn \/ (rested[ProcOf[c]] = Gap /\ owed[ProcOf[c]] = 0)]_vars

\* Whoever waits in line has its turn, or gives up: a rescan that takes the
\* lock page by page, an arXiv that rejects everything and processes that die
\* hold nobody up for ever, and goroutines that hold connections while they
\* wait do not block each other.
EveryoneServed ==
  \A c \in Callers :
    (caller[c].at \in {"pool", "queue"}) ~> (caller[c].at \notin {"pool", "queue"})
=============================================================================
