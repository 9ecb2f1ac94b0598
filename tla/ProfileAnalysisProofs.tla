----------------------- MODULE ProfileAnalysisProofs -----------------------
(***************************************************************************)
(* What holds of the backfills and of the jobs that analyse papers for     *)
(* profiles, for any number of profiles, papers, goroutines of keyword and *)
(* API requests.                                                           *)
(***************************************************************************)
EXTENDS ProfileAnalysis, FiniteSetTheorems, SequenceTheorems, TLAPS

\* The rows a backfill inserts are those it has selected.
LEMMA SeqOfSet ==
  ASSUME NEW S, IsFiniteSet(S)
  PROVE  /\ Cardinality(S) \in Nat
         /\ SetToSeq(S) \in [1 .. Cardinality(S) -> S]
         /\ \A x \in S : \E k \in 1 .. Cardinality(S) : SetToSeq(S)[k] = x
<1> DEFINE n == Cardinality(S)
<1>1. n \in Nat /\ ExistsBijection(1 .. n, S)
  BY FS_CardinalityType
<1>2. \E f \in [1 .. n -> S] : IsInjective(f)
  BY <1>1 DEF ExistsBijection, Bijection, Injection
<1>3. SetToSeq(S) \in [1 .. n -> S] /\ IsInjective(SetToSeq(S))
  BY <1>2 DEF SetToSeq
<1>4. SetToSeq(S) \in Injection(1 .. n, S)
  BY <1>3 DEF Injection
<1>5. Cardinality(1 .. n) = n
  BY <1>1, FS_Interval
<1>6. SetToSeq(S) \in Surjection(1 .. n, S)
  BY <1>4, <1>5, FS_Injection
<1>7. QED
  BY <1>1, <1>3, <1>6 DEF Surjection

-----------------------------------------------------------------------------
(***************************************************************************)
(* Types, and what the rows, the goroutines and the requests refer to: to  *)
(* papers that were inserted and profiles that were created, gone since or *)
(* not.                                                                    *)
(***************************************************************************)
Known(c) == profile[c] # "new"

JobRefs(jobs) == \A j \in DOMAIN jobs : Known(jobs[j].profile) /\ jobs[j].paper \in papers

ReaderRefs ==
  \A r \in Readers :
    /\ reader[r].at \in {"bare", "each", "fill", "enqueue"} =>
         \A c \in reader[r].todo : Known(c)
    /\ reader[r].at \in {"fill", "enqueue"} => Known(reader[r].profile)

HandlerRefs == \A h \in Handlers : handler[h] # Idle => Known(handler[h].profile)

WorkerRefs ==
  IF worker.at = "turn" THEN worker.job = 0
  ELSE worker.job \in DOMAIN (IF worker.kind = "analyze" THEN analyzeJobs ELSE verifyJobs)

Refs ==
  /\ \A c \in Profiles : ~Known(c) => config[c] = NoConfig
  /\ IsFiniteSet(papers)
  /\ JobRefs(analyzeJobs) /\ JobRefs(verifyJobs)
  /\ ReaderRefs /\ HandlerRefs /\ WorkerRefs

TypeInv == TypeOK /\ Refs

\* The fields of the goroutines and the requests, by where they are.
LEMMA ReaderShape ==
  ASSUME TypeOK, NEW r \in Readers
  PROVE  /\ reader[r].at \in {"idle", "list", "bare", "each", "fill", "enqueue"}
         /\ reader[r].at = "idle" <=> reader[r] = Idle
         /\ reader[r].at # "idle" => reader[r].paper \in papers
         /\ reader[r].at \in {"bare", "each"} =>
              reader[r] \in [at : {"bare", "each"}, paper : papers, todo : SUBSET Profiles]
         /\ reader[r].at = "fill" =>
              reader[r] \in [at : {"fill"}, paper : papers, todo : SUBSET Profiles,
                             profile : Profiles, keywords : SUBSET Keywords]
         /\ reader[r].at = "enqueue" =>
              reader[r] \in [at : {"enqueue"}, paper : papers, todo : SUBSET Profiles,
                             profile : Profiles]
<1>1. reader[r] \in ReaderStates
  BY DEF TypeOK
<1>2. QED
  BY <1>1 DEF ReaderStates, Idle

LEMMA HandlerShape ==
  ASSUME TypeOK, NEW h \in Handlers
  PROVE  /\ handler[h].at \in {"idle", "select", "insert", "answer", "verify"}
         /\ handler[h].at = "idle" <=> handler[h] = Idle
         /\ handler[h].at # "idle" => handler[h].profile \in Profiles
         /\ handler[h].at \in {"select", "insert"} => handler[h].part \in {"arxiv", "feeds"}
         /\ handler[h].at = "insert" => handler[h].todo \subseteq papers
         /\ handler[h].at \in {"answer", "verify"} => handler[h].paper \in papers
         /\ handler[h].at = "answer" => handler[h].pass \in BOOLEAN
<1>1. handler[h] \in HandlerStates
  BY DEF TypeOK
<1>2. QED
  BY <1>1 DEF HandlerStates, Idle

LEMMA ConfigShape ==
  ASSUME TypeOK, NEW c \in Profiles
  PROVE  /\ config[c].keywords \in SUBSET Keywords
         /\ \A new \in Configs : new.keywords \in SUBSET Keywords
<1>1. config[c] \in Settings /\ Configs \subseteq Settings
  BY PapersAssumption DEF TypeOK
<1>2. QED
  BY <1>1 DEF Settings

LEMMA JobShape ==
  ASSUME TypeOK
  PROVE  /\ \A j \in DOMAIN analyzeJobs : j \in Nat \ {0} /\ analyzeJobs[j] \in AJobs!Job
                                         /\ analyzeJobs[j].profile \in Profiles
                                         /\ analyzeJobs[j].paper \in Papers
         /\ \A j \in DOMAIN verifyJobs : j \in Nat \ {0} /\ verifyJobs[j] \in VJobs!Job
                                        /\ verifyJobs[j].profile \in Profiles
                                        /\ verifyJobs[j].paper \in Papers
<1>1. analyzeJobs \in Seq(AJobs!Job) /\ verifyJobs \in Seq(VJobs!Job)
  BY DEF TypeOK
<1>2. /\ \A j \in DOMAIN analyzeJobs : j \in Nat \ {0} /\ analyzeJobs[j] \in AJobs!Job
      /\ \A j \in DOMAIN verifyJobs : j \in Nat \ {0} /\ verifyJobs[j] \in VJobs!Job
  BY <1>1
<1>3. QED
  BY <1>2 DEF AJobs!Job, VJobs!Job

\* The job the worker holds.
LEMMA JobHeld ==
  ASSUME TypeInv, worker.at # "turn"
  PROVE  /\ Job.profile \in Profiles /\ Job.paper \in papers /\ Known(Job.profile)
         /\ worker.job \in Nat \ {0}
<1>1. worker.job \in DOMAIN (IF worker.kind = "analyze" THEN analyzeJobs ELSE verifyJobs)
  BY DEF TypeInv, Refs, WorkerRefs
<1>2. CASE worker.kind = "analyze"
  <2>1. worker.job \in DOMAIN analyzeJobs /\ Job = analyzeJobs[worker.job]
    BY <1>1, <1>2 DEF Job
  <2>2. QED
    BY <2>1, JobShape DEF TypeInv, Refs, JobRefs
<1>3. CASE worker.kind # "analyze"
  <2>1. worker.job \in DOMAIN verifyJobs /\ Job = verifyJobs[worker.job]
    BY <1>1, <1>3 DEF Job
  <2>2. QED
    BY <2>1, JobShape DEF TypeInv, Refs, JobRefs
<1>4. QED
  BY <1>2, <1>3

WorkerStates ==
  [at : {"turn", "config", "verdict", "previous", "judge", "upsert", "complete", "fail"},
   kind : {"analyze", "verify"}, job : Nat, pass : BOOLEAN, llm : Answer, stood : Answer]

UsersOK ==
  /\ profile \in [Profiles -> {"new", "live", "deleted"}]
  /\ config \in [Profiles -> Settings]
  /\ \A c \in Profiles : ~Known(c) => config[c] = NoConfig

CorpusOK == papers \subseteq Papers /\ IsFiniteSet(papers) /\ verdict \in [Papers -> Answer]

AnalysisOK ==
  /\ analysis \in [Profiles -> [Papers -> Row \cup {NoRow}]]
  /\ \A c \in Profiles, p \in Papers :
       analysis[c][p] # NoRow => profile[c] = "live" /\ p \in papers

QueuesOK ==
  /\ analyzeJobs \in Seq(AJobs!Job) /\ JobRefs(analyzeJobs)
  /\ verifyJobs \in Seq(VJobs!Job) /\ JobRefs(verifyJobs)

ReaderOK  == reader \in [Readers -> ReaderStates] /\ ReaderRefs
CacheOK   == cache \in [Profiles -> [known : BOOLEAN, keywords : SUBSET Keywords]]
HandlerOK == handler \in [Handlers -> HandlerStates] /\ HandlerRefs
WorkerOK  == worker \in WorkerStates /\ WorkerRefs

Tables ==
  /\ UsersOK /\ CorpusOK /\ AnalysisOK /\ QueuesOK
  /\ ReaderOK /\ CacheOK /\ HandlerOK /\ WorkerOK
  /\ requests \in 0 .. MaxRequests

\* The histories.
NotesOK == due \in [Profiles -> SUBSET papers] /\ written \subseteq Profiles \X papers

LEMMA Parts ==
  /\ TypeInv <=> /\ UsersOK /\ CorpusOK /\ AnalysisOK /\ QueuesOK
                 /\ ReaderOK /\ CacheOK /\ HandlerOK /\ WorkerOK
                 /\ requests \in 0 .. MaxRequests
                 /\ NotesOK
  /\ Tables' <=> /\ UsersOK' /\ CorpusOK' /\ AnalysisOK' /\ QueuesOK'
                 /\ ReaderOK' /\ CacheOK' /\ HandlerOK' /\ WorkerOK'
                 /\ requests' \in 0 .. MaxRequests
  /\ TypeInv' <=> Tables' /\ NotesOK'
BY DEF TypeInv, TypeOK, Refs, UsersOK, CorpusOK, AnalysisOK, QueuesOK, ReaderOK, CacheOK,
       HandlerOK, WorkerOK, WorkerStates, Tables, NotesOK

\* Papers and profiles that are known stay so, and what refers to them may.
LEMMA Grows ==
  ASSUME TypeInv, papers \subseteq papers',
         \A c \in Profiles : profile[c] # "new" => profile'[c] # "new"
  PROVE  /\ UNCHANGED reader => ReaderOK'
         /\ UNCHANGED handler => HandlerOK'
         /\ UNCHANGED analyzeJobs =>
              analyzeJobs' \in Seq(AJobs!Job) /\ JobRefs(analyzeJobs)'
         /\ UNCHANGED verifyJobs =>
              verifyJobs' \in Seq(VJobs!Job) /\ JobRefs(verifyJobs)'
<1>1. ReaderStates \subseteq ReaderStates'
  BY DEF ReaderStates
<1>2. HandlerStates \subseteq HandlerStates'
  BY DEF HandlerStates
<1>3. ASSUME UNCHANGED reader PROVE ReaderOK'
  <2>1. reader' \in [Readers -> ReaderStates']
    BY <1>1, <1>3, Parts DEF ReaderOK
  <2>2. ASSUME NEW r \in Readers
        PROVE  /\ reader[r].at \in {"bare", "each", "fill", "enqueue"} =>
                    \A c \in reader[r].todo : profile'[c] # "new"
               /\ reader[r].at \in {"fill", "enqueue"} => profile'[reader[r].profile] # "new"
    BY ReaderShape DEF TypeInv, Refs, ReaderRefs, Known
  <2>3. QED
    BY <1>3, <2>1, <2>2 DEF ReaderOK, ReaderRefs, Known
<1>4. ASSUME UNCHANGED handler PROVE HandlerOK'
  <2>1. handler' \in [Handlers -> HandlerStates']
    BY <1>2, <1>4, Parts DEF HandlerOK
  <2>2. ASSUME NEW h \in Handlers, handler[h] # Idle
        PROVE  profile'[handler[h].profile] # "new"
    BY <2>2, HandlerShape DEF TypeInv, Refs, HandlerRefs, Known
  <2>3. QED
    BY <1>4, <2>1, <2>2 DEF HandlerOK, HandlerRefs, Known
<1>5. ASSUME UNCHANGED analyzeJobs PROVE JobRefs(analyzeJobs)'
  BY <1>5, JobShape DEF TypeInv, Refs, JobRefs, Known
<1>6. ASSUME UNCHANGED verifyJobs PROVE JobRefs(verifyJobs)'
  BY <1>6, JobShape DEF TypeInv, Refs, JobRefs, Known
<1>7. QED
  BY <1>3, <1>4, <1>5, <1>6 DEF TypeInv, TypeOK

\* A job that is inserted or whose status changes.
LEMMA Appended ==
  ASSUME NEW S, NEW table \in Seq(S), NEW row \in S
  PROVE  /\ Append(table, row) \in Seq(S)
         /\ DOMAIN Append(table, row) = DOMAIN table \cup {Len(table) + 1}
         /\ \A i \in DOMAIN table : Append(table, row)[i] = table[i]
         /\ Append(table, row)[Len(table) + 1] = row
BY AppendProperties, LenProperties

LEMMA AJobEnqueued ==
  ASSUME TypeInv, NEW c \in Profiles, NEW p \in papers, AJobs!Enqueue(c, p)
  PROVE  /\ analyzeJobs' \in Seq(AJobs!Job)
         /\ DOMAIN analyzeJobs' = DOMAIN analyzeJobs \cup {Len(analyzeJobs) + 1}
         /\ \A j \in DOMAIN analyzeJobs : analyzeJobs'[j] = analyzeJobs[j]
         /\ analyzeJobs'[Len(analyzeJobs) + 1].profile = c
         /\ analyzeJobs'[Len(analyzeJobs) + 1].paper = p
         /\ analyzeJobs'[Len(analyzeJobs) + 1].status = "pending"
<1> DEFINE row == [profile |-> c, paper |-> p, status |-> "pending"]
<1>1. p \in Papers
  BY DEF TypeInv, TypeOK
<1>2. row \in AJobs!Job /\ row.profile = c /\ row.paper = p /\ row.status = "pending"
  BY <1>1 DEF AJobs!Job, AJobs!JobStatus
<1>3. analyzeJobs' = Append(analyzeJobs, row) /\ analyzeJobs \in Seq(AJobs!Job)
  BY DEF AJobs!Enqueue, TypeInv, TypeOK
<1> HIDE DEF row
<1>4. QED
  BY <1>2, <1>3, Appended

LEMMA VJobEnqueued ==
  ASSUME TypeInv, NEW c \in Profiles, NEW p \in papers, VJobs!Enqueue(c, p)
  PROVE  /\ verifyJobs' \in Seq(VJobs!Job)
         /\ DOMAIN verifyJobs' = DOMAIN verifyJobs \cup {Len(verifyJobs) + 1}
         /\ \A j \in DOMAIN verifyJobs : verifyJobs'[j] = verifyJobs[j]
         /\ verifyJobs'[Len(verifyJobs) + 1].profile = c
         /\ verifyJobs'[Len(verifyJobs) + 1].paper = p
<1> DEFINE row == [profile |-> c, paper |-> p, status |-> "pending"]
<1>1. p \in Papers
  BY DEF TypeInv, TypeOK
<1>2. row \in VJobs!Job /\ row.profile = c /\ row.paper = p
  BY <1>1 DEF VJobs!Job, VJobs!JobStatus
<1>3. verifyJobs' = Append(verifyJobs, row) /\ verifyJobs \in Seq(VJobs!Job)
  BY DEF VJobs!Enqueue, TypeInv, TypeOK
<1> HIDE DEF row
<1>4. QED
  BY <1>2, <1>3, Appended

LEMMA AJobStatus ==
  ASSUME TypeInv, NEW j, NEW status \in AJobs!JobStatus, AJobs!SetStatus(j, status)
  PROVE  /\ analyzeJobs' \in Seq(AJobs!Job)
         /\ DOMAIN analyzeJobs' = DOMAIN analyzeJobs
         /\ \A i \in DOMAIN analyzeJobs :
              /\ analyzeJobs'[i].profile = analyzeJobs[i].profile
              /\ analyzeJobs'[i].paper = analyzeJobs[i].paper
              /\ analyzeJobs'[i].status = IF i = j THEN status ELSE analyzeJobs[i].status
<1>0. analyzeJobs \in Seq(AJobs!Job)
  BY DEF TypeInv, TypeOK
<1>1. /\ analyzeJobs \in [DOMAIN analyzeJobs -> AJobs!Job]
      /\ \A i \in DOMAIN analyzeJobs : analyzeJobs[i] \in AJobs!Job
  BY <1>0
<1>2. analyzeJobs' = [analyzeJobs EXCEPT ![j] = [analyzeJobs[j] EXCEPT !.status = status]]
  BY DEF AJobs!SetStatus
<1>3. \A row \in AJobs!Job :
        /\ [row EXCEPT !.status = status] \in AJobs!Job
        /\ [row EXCEPT !.status = status].profile = row.profile
        /\ [row EXCEPT !.status = status].paper = row.paper
        /\ [row EXCEPT !.status = status].status = status
  BY DEF AJobs!Job
<1>4. analyzeJobs' \in [DOMAIN analyzeJobs -> AJobs!Job]
  BY <1>1, <1>2, <1>3
<1>5. DOMAIN analyzeJobs = 1 .. Len(analyzeJobs) /\ Len(analyzeJobs) \in Nat
  BY <1>0
<1>6. analyzeJobs' \in Seq(AJobs!Job)
  BY <1>4, <1>5, SeqDef
<1>7. QED
  BY <1>1, <1>2, <1>3, <1>4, <1>6

LEMMA VJobStatus ==
  ASSUME TypeInv, NEW j, NEW status \in VJobs!JobStatus, VJobs!SetStatus(j, status)
  PROVE  /\ verifyJobs' \in Seq(VJobs!Job)
         /\ DOMAIN verifyJobs' = DOMAIN verifyJobs
         /\ \A i \in DOMAIN verifyJobs :
              /\ verifyJobs'[i].profile = verifyJobs[i].profile
              /\ verifyJobs'[i].paper = verifyJobs[i].paper
<1>0. verifyJobs \in Seq(VJobs!Job)
  BY DEF TypeInv, TypeOK
<1>1. /\ verifyJobs \in [DOMAIN verifyJobs -> VJobs!Job]
      /\ \A i \in DOMAIN verifyJobs : verifyJobs[i] \in VJobs!Job
  BY <1>0
<1>2. verifyJobs' = [verifyJobs EXCEPT ![j] = [verifyJobs[j] EXCEPT !.status = status]]
  BY DEF VJobs!SetStatus
<1>3. \A row \in VJobs!Job :
        /\ [row EXCEPT !.status = status] \in VJobs!Job
        /\ [row EXCEPT !.status = status].profile = row.profile
        /\ [row EXCEPT !.status = status].paper = row.paper
  BY DEF VJobs!Job
<1>4. verifyJobs' \in [DOMAIN verifyJobs -> VJobs!Job]
  BY <1>1, <1>2, <1>3
<1>5. DOMAIN verifyJobs = 1 .. Len(verifyJobs) /\ Len(verifyJobs) \in Nat
  BY <1>0
<1>6. verifyJobs' \in Seq(VJobs!Job)
  BY <1>4, <1>5, SeqDef
<1>7. QED
  BY <1>1, <1>2, <1>3, <1>4
-----------------------------------------------------------------------------
\* A step of keyword keeps all but what it names.
LEMMA ReaderMoves ==
  ASSUME TypeInv, NEW r \in Readers, NEW state, ReaderGoto(r, state),
         papers \subseteq papers', papers' \subseteq Papers, IsFiniteSet(papers'),
         state \in ReaderStates',
         state.at \in {"bare", "each", "fill", "enqueue"} => \A c \in state.todo : Known(c),
         state.at \in {"fill", "enqueue"} => Known(state.profile),
         CacheOK'
  PROVE  Tables'
<1>1. /\ UNCHANGED <<profile, config, verdict, analysis, analyzeJobs, verifyJobs, handler,
                     worker, requests>>
      /\ reader' = [reader EXCEPT ![r] = state]
  BY DEF ReaderGoto, users, rows, queues
<1>2. UsersOK' /\ CorpusOK' /\ requests' \in 0 .. MaxRequests
  BY <1>1, Parts DEF UsersOK, CorpusOK, Known
<1>3. AnalysisOK'
  BY <1>1, Parts DEF AnalysisOK
<1>4. HandlerOK' /\ QueuesOK'
  BY <1>1, Grows DEF QueuesOK
<1>5. ReaderOK'
  <2>1. ReaderStates \subseteq ReaderStates'
    BY DEF ReaderStates
  <2>2. reader' \in [Readers -> ReaderStates']
    BY <1>1, <2>1, Parts DEF ReaderOK
  <2>3. \A g \in Readers : reader'[g] = IF g = r THEN state ELSE reader[g]
    BY <1>1 DEF TypeInv, TypeOK
  <2>4. ReaderRefs'
    BY <1>1, <2>3 DEF TypeInv, Refs, ReaderRefs, Known
  <2>5. QED
    BY <2>2, <2>4 DEF ReaderOK
<1>6. WorkerOK'
  BY <1>1, Parts DEF WorkerOK, WorkerRefs, WorkerStates
<1>7. QED
  BY <1>2, <1>3, <1>4, <1>5, <1>6, Parts

\* A step of the API likewise.
LEMMA HandlerMoves ==
  ASSUME TypeInv, NEW h \in Handlers, NEW state, HandlerEnters(h, state),
         state \in HandlerStates, state # Idle => profile'[state.profile] # "new",
         UsersOK', \A c \in Profiles : profile[c] # "new" => profile'[c] # "new",
         AnalysisOK',
         analyzeJobs' \in Seq(AJobs!Job), JobRefs(analyzeJobs)',
         DOMAIN analyzeJobs \subseteq DOMAIN analyzeJobs',
         verifyJobs' \in Seq(VJobs!Job), JobRefs(verifyJobs)',
         DOMAIN verifyJobs \subseteq DOMAIN verifyJobs',
         worker' = worker \/ \E s \in Answer : worker' = [worker EXCEPT !.stood = s],
         requests' \in 0 .. MaxRequests
  PROVE  Tables'
<1>1. /\ UNCHANGED <<papers, verdict, reader, cache>>
      /\ handler' = [handler EXCEPT ![h] = state]
  BY DEF HandlerEnters, corpus
<1>2. CorpusOK' /\ CacheOK' /\ QueuesOK'
  BY <1>1, Parts DEF CorpusOK, CacheOK, QueuesOK
<1>3. ReaderOK'
  BY <1>1, Grows
<1>4. HandlerOK'
  <2>1. HandlerStates \subseteq HandlerStates'
    BY <1>1 DEF HandlerStates
  <2>2. handler' \in [Handlers -> HandlerStates']
    BY <1>1, <2>1, Parts DEF HandlerOK
  <2>3. \A g \in Handlers : handler'[g] = IF g = h THEN state ELSE handler[g]
    BY <1>1 DEF TypeInv, TypeOK
  <2>4. \A g \in Handlers : handler[g] # Idle =>
          handler[g].profile \in Profiles /\ profile[handler[g].profile] # "new"
    BY HandlerShape DEF TypeInv, Refs, HandlerRefs, Known
  <2>5. HandlerRefs'
    BY <2>3, <2>4 DEF HandlerRefs, Known
  <2>6. QED
    BY <2>2, <2>5 DEF HandlerOK
<1>5. WorkerOK'
  <2>1. worker \in WorkerStates /\ WorkerRefs
    BY Parts DEF WorkerOK
  <2>2. /\ worker' \in WorkerStates /\ worker'.at = worker.at /\ worker'.job = worker.job
        /\ worker'.kind = worker.kind
    BY <2>1 DEF WorkerStates
  <2>3. QED
    BY <2>1, <2>2 DEF WorkerOK, WorkerRefs
<1>6. QED
  BY <1>2, <1>3, <1>4, <1>5, Parts

\* And one of the worker.
LEMMA WorkerMoves ==
  ASSUME TypeInv, NEW state, WorkerGoto(state),
         state \in WorkerStates,
         IF state.at = "turn" THEN state.job = 0
         ELSE state.job = worker.job /\ state.kind = worker.kind /\ worker.at # "turn",
         AnalysisOK',
         analyzeJobs' \in Seq(AJobs!Job), JobRefs(analyzeJobs)',
         DOMAIN analyzeJobs \subseteq DOMAIN analyzeJobs',
         verifyJobs' \in Seq(VJobs!Job), JobRefs(verifyJobs)',
         DOMAIN verifyJobs \subseteq DOMAIN verifyJobs'
  PROVE  Tables'
<1>1. /\ UNCHANGED <<profile, config, papers, verdict, reader, cache, handler, requests>>
      /\ worker' = state
  BY DEF WorkerGoto, users, corpus
<1>2. UsersOK' /\ CorpusOK' /\ CacheOK' /\ QueuesOK' /\ requests' \in 0 .. MaxRequests
  BY <1>1, Parts DEF UsersOK, CorpusOK, CacheOK, QueuesOK, Known
<1>3. ReaderOK' /\ HandlerOK'
  BY <1>1, Grows
<1>4. WorkerOK'
  BY <1>1, Parts DEF WorkerOK, WorkerRefs, WorkerStates
<1>5. QED
  BY <1>2, <1>3, <1>4, Parts

\* The row that is written is of a profile that is there.
LEMMA Upserted ==
  ASSUME TypeInv, UNCHANGED <<profile, papers>>, NEW c \in Profiles, NEW p \in papers,
         NEW row \in Row, profile[c] = "live", Upsert(c, p, row)
  PROVE  /\ AnalysisOK'
         /\ \A d \in Profiles, q \in Papers :
              analysis'[d][q] = IF d = c /\ q = p THEN row ELSE analysis[d][q]
<1>1. p \in Papers /\ analysis \in [Profiles -> [Papers -> Row \cup {NoRow}]]
  BY DEF TypeInv, TypeOK
<1>2. analysis' = [analysis EXCEPT ![c] = [analysis[c] EXCEPT ![p] = row]]
  BY DEF Upsert
<1>3. /\ analysis' \in [Profiles -> [Papers -> Row \cup {NoRow}]]
      /\ \A d \in Profiles, q \in Papers :
           analysis'[d][q] = IF d = c /\ q = p THEN row ELSE analysis[d][q]
  BY <1>1, <1>2
<1>4. \A d \in Profiles, q \in Papers :
        analysis[d][q] # NoRow => profile[d] = "live" /\ q \in papers
  BY DEF TypeInv, TypeOK
<1>5. QED
  BY <1>3, <1>4 DEF AnalysisOK

LEMMA AnalysisKept ==
  ASSUME TypeInv, UNCHANGED <<profile, papers, analysis>>
  PROVE  AnalysisOK'
BY Parts DEF AnalysisOK

\* Rows that are there keep profile and paper when one is added.
LEMMA QueuesKept ==
  ASSUME TypeInv, papers \subseteq papers',
         \A c \in Profiles : profile[c] # "new" => profile'[c] # "new"
  PROVE  /\ (/\ analyzeJobs' \in Seq(AJobs!Job)
             /\ \A j \in DOMAIN analyzeJobs' :
                  \/ /\ j \in DOMAIN analyzeJobs
                     /\ analyzeJobs'[j].profile = analyzeJobs[j].profile
                     /\ analyzeJobs'[j].paper = analyzeJobs[j].paper
                  \/ /\ profile'[analyzeJobs'[j].profile] # "new"
                     /\ analyzeJobs'[j].paper \in papers')
              => JobRefs(analyzeJobs)'
         /\ (/\ verifyJobs' \in Seq(VJobs!Job)
             /\ \A j \in DOMAIN verifyJobs' :
                  \/ /\ j \in DOMAIN verifyJobs
                     /\ verifyJobs'[j].profile = verifyJobs[j].profile
                     /\ verifyJobs'[j].paper = verifyJobs[j].paper
                  \/ /\ profile'[verifyJobs'[j].profile] # "new"
                     /\ verifyJobs'[j].paper \in papers')
              => JobRefs(verifyJobs)'
<1>1. /\ \A j \in DOMAIN analyzeJobs : /\ profile'[analyzeJobs[j].profile] # "new"
                                       /\ analyzeJobs[j].paper \in papers'
      /\ \A j \in DOMAIN verifyJobs : /\ profile'[verifyJobs[j].profile] # "new"
                                      /\ verifyJobs[j].paper \in papers'
  BY JobShape DEF TypeInv, Refs, JobRefs, Known
<1>2. QED
  BY <1>1 DEF JobRefs, Known
-----------------------------------------------------------------------------
(***************************************************************************)
(* Steps of keyword.                                                       *)
(***************************************************************************)
\* A step that only moves the goroutine, and perhaps fills the cache.
LEMMA ReaderOnly ==
  ASSUME TypeInv, NEW r \in Readers, NEW state, ReaderGoto(r, state),
         UNCHANGED papers, CacheOK',
         state \in ReaderStates,
         state.at \in {"bare", "each", "fill", "enqueue"} => \A c \in state.todo : Known(c),
         state.at \in {"fill", "enqueue"} => Known(state.profile)
  PROVE  Tables'
<1>1. /\ papers \subseteq papers' /\ papers' \subseteq Papers /\ IsFiniteSet(papers')
      /\ ReaderStates' = ReaderStates
  BY Parts DEF CorpusOK, ReaderStates
<1>2. QED
  BY <1>1, ReaderMoves

\* Where the loop over the profiles goes on.
LEMMA LoopShape ==
  ASSUME TypeInv, NEW r \in Readers, reader[r].at \in {"each", "fill", "enqueue"},
         NEW c, c \in Profiles /\ Known(c), NEW keywords
  PROVE  /\ \A state \in {Without(r, c), Matched(r, c, keywords)} :
              /\ state \in ReaderStates
              /\ \A d \in state.todo : Known(d)
              /\ state.at \in {"each", "enqueue"}
              /\ state.at = "enqueue" => Known(state.profile)
         /\ Without(r, c).at = "each" /\ Without(r, c).paper = reader[r].paper
         /\ Without(r, c).todo = reader[r].todo \ {c}
<1>1. reader[r].paper \in papers /\ reader[r].todo \in SUBSET Profiles
  BY ReaderShape DEF TypeInv
<1>2. \A d \in reader[r].todo : Known(d)
  BY DEF TypeInv, Refs, ReaderRefs
<1> DEFINE rest == reader[r].todo \ {c}
<1>3. rest \in SUBSET Profiles /\ \A d \in rest : Known(d)
  BY <1>1, <1>2
<1>4. /\ Without(r, c) = [at |-> "each", paper |-> reader[r].paper, todo |-> rest]
      /\ Matched(r, c, keywords) \in
           {[at |-> "each", paper |-> reader[r].paper, todo |-> rest],
            [at |-> "enqueue", paper |-> reader[r].paper, todo |-> rest, profile |-> c]}
  BY DEF Without, Matched
<1> HIDE DEF rest
<1>5. /\ [at |-> "each", paper |-> reader[r].paper, todo |-> rest] \in ReaderStates
      /\ [at |-> "enqueue", paper |-> reader[r].paper, todo |-> rest, profile |-> c]
           \in ReaderStates
  BY <1>1, <1>3 DEF ReaderStates
<1>6. /\ \A state \in {Without(r, c), Matched(r, c, keywords)} :
              /\ state \in ReaderStates
              /\ \A d \in state.todo : Known(d)
              /\ state.at \in {"each", "enqueue"}
              /\ state.at = "enqueue" => Known(state.profile)
      /\ Without(r, c).at = "each" /\ Without(r, c).paper = reader[r].paper
      /\ Without(r, c).todo = rest
  BY <1>3, <1>4, <1>5
<1>7. QED
  BY <1>6 DEF rest

LEMMA KeywordType ==
  ASSUME TypeInv, NEW r \in Readers, (\E p \in Papers : KeywordInsert(r, p)) \/ Keyword(r)
  PROVE  Tables'
<1>1. ASSUME NEW p \in Papers, KeywordInsert(r, p) PROVE Tables'
  <2> DEFINE state == [at |-> "list", paper |-> p]
  <2>1. /\ papers' = papers \cup {p} /\ ReaderGoto(r, state)
        /\ UNCHANGED cache
    BY <1>1 DEF KeywordInsert
  <2>2. papers \subseteq papers' /\ papers' \subseteq Papers /\ IsFiniteSet(papers')
    BY <2>1, Parts, FS_AddElement DEF CorpusOK
  <2>3. state \in ReaderStates' /\ state.at = "list"
    BY <2>1 DEF ReaderStates
  <2>4. CacheOK'
    BY <2>1, Parts DEF CacheOK
  <2> HIDE DEF state
  <2>5. QED
    BY <2>1, <2>2, <2>3, <2>4, ReaderMoves
<1>2. UNCHANGED cache => CacheOK'
  BY Parts DEF CacheOK
<1>3. CASE KeywordList(r)
  <2>1. PICK todo : /\ todo \in {{c \in Profiles : Source[reader[r].paper] \in config[c].sources}, {}}
                    /\ ReaderGoto(r, [at |-> "bare", paper |-> reader[r].paper, todo |-> todo])
    BY <1>3 DEF KeywordList
  <2> DEFINE state == [at |-> "bare", paper |-> reader[r].paper, todo |-> todo]
  <2>2. UNCHANGED <<papers, cache>> /\ ReaderGoto(r, state)
    BY <1>3, <2>1 DEF KeywordList
  <2>3. reader[r].paper \in papers /\ todo \in SUBSET Profiles
    BY <1>3, <2>1, ReaderShape DEF KeywordList, TypeInv
  <2>4. \A c \in todo : Known(c)
    BY <2>1 DEF TypeInv, Refs, NoConfig
  <2>5. state \in ReaderStates /\ state.at = "bare" /\ \A c \in state.todo : Known(c)
    BY <2>3, <2>4 DEF ReaderStates
  <2> HIDE DEF state
  <2>6. QED
    BY <1>2, <2>2, <2>5, ReaderOnly
<1>4. CASE KeywordListBare(r)
  <2>1. PICK bare : /\ bare \in {Bare, {}}
                    /\ ReaderGoto(r, [reader[r] EXCEPT !.at = "each", !.todo = @ \cup bare])
    BY <1>4 DEF KeywordListBare
  <2> DEFINE state == [reader[r] EXCEPT !.at = "each", !.todo = @ \cup bare]
  <2>2. UNCHANGED <<papers, cache>> /\ ReaderGoto(r, state)
    BY <1>4, <2>1 DEF KeywordListBare
  <2>3. reader[r] \in [at : {"bare", "each"}, paper : papers, todo : SUBSET Profiles]
    BY <1>4, ReaderShape DEF KeywordListBare, TypeInv
  <2>4. \A c \in reader[r].todo : Known(c)
    BY <1>4 DEF KeywordListBare, TypeInv, Refs, ReaderRefs
  <2>5. bare \in SUBSET Profiles /\ \A c \in bare : Known(c)
    BY <2>1 DEF Bare, Known
  <2>6. /\ state \in [at : {"bare", "each"}, paper : papers, todo : SUBSET Profiles]
        /\ state.at = "each" /\ \A c \in state.todo : Known(c)
    BY <2>3, <2>4, <2>5
  <2>7. state \in ReaderStates
    BY <2>6 DEF ReaderStates
  <2> HIDE DEF state
  <2>8. QED
    BY <1>2, <2>2, <2>6, <2>7, ReaderOnly
<1>5. ASSUME NEW c \in Profiles, KeywordCached(r, c) PROVE Tables'
  <2> DEFINE state == Matched(r, c, cache[c].keywords)
  <2>1. /\ UNCHANGED <<papers, cache>> /\ ReaderGoto(r, state)
        /\ reader[r].at = "each" /\ Known(c)
    BY <1>5 DEF KeywordCached, TypeInv, Refs, ReaderRefs
  <2>2. /\ state \in ReaderStates /\ (\A d \in state.todo : Known(d))
        /\ state.at \in {"each", "enqueue"} /\ (state.at = "enqueue" => Known(state.profile))
    BY <2>1, LoopShape
  <2> HIDE DEF state
  <2>3. QED
    BY <1>2, <2>1, <2>2, ReaderOnly
<1>6. ASSUME NEW c \in Profiles, KeywordConfig(r, c) PROVE Tables'
  <2>1. /\ UNCHANGED <<papers, cache>>
        /\ reader[r].at = "each" /\ Known(c) /\ c \in reader[r].todo
    BY <1>6 DEF KeywordConfig, TypeInv, Refs, ReaderRefs
  <2>2. CASE ReaderGoto(r, Without(r, c))
    BY <1>2, <2>1, <2>2, LoopShape, ReaderOnly
  <2> DEFINE rest == reader[r].todo \ {c}
             state == [at |-> "fill", paper |-> reader[r].paper, todo |-> rest,
                       profile |-> c, keywords |-> config[c].keywords]
  <2>3. reader[r].paper \in papers /\ rest \in SUBSET Profiles /\ \A d \in rest : Known(d)
    BY <2>1, ReaderShape DEF TypeInv, Refs, ReaderRefs
  <2>4. config[c].keywords \in SUBSET Keywords
    BY ConfigShape DEF TypeInv
  <2>5. CASE ReaderGoto(r, state)
    <3> HIDE DEF rest
    <3>1. /\ state \in ReaderStates /\ (\A d \in state.todo : Known(d))
          /\ state.at = "fill" /\ state.profile = c
      BY <2>3, <2>4 DEF ReaderStates
    <3> HIDE DEF state
    <3>2. QED
      BY <1>2, <2>1, <2>5, <3>1, ReaderOnly
  <2>6. QED
    BY <1>6, <2>2, <2>5 DEF KeywordConfig
<1>7. CASE KeywordFill(r)
  <2> DEFINE c == reader[r].profile
             keywords == reader[r].keywords
             state == Matched(r, c, keywords)
  <2>1. /\ cache' = [cache EXCEPT ![c] = [known |-> TRUE, keywords |-> keywords]]
        /\ ReaderGoto(r, state) /\ UNCHANGED papers
        /\ reader[r].at = "fill" /\ Known(c)
    BY <1>7 DEF KeywordFill, TypeInv, Refs, ReaderRefs
  <2>2. c \in Profiles /\ keywords \in SUBSET Keywords
    BY <2>1, ReaderShape DEF TypeInv
  <2>3. CacheOK'
    BY <2>1, <2>2, Parts DEF CacheOK
  <2>4. /\ state \in ReaderStates /\ (\A d \in state.todo : Known(d))
        /\ state.at \in {"each", "enqueue"} /\ (state.at = "enqueue" => Known(state.profile))
    BY <2>1, <2>2, LoopShape
  <2> HIDE DEF state
  <2>5. QED
    BY <2>1, <2>3, <2>4, ReaderOnly
<1>8. CASE KeywordEnqueue(r)
  <2> DEFINE c == reader[r].profile
             state == Without(r, c)
  <2>1. /\ UNCHANGED <<papers, cache>> /\ ReaderGoto(r, state)
        /\ reader[r].at = "enqueue" /\ Known(c)
    BY <1>8 DEF KeywordEnqueue, TypeInv, Refs, ReaderRefs
  <2>2. c \in Profiles
    BY <2>1, ReaderShape DEF TypeInv
  <2>3. /\ state \in ReaderStates /\ (\A d \in state.todo : Known(d))
        /\ state.at = "each"
    BY <2>1, <2>2, LoopShape
  <2> HIDE DEF state
  <2>4. QED
    BY <1>2, <2>1, <2>3, ReaderOnly
<1>9. CASE KeywordDone(r)
  <2>1. Idle \in ReaderStates /\ Idle.at = "idle"
    BY DEF ReaderStates, Idle
  <2>2. ReaderGoto(r, Idle) /\ UNCHANGED <<papers, cache>>
    BY <1>9 DEF KeywordDone
  <2>3. QED
    BY <1>2, <2>1, <2>2, ReaderOnly
<1>10. QED
  BY <1>1, <1>3, <1>4, <1>5, <1>6, <1>7, <1>8, <1>9 DEF Keyword
-----------------------------------------------------------------------------
(***************************************************************************)
(* Steps of the API.                                                       *)
(***************************************************************************)
\* A step that touches no table.
LEMMA HandlerOnly ==
  ASSUME TypeInv, NEW h \in Handlers, NEW state, HandlerEnters(h, state),
         UNCHANGED <<profile, config, analysis, queues>>,
         worker' = worker \/ \E s \in Answer : worker' = [worker EXCEPT !.stood = s],
         requests' \in 0 .. MaxRequests,
         state \in HandlerStates, state # Idle => Known(state.profile)
  PROVE  Tables'
<1>1. UNCHANGED <<profile, config, papers, analysis, analyzeJobs, verifyJobs>>
  BY DEF queues, corpus, HandlerEnters
<1>2. UsersOK' /\ AnalysisOK'
  BY <1>1, AnalysisKept, Parts DEF UsersOK, Known
<1>3. /\ analyzeJobs' \in Seq(AJobs!Job) /\ JobRefs(analyzeJobs)'
      /\ verifyJobs' \in Seq(VJobs!Job) /\ JobRefs(verifyJobs)'
  BY <1>1, Grows
<1>4. QED
  BY <1>1, <1>2, <1>3, HandlerMoves DEF Known

LEMMA ArrivesType ==
  ASSUME TypeInv, NEW h \in Handlers, Arrives(h)
  PROVE  requests' \in 0 .. MaxRequests
BY ModeAssumption DEF Arrives, TypeInv, TypeOK

\* A step that adds to a queue or changes a status, and touches no other table.
LEMMA HandlerQueues ==
  ASSUME TypeInv, NEW h \in Handlers, NEW state, HandlerEnters(h, state), UNCHANGED worker,
         UNCHANGED <<users, analysis>>, requests' \in 0 .. MaxRequests,
         state \in HandlerStates, state # Idle => Known(state.profile),
         analyzeJobs' \in Seq(AJobs!Job), DOMAIN analyzeJobs \subseteq DOMAIN analyzeJobs',
         \A j \in DOMAIN analyzeJobs' :
           \/ /\ j \in DOMAIN analyzeJobs
              /\ analyzeJobs'[j].profile = analyzeJobs[j].profile
              /\ analyzeJobs'[j].paper = analyzeJobs[j].paper
           \/ Known(analyzeJobs'[j].profile) /\ analyzeJobs'[j].paper \in papers,
         verifyJobs' \in Seq(VJobs!Job), DOMAIN verifyJobs \subseteq DOMAIN verifyJobs',
         \A j \in DOMAIN verifyJobs' :
           \/ /\ j \in DOMAIN verifyJobs
              /\ verifyJobs'[j].profile = verifyJobs[j].profile
              /\ verifyJobs'[j].paper = verifyJobs[j].paper
           \/ Known(verifyJobs'[j].profile) /\ verifyJobs'[j].paper \in papers
  PROVE  Tables'
<1>1. UNCHANGED <<profile, config, papers, analysis>>
  BY DEF users, corpus, HandlerEnters
<1>2. UsersOK' /\ AnalysisOK'
  BY <1>1, AnalysisKept, Parts DEF UsersOK, Known
<1>3. JobRefs(analyzeJobs)' /\ JobRefs(verifyJobs)'
  BY <1>1, QueuesKept DEF Known
<1>4. QED
  BY <1>1, <1>2, <1>3, HandlerMoves DEF Known

\* A queue that is left alone.
LEMMA QueuesAlone ==
  ASSUME TypeInv
  PROVE  /\ UNCHANGED analyzeJobs =>
              /\ analyzeJobs' \in Seq(AJobs!Job)
              /\ DOMAIN analyzeJobs \subseteq DOMAIN analyzeJobs'
              /\ \A j \in DOMAIN analyzeJobs' :
                   /\ j \in DOMAIN analyzeJobs
                   /\ analyzeJobs'[j].profile = analyzeJobs[j].profile
                   /\ analyzeJobs'[j].paper = analyzeJobs[j].paper
         /\ UNCHANGED verifyJobs =>
              /\ verifyJobs' \in Seq(VJobs!Job)
              /\ DOMAIN verifyJobs \subseteq DOMAIN verifyJobs'
              /\ \A j \in DOMAIN verifyJobs' :
                   /\ j \in DOMAIN verifyJobs
                   /\ verifyJobs'[j].profile = verifyJobs[j].profile
                   /\ verifyJobs'[j].paper = verifyJobs[j].paper
BY DEF TypeInv, TypeOK

LEMMA IdleState == Idle \in HandlerStates
BY DEF HandlerStates

\* The two parts of a backfill.
LEMMA BackfillState ==
  ASSUME NEW c \in Profiles, NEW part \in {"arxiv", "feeds"}
  PROVE  /\ Backfill(part, c) \in HandlerStates
         /\ Backfill(part, c).profile = c /\ Backfill(part, c) # Idle
         /\ Backfill(part, c).at = "select" /\ Backfill(part, c).part = part
BY DEF Backfill, HandlerStates, Idle

\* CreateProfile, UpdateProfile and DeleteProfile.
LEMMA SaveType ==
  ASSUME TypeInv, NEW h \in Handlers, NEW c \in Profiles, NEW new \in Configs,
         CreateProfile(h, c, new) \/ UpdateProfile(h, c, new)
  PROVE  Tables'
<1> DEFINE enabled == [new EXCEPT !.sources = @ \cup new.disabled, !.disabled = {}]
<1>1. /\ HandlerEnters(h, Backfill("arxiv", c)) /\ Arrives(h)
      /\ config' = [config EXCEPT ![c] = new] \/ config' = [config EXCEPT ![c] = enabled]
      /\ UNCHANGED <<papers, analysis, analyzeJobs, verifyJobs, worker>>
      /\ profile' = [profile EXCEPT ![c] = "live"]
  BY DEF CreateProfile, UpdateProfile, HandlerGoto, HandlerEnters, Save, queues, rows, corpus,
         TypeInv, TypeOK
<1>2. profile[c] = "live" \/ \A p \in Papers : analysis[c][p] = NoRow
  BY DEF CreateProfile, UpdateProfile, TypeInv, TypeOK
<1>3. new \in Settings /\ enabled \in Settings
  <2>1. new \in Settings
    BY PapersAssumption
  <2>2. new.sources \cup new.disabled \in SUBSET Sources
    BY <2>1 DEF Settings
  <2>3. QED
    BY <2>1, <2>2 DEF Settings
<1> HIDE DEF enabled
<1>4. UsersOK'
  <2>1. profile' \in [Profiles -> {"new", "live", "deleted"}]
    BY <1>1, Parts DEF UsersOK
  <2>2. config' \in [Profiles -> Settings]
    BY <1>1, <1>3, Parts DEF UsersOK
  <2>3. \A d \in Profiles : profile'[d] = "new" => config'[d] = NoConfig
    BY <1>1, Parts DEF UsersOK, Known
  <2>4. QED
    BY <2>1, <2>2, <2>3 DEF UsersOK, Known
<1>5. \A d \in Profiles : /\ profile[d] # "new" => profile'[d] # "new"
                          /\ profile[d] = "live" => profile'[d] = "live"
  BY <1>1 DEF TypeInv, TypeOK
<1>6. AnalysisOK'
  BY <1>1, <1>5, Parts DEF AnalysisOK
<1>7. /\ analyzeJobs' \in Seq(AJobs!Job) /\ JobRefs(analyzeJobs)'
      /\ verifyJobs' \in Seq(VJobs!Job) /\ JobRefs(verifyJobs)'
  BY <1>1, <1>5, Grows
<1>8. /\ Backfill("arxiv", c) \in HandlerStates
      /\ profile'[Backfill("arxiv", c).profile] # "new"
  BY <1>1, BackfillState DEF TypeInv, TypeOK
<1>9. QED
  BY <1>1, <1>4, <1>5, <1>6, <1>7, <1>8, ArrivesType, HandlerMoves

LEMMA DeleteType ==
  ASSUME TypeInv, NEW h \in Handlers, NEW c \in Profiles, DeleteProfile(h, c)
  PROVE  Tables'
<1>1. /\ HandlerEnters(h, Idle) /\ Arrives(h)
      /\ profile[c] = "live" /\ profile' = [profile EXCEPT ![c] = "deleted"]
      /\ config' = [config EXCEPT ![c] = NoConfig]
      /\ analysis' = [analysis EXCEPT ![c] = [p \in Papers |-> NoRow]]
      /\ UNCHANGED <<papers, analyzeJobs, verifyJobs, worker>>
  BY DEF DeleteProfile, HandlerGoto, HandlerEnters, queues, corpus
<1>2. UsersOK'
  <2>1. NoConfig \in Settings
    BY DEF NoConfig, Settings
  <2>2. QED
    BY <1>1, <2>1, Parts DEF UsersOK, Known
<1>3. AnalysisOK'
  <2>1. analysis \in [Profiles -> [Papers -> Row \cup {NoRow}]]
    BY Parts DEF AnalysisOK
  <2>2. [p \in Papers |-> NoRow] \in [Papers -> Row \cup {NoRow}]
    OBVIOUS
  <2>3. analysis' \in [Profiles -> [Papers -> Row \cup {NoRow}]]
    BY <1>1, <2>1, <2>2
  <2>4. \A d \in Profiles, p \in Papers :
          analysis'[d][p] # NoRow => d # c /\ analysis'[d][p] = analysis[d][p]
    BY <1>1, <2>1
  <2>5. \A d \in Profiles, p \in Papers :
          analysis'[d][p] # NoRow => profile'[d] = "live" /\ p \in papers'
    BY <1>1, <2>4, Parts DEF AnalysisOK, UsersOK
  <2>6. QED
    BY <2>3, <2>5 DEF AnalysisOK
<1>4. \A d \in Profiles : profile[d] # "new" => profile'[d] # "new"
  BY <1>1 DEF TypeInv, TypeOK
<1>5. /\ analyzeJobs' \in Seq(AJobs!Job) /\ JobRefs(analyzeJobs)'
      /\ verifyJobs' \in Seq(VJobs!Job) /\ JobRefs(verifyJobs)'
  BY <1>1, <1>4, Grows
<1>6. QED
  BY <1>1, <1>2, <1>3, <1>4, <1>5, ArrivesType, IdleState, HandlerMoves

\* The rows of a backfill.
LEMMA BackfillRows ==
  ASSUME TypeInv, NEW h \in Handlers, BackfillInsert(h)
  PROVE  /\ handler[h].profile \in Profiles /\ Known(handler[h].profile)
         /\ analyzeJobs' \in Seq(AJobs!Job)
         /\ DOMAIN analyzeJobs \subseteq DOMAIN analyzeJobs'
         /\ \A j \in DOMAIN analyzeJobs : analyzeJobs'[j] = analyzeJobs[j]
         /\ \A j \in DOMAIN analyzeJobs' : j \notin DOMAIN analyzeJobs =>
              /\ analyzeJobs'[j].profile = handler[h].profile
              /\ analyzeJobs'[j].paper \in handler[h].todo
              /\ analyzeJobs'[j].status = "pending"
         /\ \A p \in handler[h].todo : \E j \in DOMAIN analyzeJobs' :
              analyzeJobs'[j].profile = handler[h].profile /\ analyzeJobs'[j].paper = p
<1> DEFINE c == handler[h].profile
           todo == handler[h].todo
           n == Cardinality(todo)
           added == [k \in 1 .. n |-> [profile |-> c, paper |-> SetToSeq(todo)[k],
                                       status |-> "pending"]]
<1>1. handler[h].at = "insert" /\ analyzeJobs' = analyzeJobs \o added
  BY DEF BackfillInsert
<1>2. c \in Profiles /\ Known(c) /\ todo \subseteq papers /\ papers \subseteq Papers
      /\ IsFiniteSet(papers)
  BY <1>1, HandlerShape DEF TypeInv, TypeOK, Refs, HandlerRefs, Idle
<1>3. IsFiniteSet(todo)
  BY <1>2, FS_Subset
<1> HIDE DEF todo, c
<1>4. /\ n \in Nat /\ SetToSeq(todo) \in [1 .. n -> todo]
      /\ \A p \in todo : \E k \in 1 .. n : SetToSeq(todo)[k] = p
  BY <1>3, SeqOfSet
<1> HIDE DEF n
<1>5. \A k \in 1 .. n : /\ added[k] = [profile |-> c, paper |-> SetToSeq(todo)[k],
                                      status |-> "pending"]
                        /\ added[k] \in AJobs!Job
  BY <1>2, <1>4 DEF AJobs!Job, AJobs!JobStatus
<1>6. \A k \in 1 .. n : /\ added[k].profile = c /\ added[k].paper = SetToSeq(todo)[k]
                        /\ added[k].status = "pending"
  OBVIOUS
<1>7. added \in [1 .. n -> AJobs!Job]
  BY <1>5
<1> HIDE DEF added
<1>8. added \in Seq(AJobs!Job) /\ Len(added) = n /\ analyzeJobs \in Seq(AJobs!Job)
  BY <1>4, <1>7 DEF TypeInv, TypeOK
<1>9. /\ analyzeJobs \o added \in Seq(AJobs!Job)
      /\ Len(analyzeJobs \o added) = Len(analyzeJobs) + n /\ Len(analyzeJobs) \in Nat
      /\ \A j \in 1 .. Len(analyzeJobs) + n :
           (analyzeJobs \o added)[j] = IF j <= Len(analyzeJobs) THEN analyzeJobs[j]
                                      ELSE added[j - Len(analyzeJobs)]
  <2>1. analyzeJobs \o added \in Seq(AJobs!Job)
    BY <1>8, ConcatProperties
  <2>2. Len(analyzeJobs) \in Nat
    BY <1>8
  <2>3. Len(analyzeJobs \o added) = Len(analyzeJobs) + n
    BY <1>8, ConcatProperties
  <2>4. \A j \in 1 .. Len(analyzeJobs) + n :
           (analyzeJobs \o added)[j] = IF j <= Len(analyzeJobs) THEN analyzeJobs[j]
                                      ELSE added[j - Len(analyzeJobs)]
    BY <1>8, ConcatProperties
  <2>5. QED
    BY <2>1, <2>2, <2>3, <2>4
<1>10. /\ DOMAIN analyzeJobs' = 1 .. Len(analyzeJobs) + n
       /\ DOMAIN analyzeJobs = 1 .. Len(analyzeJobs)
  BY <1>1, <1>8, <1>9
<1>11. \A j \in DOMAIN analyzeJobs : analyzeJobs'[j] = analyzeJobs[j]
  BY <1>1, <1>4, <1>9, <1>10
<1>12. \A j \in DOMAIN analyzeJobs' : j \notin DOMAIN analyzeJobs =>
         j - Len(analyzeJobs) \in 1 .. n /\ analyzeJobs'[j] = added[j - Len(analyzeJobs)]
  BY <1>1, <1>4, <1>9, <1>10
<1>13. \A k \in 1 .. n : /\ Len(analyzeJobs) + k \in DOMAIN analyzeJobs'
                         /\ analyzeJobs'[Len(analyzeJobs) + k] = added[k]
  BY <1>1, <1>4, <1>9, <1>10
<1>14. DOMAIN analyzeJobs \subseteq DOMAIN analyzeJobs'
  BY <1>4, <1>9, <1>10
<1>15. \A j \in DOMAIN analyzeJobs' : j \notin DOMAIN analyzeJobs =>
              /\ analyzeJobs'[j].profile = c
              /\ analyzeJobs'[j].paper \in todo
              /\ analyzeJobs'[j].status = "pending"
  BY <1>4, <1>6, <1>12
<1>16. \A p \in todo : \E j \in DOMAIN analyzeJobs' :
              analyzeJobs'[j].profile = c /\ analyzeJobs'[j].paper = p
  <2>1. TAKE p \in todo
  <2>2. PICK k \in 1 .. n : SetToSeq(todo)[k] = p
    BY <1>4
  <2>3. QED
    BY <1>6, <1>13, <2>2
<1>17. QED
  BY <1>1, <1>2, <1>9, <1>11, <1>14, <1>15, <1>16 DEF c, todo

LEMMA HandlerType ==
  ASSUME TypeInv, NEW h \in Handlers, Request(h) \/ Proceed(h) \/ Abort(h)
  PROVE  Tables'
<1>1. ASSUME NEW c \in Profiles, RequestBackfill(h, c) PROVE Tables'
  <2>1. /\ HandlerEnters(h, Backfill("arxiv", c)) /\ UNCHANGED <<profile, config, analysis, queues, worker>>
        /\ requests' \in 0 .. MaxRequests /\ Known(c)
    BY <1>1, ArrivesType DEF RequestBackfill, HandlerGoto, Known, users, rows
  <2>2. QED
    BY <2>1, BackfillState, HandlerOnly
<1>2. ASSUME NEW c \in Profiles, NEW p \in papers, Like(h, c, p) PROVE Tables'
  <2>1. /\ HandlerEnters(h, Idle) /\ UNCHANGED <<users, analysis, verifyJobs, worker>>
        /\ requests' \in 0 .. MaxRequests /\ Known(c) /\ AJobs!Enqueue(c, p)
    BY <1>2, ArrivesType DEF Like, HandlerGoto, Known, rows
  <2>2. QED
    BY <2>1, IdleState, AJobEnqueued, QueuesAlone, HandlerQueues
<1>3. ASSUME NEW c \in Profiles, NEW p \in papers, AnalyzePaper(h, c, p) PROVE Tables'
  <2> DEFINE state == [at |-> "answer", profile |-> c, paper |-> p,
                       pass |-> Matches(config[c].keywords, p)]
  <2>1. /\ HandlerEnters(h, state) /\ UNCHANGED <<profile, config, analysis, queues, worker>>
        /\ requests' \in 0 .. MaxRequests /\ Known(c)
    BY <1>3, ArrivesType DEF AnalyzePaper, HandlerGoto, Known, users, rows
  <2>2. state \in HandlerStates /\ state.profile = c
    <3>1. Matches(config[c].keywords, p) \in BOOLEAN
      BY DEF Matches
    <3>2. QED
      BY <3>1 DEF HandlerStates
  <2> HIDE DEF state
  <2>3. QED
    BY <2>1, <2>2, HandlerOnly
<1>4. ASSUME NEW c \in Profiles, NEW p \in papers, VerifyPaper(h, c, p) PROVE Tables'
  <2> DEFINE state == [at |-> "verify", profile |-> c, paper |-> p]
  <2>1. /\ HandlerEnters(h, IF Active(verifyJobs, c, p) THEN Idle ELSE state)
        /\ UNCHANGED <<profile, config, analysis, queues, worker>>
        /\ requests' \in 0 .. MaxRequests /\ Known(c)
    BY <1>4, ArrivesType DEF VerifyPaper, HandlerGoto, Known, users, rows
  <2>2. state \in HandlerStates /\ state.profile = c
    BY DEF HandlerStates
  <2> HIDE DEF state
  <2>3. QED
    BY <2>1, <2>2, IdleState, HandlerOnly
<1>5. ASSUME NEW j \in DOMAIN analyzeJobs, RetryAnalyze(h, j) PROVE Tables'
  <2>1. /\ HandlerEnters(h, Idle) /\ UNCHANGED <<users, analysis, verifyJobs, worker>>
        /\ requests' \in 0 .. MaxRequests /\ AJobs!SetStatus(j, "pending")
    BY <1>5, ArrivesType DEF RetryAnalyze, HandlerGoto, rows, AJobs!RetryJob
  <2>2. "pending" \in AJobs!JobStatus
    BY DEF AJobs!JobStatus
  <2>3. QED
    BY <2>1, <2>2, IdleState, AJobStatus, QueuesAlone, HandlerQueues
<1>6. ASSUME NEW j \in DOMAIN verifyJobs, RetryVerify(h, j) PROVE Tables'
  <2>1. /\ HandlerEnters(h, Idle) /\ UNCHANGED <<users, analysis, analyzeJobs, worker>>
        /\ requests' \in 0 .. MaxRequests /\ VJobs!SetStatus(j, "pending")
    BY <1>6, ArrivesType DEF RetryVerify, HandlerGoto, rows, VJobs!RetryJob
  <2>2. "pending" \in VJobs!JobStatus
    BY DEF VJobs!JobStatus
  <2>3. QED
    BY <2>1, <2>2, IdleState, VJobStatus, QueuesAlone, HandlerQueues
<1>7. CASE Request(h)
  BY <1>1, <1>2, <1>3, <1>4, <1>5, <1>6, <1>7, SaveType, DeleteType DEF Request
<1>8. requests \in 0 .. MaxRequests
  BY DEF TypeInv, TypeOK
<1>9. handler[h].at # "idle" => handler[h].profile \in Profiles /\ Known(handler[h].profile)
  BY HandlerShape DEF TypeInv, Refs, HandlerRefs
<1>10. CASE BackfillSelect(h)
  <2> DEFINE c == handler[h].profile
             part == handler[h].part
             todo == Eligible(part, c)
             state == [at |-> "insert", part |-> part, profile |-> c, todo |-> todo]
  <2>1. /\ HandlerEnters(h, state) /\ UNCHANGED <<profile, config, analysis, queues, worker, requests>>
        /\ handler[h].at = "select"
    BY <1>10 DEF BackfillSelect, HandlerGoto, users, rows
  <2>2. part \in {"arxiv", "feeds"} /\ c \in Profiles /\ Known(c)
    BY <1>9, <2>1, HandlerShape DEF TypeInv
  <2>3. todo \in SUBSET papers
    BY DEF Eligible
  <2> HIDE DEF part, todo, c
  <2>4. state \in HandlerStates /\ state.profile = c
    BY <2>2, <2>3 DEF HandlerStates
  <2> HIDE DEF state
  <2>5. QED
    BY <1>8, <2>1, <2>2, <2>4, HandlerOnly
<1>11. CASE BackfillInsert(h)
  <2> DEFINE c == handler[h].profile
             state == IF handler[h].part = "arxiv" THEN Backfill("feeds", c) ELSE Idle
  <2>1. /\ HandlerEnters(h, state)
        /\ UNCHANGED <<users, analysis, verifyJobs, worker, requests>>
        /\ handler[h].at = "insert"
    BY <1>11 DEF BackfillInsert, HandlerGoto, rows
  <2>2. c \in Profiles /\ Known(c) /\ handler[h].todo \subseteq papers
    BY <1>9, <2>1, HandlerShape DEF TypeInv
  <2>3. state \in HandlerStates /\ (state # Idle => Known(state.profile))
    BY <2>2, BackfillState, IdleState
  <2> HIDE DEF state
  <2>4. QED
    BY <1>8, <1>11, <2>1, <2>2, <2>3, BackfillRows, QueuesAlone, HandlerQueues
<1>12. CASE VerifyPaperInsert(h)
  <2>1. /\ HandlerEnters(h, Idle) /\ UNCHANGED <<users, analysis, analyzeJobs, worker, requests>>
        /\ VJobs!Enqueue(handler[h].profile, handler[h].paper) /\ handler[h].at = "verify"
    BY <1>12 DEF VerifyPaperInsert, HandlerGoto, rows
  <2>2. /\ handler[h].profile \in Profiles /\ Known(handler[h].profile)
        /\ handler[h].paper \in papers
    BY <1>9, <2>1, HandlerShape DEF TypeInv
  <2>3. QED
    BY <1>8, <2>1, <2>2, IdleState, VJobEnqueued, QueuesAlone, HandlerQueues
<1>13. ASSUME NEW answer \in Answer, AnalyzePaperWrite(h, answer) PROVE Tables'
  <2> DEFINE c == handler[h].profile
             p == handler[h].paper
             row == [pass |-> handler[h].pass, llm |-> answer]
  <2>1. /\ HandlerEnters(h, Idle) /\ UNCHANGED <<users, queues, requests>>
        /\ worker' = worker \/ worker' = [worker EXCEPT !.stood = Standing(answer)]
        /\ handler[h].at = "answer" /\ Standing(answer) \in Answer
    BY <1>13 DEF AnalyzePaperWrite, Standing, Answer
  <2>2. c \in Profiles /\ p \in papers /\ row \in Row
    BY <1>9, <2>1, HandlerShape DEF TypeInv, Row
  <2>3. UNCHANGED <<profile, config, papers, analyzeJobs, verifyJobs>>
    BY <2>1 DEF users, queues, HandlerEnters, corpus
  <2>4. AnalysisOK'
    <3>1. CASE profile[c] = "live"
      BY <1>13, <2>2, <2>3, <3>1, Upserted DEF AnalyzePaperWrite
    <3>2. CASE profile[c] # "live"
      BY <1>13, <2>3, <3>2, AnalysisKept DEF AnalyzePaperWrite, rows
    <3>3. QED
      BY <3>1, <3>2
  <2>5. UsersOK'
    BY <2>3, Parts DEF UsersOK, Known
  <2>6. /\ analyzeJobs' \in Seq(AJobs!Job) /\ JobRefs(analyzeJobs)'
        /\ verifyJobs' \in Seq(VJobs!Job) /\ JobRefs(verifyJobs)'
    BY <2>3, Grows
  <2>7. QED
    BY <1>8, <2>1, <2>3, <2>4, <2>5, <2>6, IdleState, HandlerMoves
<1>14. CASE Abort(h)
  BY <1>8, <1>14, IdleState, HandlerOnly DEF Abort, HandlerGoto, users, rows
<1>15. QED
  BY <1>7, <1>10, <1>11, <1>12, <1>13, <1>14 DEF Proceed
-----------------------------------------------------------------------------
(***************************************************************************)
(* Steps of the worker.                                                    *)
(***************************************************************************)
\* A step that changes no table.
LEMMA WorkerOnly ==
  ASSUME TypeInv, NEW state, WorkerGoto(state), UNCHANGED <<rows, queues>>,
         state \in WorkerStates,
         IF state.at = "turn" THEN state.job = 0
         ELSE state.job = worker.job /\ state.kind = worker.kind /\ worker.at # "turn"
  PROVE  Tables'
<1>1. UNCHANGED <<profile, papers, analysis, analyzeJobs, verifyJobs>>
  BY DEF WorkerGoto, users, corpus, queues, rows
<1>2. AnalysisOK'
  BY <1>1, AnalysisKept
<1>3. /\ analyzeJobs' \in Seq(AJobs!Job) /\ JobRefs(analyzeJobs)'
      /\ verifyJobs' \in Seq(VJobs!Job) /\ JobRefs(verifyJobs)'
  BY <1>1, Grows
<1>4. QED
  BY <1>1, <1>2, <1>3, WorkerMoves

LEMMA WorkerShape ==
  ASSUME TypeInv
  PROVE  /\ worker \in WorkerStates
         /\ worker.at = "turn" => worker.job = 0
         /\ \A step \in {"verdict", "previous", "judge", "upsert", "complete", "fail"} :
              /\ To(step) \in WorkerStates /\ To(step).at = step
              /\ To(step).job = worker.job /\ To(step).kind = worker.kind
              /\ To(step).llm = worker.llm /\ To(step).stood = worker.stood
         /\ \A kind : /\ NextTurn(kind) \in WorkerStates
                      /\ NextTurn(kind).at = "turn" /\ NextTurn(kind).job = 0
                      /\ NextTurn(kind).stood = "nil"
<1>1. worker \in WorkerStates /\ (worker.at = "turn" => worker.job = 0)
  BY Parts DEF WorkerOK, WorkerRefs
<1>2. \A step \in {"verdict", "previous", "judge", "upsert", "complete", "fail"} :
        /\ To(step) \in WorkerStates /\ To(step).at = step
        /\ To(step).job = worker.job /\ To(step).kind = worker.kind
        /\ To(step).llm = worker.llm /\ To(step).stood = worker.stood
  BY <1>1 DEF To, WorkerStates
<1>3. \A kind \in {"analyze", "verify"} :
        /\ Free(kind) \in WorkerStates /\ Free(kind).at = "turn" /\ Free(kind).job = 0
        /\ Free(kind).stood = "nil"
  BY DEF Free, WorkerStates, Answer
<1>4. QED
  BY <1>1, <1>2, <1>3 DEF NextTurn

\* The decision of the row of a job.
Answered(j) ==
  LET row == analysis[analyzeJobs[j].profile][analyzeJobs[j].paper] IN
    IF row = NoRow THEN "nil" ELSE row.llm

\* What claiming a job does.
LEMMA Claimed ==
  ASSUME TypeInv, NEW j,
         \/ j \in DOMAIN analyzeJobs /\ ClaimAnalyze(j)
         \/ j \in DOMAIN verifyJobs /\ ClaimVerify(j)
  PROVE  /\ WorkerAt("turn") /\ UNCHANGED <<users, corpus, rows, reader, cache, handler, requests>>
         /\ worker' \in WorkerStates
         /\ worker'.at = "config" /\ worker'.job = j /\ worker'.kind = worker.kind
         /\ ClaimAnalyze(j) => /\ AJobs!SetStatus(j, "running") /\ UNCHANGED verifyJobs
                               /\ worker.kind = "analyze"
                               /\ worker'.stood = Answered(j)
         /\ ClaimVerify(j) => /\ VJobs!SetStatus(j, "running") /\ UNCHANGED analyzeJobs
                              /\ worker.kind = "verify"
<1>0. worker \in WorkerStates /\ j \in Nat
  BY WorkerShape, JobShape DEF TypeInv
<1>1. ASSUME ClaimAnalyze(j)
      PROVE  /\ WorkerAt("turn") /\ UNCHANGED <<users, corpus, rows, reader, cache, handler, requests>>
             /\ worker' \in WorkerStates
             /\ worker'.at = "config" /\ worker'.job = j /\ worker'.kind = worker.kind
             /\ AJobs!SetStatus(j, "running") /\ UNCHANGED verifyJobs
             /\ worker.kind = "analyze"
             /\ worker'.stood = Answered(j)
  <2>1. /\ WorkerAt("turn") /\ worker.kind = "analyze" /\ UNCHANGED verifyJobs
        /\ UNCHANGED <<users, corpus, rows, reader, cache, handler, requests>>
        /\ AJobs!SetStatus(j, "running")
        /\ worker' = [worker EXCEPT !.at = "config", !.job = j, !.stood = Answered(j)]
    BY <1>1 DEF ClaimAnalyze, WorkerGoto, AJobs!ClaimJob, Answered
  <2>2. Answered(j) \in Answer
    BY <1>1, JobShape DEF ClaimAnalyze, AJobs!ClaimJob, AJobs!IsNextPending, AJobs!Pending,
                          Answered, TypeInv, TypeOK, Row, Answer
  <2>3. /\ worker' \in WorkerStates /\ worker'.at = "config" /\ worker'.job = j
        /\ worker'.kind = worker.kind
    BY <1>0, <2>1, <2>2 DEF WorkerStates
  <2>4. worker'.stood = Answered(j)
    BY <1>0, <2>1 DEF WorkerStates
  <2>5. QED
    BY <2>1, <2>3, <2>4
<1>2. ASSUME ClaimVerify(j)
      PROVE  /\ WorkerAt("turn") /\ UNCHANGED <<users, corpus, rows, reader, cache, handler, requests>>
             /\ worker' \in WorkerStates
             /\ worker'.at = "config" /\ worker'.job = j /\ worker'.kind = worker.kind
             /\ VJobs!SetStatus(j, "running") /\ UNCHANGED analyzeJobs
             /\ worker.kind = "verify"
  <2>1. /\ WorkerAt("turn") /\ worker.kind = "verify" /\ UNCHANGED analyzeJobs
        /\ UNCHANGED <<users, corpus, rows, reader, cache, handler, requests>>
        /\ VJobs!SetStatus(j, "running")
        /\ worker' = [worker EXCEPT !.at = "config", !.job = j]
    BY <1>2 DEF ClaimVerify, WorkerGoto, VJobs!ClaimJob
  <2>2. QED
    BY <1>0, <2>1 DEF WorkerStates
<1>3. QED
  BY <1>1, <1>2

LEMMA ClaimType ==
  ASSUME TypeInv, NEW j,
         \/ j \in DOMAIN analyzeJobs /\ ClaimAnalyze(j)
         \/ j \in DOMAIN verifyJobs /\ ClaimVerify(j)
  PROVE  Tables'
<1>1. /\ UNCHANGED <<profile, config, papers, verdict, analysis, reader, cache, handler, requests>>
      /\ worker' \in WorkerStates /\ worker'.at = "config" /\ worker'.job = j
      /\ worker'.kind = worker.kind
  BY Claimed DEF users, corpus, rows
<1>2. UsersOK' /\ CorpusOK' /\ CacheOK' /\ requests' \in 0 .. MaxRequests
  BY <1>1, Parts DEF UsersOK, CorpusOK, CacheOK, Known
<1>3. ReaderOK' /\ HandlerOK' /\ AnalysisOK'
  BY <1>1, Grows, AnalysisKept
<1>4. "running" \in AJobs!JobStatus /\ "running" \in VJobs!JobStatus
  BY DEF AJobs!JobStatus, VJobs!JobStatus
<1>5. QueuesOK' /\ WorkerRefs'
  <2>1. CASE j \in DOMAIN analyzeJobs /\ ClaimAnalyze(j)
    <3>1. AJobs!SetStatus(j, "running") /\ UNCHANGED verifyJobs /\ worker.kind = "analyze"
      BY <2>1, Claimed
    <3>2. /\ analyzeJobs' \in Seq(AJobs!Job) /\ DOMAIN analyzeJobs' = DOMAIN analyzeJobs
          /\ \A i \in DOMAIN analyzeJobs : /\ analyzeJobs'[i].profile = analyzeJobs[i].profile
                                           /\ analyzeJobs'[i].paper = analyzeJobs[i].paper
      BY <1>4, <3>1, AJobStatus
    <3>3. JobRefs(analyzeJobs)' /\ JobRefs(verifyJobs)' /\ verifyJobs' \in Seq(VJobs!Job)
      BY <1>1, <3>1, <3>2, QueuesKept, Grows
    <3>4. QED
      BY <1>1, <2>1, <3>1, <3>2, <3>3 DEF QueuesOK, WorkerRefs
  <2>2. CASE j \in DOMAIN verifyJobs /\ ClaimVerify(j)
    <3>1. VJobs!SetStatus(j, "running") /\ UNCHANGED analyzeJobs /\ worker.kind = "verify"
      BY <2>2, Claimed
    <3>2. /\ verifyJobs' \in Seq(VJobs!Job) /\ DOMAIN verifyJobs' = DOMAIN verifyJobs
          /\ \A i \in DOMAIN verifyJobs : /\ verifyJobs'[i].profile = verifyJobs[i].profile
                                          /\ verifyJobs'[i].paper = verifyJobs[i].paper
      BY <1>4, <3>1, VJobStatus
    <3>3. JobRefs(analyzeJobs)' /\ JobRefs(verifyJobs)' /\ analyzeJobs' \in Seq(AJobs!Job)
      BY <1>1, <3>1, <3>2, QueuesKept, Grows
    <3>4. QED
      BY <1>1, <2>2, <3>1, <3>2, <3>3 DEF QueuesOK, WorkerRefs
  <2>3. QED
    BY <2>1, <2>2
<1>6. QED
  BY <1>1, <1>2, <1>3, <1>5, Parts DEF WorkerOK

LEMMA WorkerType ==
  ASSUME TypeInv, Worker \/ WorkerCrash
  PROVE  Tables'
<1>0. worker \in WorkerStates
  BY WorkerShape
<1>1. CASE PassTurn
  BY <1>1, WorkerShape, WorkerOnly DEF PassTurn
<1>2. CASE ReadConfig
  <2>1. CASE WorkerGoto(To("fail"))
    BY <1>2, <2>1, WorkerShape, WorkerOnly DEF ReadConfig, WorkerAt
  <2> DEFINE at == IF worker.kind = "analyze" /\ Ask = "paper" THEN "verdict" ELSE "judge"
             pass == Matches(config[Job.profile].keywords, Job.paper)
             state == [worker EXCEPT !.at = at, !.pass = pass]
  <2>2. CASE WorkerGoto(state)
    <3>1. at \in {"verdict", "judge"} /\ pass \in BOOLEAN
      BY DEF Matches
    <3> HIDE DEF at, pass
    <3>2. state \in WorkerStates /\ state.at # "turn" /\ state.job = worker.job
          /\ state.kind = worker.kind
      BY <1>0, <3>1 DEF WorkerStates
    <3> HIDE DEF state
    <3>3. QED
      BY <1>2, <2>2, <3>2, WorkerOnly DEF ReadConfig, WorkerAt
  <2>3. QED
    BY <1>2, <2>1, <2>2 DEF ReadConfig
\* The steps that set the answer.
<1>3. ASSUME worker.at # "turn", NEW at \in {"previous", "upsert"}, NEW llm \in Answer,
             NEW stood \in Answer, UNCHANGED <<rows, queues>>,
             WorkerGoto([worker EXCEPT !.at = at, !.llm = llm, !.stood = stood])
      PROVE  Tables'
  <2> DEFINE state == [worker EXCEPT !.at = at, !.llm = llm, !.stood = stood]
  <2>1. state \in WorkerStates /\ state.at # "turn" /\ state.job = worker.job
        /\ state.kind = worker.kind
    BY <1>0, <1>3 DEF WorkerStates
  <2>2. WorkerGoto(state)
    BY <1>3
  <2> HIDE DEF state
  <2>3. QED
    BY <1>3, <2>1, <2>2, WorkerOnly
<1>4. worker.llm \in Answer /\ worker.stood \in Answer /\ "nil" \in Answer
  BY <1>0 DEF WorkerStates, Answer
<1>5. CASE ReadVerdict
  <2>1. worker.at # "turn" /\ Job.paper \in Papers
    BY <1>5, JobHeld DEF ReadVerdict, WorkerAt, TypeInv, TypeOK
  <2>2. verdict[Job.paper] \in Answer
    BY <2>1 DEF TypeInv, TypeOK
  <2> DEFINE at == IF verdict[Job.paper] = "nil" THEN "previous" ELSE "upsert"
             stood == IF verdict[Job.paper] = "nil" THEN worker.stood ELSE "nil"
  <2>3. UNCHANGED <<rows, queues>>
        /\ WorkerGoto([worker EXCEPT !.at = at, !.llm = verdict[Job.paper], !.stood = stood])
    BY <1>5 DEF ReadVerdict
  <2>4. at \in {"previous", "upsert"} /\ stood \in Answer
    BY <1>4
  <2> HIDE DEF at, stood
  <2>5. QED
    BY <1>3, <2>1, <2>2, <2>3, <2>4
<1>6. CASE ReadPrevious
  <2> DEFINE row == analysis[Job.profile][Job.paper]
             llm == IF row = NoRow THEN "nil" ELSE row.llm
  <2>1. worker.at # "turn" /\ Job.paper \in Papers /\ Job.profile \in Profiles
    BY <1>6, JobHeld DEF ReadPrevious, WorkerAt, TypeInv, TypeOK
  <2>2. llm \in Answer
    BY <2>1 DEF TypeInv, TypeOK, Row, Answer
  <2>3. UNCHANGED <<rows, queues>>
        /\ \/ WorkerGoto([worker EXCEPT !.at = "upsert", !.llm = llm])
           \/ WorkerGoto([worker EXCEPT !.at = "upsert", !.stood = "nil"])
    BY <1>6 DEF ReadPrevious
  <2> HIDE DEF llm
  <2>4. /\ [worker EXCEPT !.at = "upsert", !.llm = llm]
             = [worker EXCEPT !.at = "upsert", !.llm = llm, !.stood = worker.stood]
        /\ [worker EXCEPT !.at = "upsert", !.stood = "nil"]
             = [worker EXCEPT !.at = "upsert", !.llm = worker.llm, !.stood = "nil"]
    BY <1>0 DEF WorkerStates
  <2>5. QED
    BY <1>3, <1>4, <2>1, <2>2, <2>3, <2>4
<1>7. CASE Judge
  <2>0. worker.at # "turn" /\ UNCHANGED <<rows, queues>>
    BY <1>7 DEF Judge, WorkerAt
  <2>1. CASE WorkerGoto(To("fail"))
    BY <2>0, <2>1, WorkerShape, WorkerOnly
  <2>2. CASE \E answer \in Answer : WorkerGoto([worker EXCEPT !.at = "upsert", !.llm = answer])
    <3>1. PICK answer \in Answer : WorkerGoto([worker EXCEPT !.at = "upsert", !.llm = answer])
      BY <2>2
    <3>2. [worker EXCEPT !.at = "upsert", !.llm = answer]
            = [worker EXCEPT !.at = "upsert", !.llm = answer, !.stood = worker.stood]
      BY <1>0 DEF WorkerStates
    <3>3. QED
      BY <1>3, <1>4, <2>0, <3>1, <3>2
  <2>3. QED
    BY <1>7, <2>1, <2>2 DEF Judge
<1>8. CASE WriteAnalysis
  <2>1. /\ worker.at # "turn" /\ UNCHANGED queues
        /\ \E step \in {"complete", "fail"} : WorkerGoto(To(step))
    BY <1>8 DEF WriteAnalysis, WorkerAt
  <2>2. UNCHANGED <<profile, papers, analyzeJobs, verifyJobs>>
    BY <2>1 DEF WorkerGoto, users, corpus, queues
  <2>3. AnalysisOK'
    <3>1. CASE UNCHANGED analysis
      BY <2>2, <3>1, AnalysisKept
    <3>2. CASE profile[Job.profile] = "live" /\
               Upsert(Job.profile, Job.paper, [pass |-> worker.pass, llm |-> worker.llm])
      <4>1. [pass |-> worker.pass, llm |-> worker.llm] \in Row
        BY <1>0 DEF WorkerStates, Row
      <4>2. QED
        BY <2>1, <2>2, <3>2, <4>1, JobHeld, Upserted
    <3>3. QED
      BY <1>8, <3>1, <3>2 DEF WriteAnalysis, rows
  <2>4. /\ analyzeJobs' \in Seq(AJobs!Job) /\ JobRefs(analyzeJobs)'
        /\ verifyJobs' \in Seq(VJobs!Job) /\ JobRefs(verifyJobs)'
    BY <2>2, Grows
  <2>5. QED
    BY <2>1, <2>2, <2>3, <2>4, WorkerShape, WorkerMoves
<1>9. ASSUME NEW step \in {"complete", "fail"}, NEW status \in {"done", "failed"},
             Settle(step, status)
      PROVE  Tables'
  <2>1. /\ WorkerGoto(NextTurn(worker.kind)) /\ UNCHANGED <<profile, papers, analysis>>
    BY <1>9 DEF Settle, WorkerGoto, users, corpus, rows
  <2>2. AnalysisOK'
    BY <2>1, AnalysisKept
  <2>3. status \in AJobs!JobStatus /\ status \in VJobs!JobStatus
    BY DEF AJobs!JobStatus, VJobs!JobStatus
  <2>4. \/ AJobs!SetStatus(worker.job, status) /\ UNCHANGED verifyJobs
        \/ VJobs!SetStatus(worker.job, status) /\ UNCHANGED analyzeJobs
        \/ UNCHANGED analyzeJobs /\ UNCHANGED verifyJobs
    BY <1>9 DEF Settle, queues
  <2>5. /\ analyzeJobs' \in Seq(AJobs!Job) /\ DOMAIN analyzeJobs \subseteq DOMAIN analyzeJobs'
        /\ JobRefs(analyzeJobs)'
    BY <2>1, <2>3, <2>4, AJobStatus, QueuesAlone, QueuesKept
  <2>6. /\ verifyJobs' \in Seq(VJobs!Job) /\ DOMAIN verifyJobs \subseteq DOMAIN verifyJobs'
        /\ JobRefs(verifyJobs)'
    BY <2>1, <2>3, <2>4, VJobStatus, QueuesAlone, QueuesKept
  <2>7. QED
    BY <2>1, <2>2, <2>5, <2>6, WorkerShape, WorkerMoves
<1>10. CASE WorkerCrash
  <2>1. /\ UNCHANGED <<profile, config, papers, analysis, analyzeJobs, verifyJobs, reader,
                       cache, handler, requests>>
        /\ worker' = Free("analyze") /\ verdict' = [p \in Papers |-> "nil"]
    BY <1>10 DEF WorkerCrash, Migrate, users, rows, queues
  <2>2. /\ UsersOK' /\ CorpusOK' /\ QueuesOK' /\ CacheOK' /\ requests' \in 0 .. MaxRequests
    BY <2>1, Parts DEF UsersOK, CorpusOK, QueuesOK, CacheOK, JobRefs, Known, Answer
  <2>3. AnalysisOK' /\ HandlerOK' /\ ReaderOK'
    BY <2>1, Grows, AnalysisKept
  <2>4. WorkerOK'
    BY <2>1 DEF WorkerOK, WorkerRefs, WorkerStates, Free, Answer
  <2>5. QED
    BY <2>2, <2>3, <2>4, Parts
<1>11. QED
  BY <1>1, <1>2, <1>5, <1>6, <1>7, <1>8, <1>9, <1>10, ClaimType DEF Worker, Complete, Fail

LEMMA TablesStep ==
  ASSUME TypeInv, [Next]_vars
  PROVE  Tables'
<1>1. CASE KeywordCrash
  <2>1. /\ reader' = [r \in Readers |-> Idle] /\ cache' = [c \in Profiles |-> Unread]
        /\ verdict' = [p \in Papers |-> "nil"]
        /\ UNCHANGED <<profile, config, papers, analysis, analyzeJobs, verifyJobs, handler,
                       worker, requests>>
    BY <1>1 DEF KeywordCrash, Migrate, users, rows, queues
  <2>2. /\ UsersOK' /\ CorpusOK' /\ QueuesOK' /\ WorkerOK' /\ requests' \in 0 .. MaxRequests
    BY <2>1, Parts DEF UsersOK, CorpusOK, QueuesOK, WorkerOK, WorkerRefs, WorkerStates,
                       JobRefs, Known, Answer
  <2>3. AnalysisOK' /\ HandlerOK'
    BY <2>1, Grows, AnalysisKept
  <2>4. Idle \in ReaderStates' /\ Unread \in [known : BOOLEAN, keywords : SUBSET Keywords]
    BY DEF ReaderStates, Unread
  <2>5. ReaderOK' /\ CacheOK'
    BY <2>1, <2>4 DEF ReaderOK, ReaderRefs, CacheOK, Idle
  <2>6. QED
    BY <2>2, <2>3, <2>5, Parts
<1>2. CASE Start \/ \E p \in Papers, answer \in {"yes", "no"} : Decide(p, answer)
  <2>1. /\ verdict' \in [Papers -> Answer]
        /\ UNCHANGED <<profile, config, papers, analysis, analyzeJobs, verifyJobs,
                       reader, cache, handler, worker, requests>>
    BY <1>2, Parts DEF Start, Migrate, Decide, users, rows, queues, CorpusOK, Answer
  <2>2. /\ UsersOK' /\ CorpusOK' /\ QueuesOK' /\ WorkerOK' /\ CacheOK'
        /\ requests' \in 0 .. MaxRequests
    BY <2>1, Parts DEF UsersOK, CorpusOK, QueuesOK, WorkerOK, WorkerRefs, WorkerStates,
                       CacheOK, JobRefs, Known
  <2>3. AnalysisOK' /\ HandlerOK' /\ ReaderOK'
    BY <2>1, Grows, AnalysisKept
  <2>4. QED
    BY <2>2, <2>3, Parts
<1>3. CASE UNCHANGED vars
  <2>1. UNCHANGED <<profile, config, papers, verdict, analysis, analyzeJobs, verifyJobs,
                    reader, cache, handler, worker, requests>>
    BY <1>3 DEF vars
  <2>2. /\ UsersOK' /\ CorpusOK' /\ QueuesOK' /\ WorkerOK' /\ CacheOK'
        /\ requests' \in 0 .. MaxRequests
    BY <2>1, Parts DEF UsersOK, CorpusOK, QueuesOK, WorkerOK, WorkerRefs, WorkerStates,
                       CacheOK, JobRefs, Known
  <2>3. AnalysisOK' /\ HandlerOK' /\ ReaderOK'
    BY <2>1, Grows, AnalysisKept
  <2>4. QED
    BY <2>2, <2>3, Parts
<1>4. QED
  BY <1>1, <1>2, <1>3, KeywordType, HandlerType, WorkerType DEF Next

\* The histories, at any step.
LEMMA PapersStep ==
  ASSUME [Next]_vars
  PROVE  papers \subseteq papers'
<1>1. ASSUME NEW r \in Readers, (\E p \in Papers : KeywordInsert(r, p)) \/ Keyword(r)
      PROVE  papers \subseteq papers'
  BY <1>1 DEF Keyword, KeywordInsert, KeywordList, KeywordListBare, KeywordCached,
              KeywordConfig, KeywordFill, KeywordEnqueue, KeywordDone
<1>2. ASSUME KeywordCrash \/ Start \/ \E p \in Papers, answer \in {"yes", "no"} : Decide(p, answer)
      PROVE  UNCHANGED papers
  BY <1>2 DEF KeywordCrash, Start, Decide
<1>3. ASSUME NEW h \in Handlers, Request(h) \/ Proceed(h) \/ Abort(h) PROVE UNCHANGED papers
  BY <1>3 DEF Request, Proceed, Abort, DeleteProfile, RequestBackfill, CreateProfile,
              UpdateProfile, Like, AnalyzePaper, VerifyPaper, RetryAnalyze, RetryVerify,
              BackfillSelect, BackfillInsert, VerifyPaperInsert, AnalyzePaperWrite,
              HandlerGoto, HandlerEnters, corpus
<1>4. ASSUME Worker \/ WorkerCrash PROVE UNCHANGED papers
  BY <1>4 DEF Worker, WorkerCrash, ClaimAnalyze, ClaimVerify, PassTurn, ReadConfig,
              ReadVerdict, ReadPrevious, Judge, WriteAnalysis, Complete, Fail, Settle,
              WorkerGoto, corpus
<1>5. QED
  BY <1>1, <1>2, <1>3, <1>4 DEF Next, vars

\* The API notes the papers there are.
LEMMA DueStep ==
  ASSUME [Next]_vars
  PROVE  \/ UNCHANGED due
         \/ \E h \in Handlers, c \in Profiles :
              /\ Note(c)
              /\ RequestBackfill(h, c) \/ \E new \in Configs :
                                           CreateProfile(h, c, new) \/ UpdateProfile(h, c, new)
<1>1. ASSUME NEW r \in Readers, (\E p \in Papers : KeywordInsert(r, p)) \/ Keyword(r)
      PROVE  UNCHANGED due
  BY <1>1 DEF Keyword, KeywordInsert, KeywordList, KeywordListBare, KeywordCached,
              KeywordConfig, KeywordFill, KeywordEnqueue, KeywordDone, ReaderGoto, users
<1>2. ASSUME KeywordCrash \/ Start \/ \E p \in Papers, answer \in {"yes", "no"} : Decide(p, answer)
      PROVE  UNCHANGED due
  BY <1>2 DEF KeywordCrash, Start, Decide, users
<1>3. ASSUME NEW h \in Handlers, Request(h) \/ Proceed(h) \/ Abort(h)
      PROVE  \/ UNCHANGED due
             \/ \E c \in Profiles :
                  /\ Note(c)
                  /\ RequestBackfill(h, c) \/ \E new \in Configs :
                                               CreateProfile(h, c, new) \/ UpdateProfile(h, c, new)
  <2>1. ASSUME NEW c \in Profiles, NEW new \in Configs,
               CreateProfile(h, c, new) \/ UpdateProfile(h, c, new)
        PROVE  Note(c)
    BY <2>1 DEF CreateProfile, UpdateProfile, Save
  <2>2. ASSUME NEW c \in Profiles, RequestBackfill(h, c) PROVE Note(c)
    BY <2>2 DEF RequestBackfill
  <2>3. \/ UNCHANGED due
        \/ \E c \in Profiles : \/ RequestBackfill(h, c)
                               \/ \E new \in Configs :
                                    CreateProfile(h, c, new) \/ UpdateProfile(h, c, new)
    BY <1>3 DEF Request, Proceed, Abort, DeleteProfile, Like, AnalyzePaper, VerifyPaper,
                RetryAnalyze, RetryVerify, BackfillSelect, BackfillInsert, VerifyPaperInsert,
                AnalyzePaperWrite, users
  <2>4. QED
    BY <2>1, <2>2, <2>3
<1>4. ASSUME Worker \/ WorkerCrash PROVE UNCHANGED due
  BY <1>4 DEF Worker, WorkerCrash, ClaimAnalyze, ClaimVerify, PassTurn, ReadConfig,
              ReadVerdict, ReadPrevious, Judge, WriteAnalysis, Complete, Fail, Settle,
              WorkerGoto, users
<1>5. QED
  BY <1>1, <1>2, <1>3, <1>4 DEF Next, vars

\* Who writes the rows of the analysis.
LEMMA AnalysisWriters ==
  ASSUME [Next]_vars
  PROVE  \/ UNCHANGED rows \/ WriteAnalysis
         \/ \E h \in Handlers : \/ \E d \in Profiles : DeleteProfile(h, d)
                                \/ \E answer \in Answer : AnalyzePaperWrite(h, answer)
<1>1. ASSUME NEW r \in Readers, (\E p \in Papers : KeywordInsert(r, p)) \/ Keyword(r)
      PROVE  UNCHANGED rows
  BY <1>1 DEF Keyword, KeywordInsert, KeywordList, KeywordListBare, KeywordCached,
              KeywordConfig, KeywordFill, KeywordEnqueue, KeywordDone, ReaderGoto
<1>2. ASSUME KeywordCrash \/ Start \/ \E p \in Papers, answer \in {"yes", "no"} : Decide(p, answer)
      PROVE  UNCHANGED rows
  BY <1>2 DEF KeywordCrash, Start, Decide
<1>3. ASSUME NEW h \in Handlers, Request(h)
      PROVE  UNCHANGED rows \/ \E d \in Profiles : DeleteProfile(h, d)
  BY <1>3 DEF Request, RequestBackfill, CreateProfile, UpdateProfile, Like, AnalyzePaper,
              VerifyPaper, RetryAnalyze, RetryVerify
<1>4. ASSUME NEW h \in Handlers, Proceed(h) \/ Abort(h)
      PROVE  UNCHANGED rows \/ \E answer \in Answer : AnalyzePaperWrite(h, answer)
  BY <1>4 DEF Proceed, Abort, BackfillSelect, BackfillInsert, VerifyPaperInsert
<1>5. ASSUME Worker \/ WorkerCrash PROVE UNCHANGED rows \/ WriteAnalysis
  BY <1>5 DEF Worker, WorkerCrash, ClaimAnalyze, ClaimVerify, PassTurn, ReadConfig,
              ReadVerdict, ReadPrevious, Judge, Complete, Fail, Settle
<1>6. ASSUME UNCHANGED vars PROVE UNCHANGED rows
  BY <1>6 DEF vars, rows
<1>7. QED
  BY <1>1, <1>2, <1>3, <1>4, <1>5, <1>6 DEF Next

\* A pair that has had a row once stays noted.
LEMMA WrittenStep ==
  ASSUME TypeInv, [Next]_vars
  PROVE  written \subseteq written' /\ written' \subseteq Profiles \X papers'
<1>0. written \subseteq Profiles \X papers /\ papers \subseteq papers'
  BY PapersStep DEF TypeInv, TypeOK
<1>1. CASE UNCHANGED written
  BY <1>0, <1>1
<1>2. ASSUME NEW c \in Profiles, NEW p \in papers, NEW row, Upsert(c, p, row)
      PROVE  written \subseteq written' /\ written' \subseteq Profiles \X papers'
  BY <1>0, <1>2 DEF Upsert
<1>3. ASSUME NEW h \in Handlers, NEW answer \in Answer, AnalyzePaperWrite(h, answer)
      PROVE  written \subseteq written' /\ written' \subseteq Profiles \X papers'
  <2>1. /\ handler[h].at = "answer"
        /\ \/ UNCHANGED written
           \/ \E row : Upsert(handler[h].profile, handler[h].paper, row)
    BY <1>3 DEF AnalyzePaperWrite, rows
  <2>2. handler[h].profile \in Profiles /\ handler[h].paper \in papers
    BY <2>1, HandlerShape DEF TypeInv
  <2>3. QED
    BY <1>1, <1>2, <2>1, <2>2
<1>4. CASE WriteAnalysis
  <2>1. /\ worker.at # "turn"
        /\ UNCHANGED written \/ \E row : Upsert(Job.profile, Job.paper, row)
    BY <1>4 DEF WriteAnalysis, WorkerAt, rows
  <2>2. QED
    BY <1>1, <1>2, <2>1, JobHeld
<1>5. QED
  BY <1>1, <1>3, <1>4, AnalysisWriters DEF rows, DeleteProfile

LEMMA TypeStep == TypeInv /\ [Next]_vars => TypeInv'
<1> SUFFICES ASSUME TypeInv, [Next]_vars PROVE TypeInv'
  OBVIOUS
<1>1. papers \subseteq papers'
  BY PapersStep
<1>2. due' \in [Profiles -> SUBSET papers']
  BY <1>1, DueStep DEF Note, TypeInv, TypeOK
<1>3. QED
  BY <1>2, TablesStep, WrittenStep, Parts DEF NotesOK

LEMMA TypeInit == Init => TypeInv
<1> SUFFICES ASSUME Init PROVE TypeInv
  OBVIOUS
<1> USE DEF Init
<1>1. UsersOK /\ CorpusOK
  BY FS_EmptySet DEF UsersOK, CorpusOK, Known, Answer, NoConfig, Settings
<1>2. AnalysisOK /\ CacheOK
  BY DEF AnalysisOK, CacheOK, Unread
<1>3. QueuesOK
  BY EmptySeq DEF QueuesOK, JobRefs
<1>4. ReaderOK /\ HandlerOK
  BY DEF ReaderOK, HandlerOK, ReaderRefs, HandlerRefs, ReaderStates, HandlerStates, Idle
<1>5. WorkerOK /\ requests \in 0 .. MaxRequests
  BY ModeAssumption DEF WorkerOK, WorkerStates, WorkerRefs, Free, Answer
<1>6. NotesOK
  BY DEF NotesOK
<1>7. QED
  BY <1>1, <1>2, <1>3, <1>4, <1>5, <1>6, Parts

\* Every variable keeps its type, and whatever a row, a goroutine or a request
\* refers to was there once.
THEOREM TypeCorrect == Spec => []TypeOK
<1>1. TypeInv => TypeOK
  BY DEF TypeInv
<1>2. QED
  BY <1>1, TypeInit, TypeStep, PTL DEF Spec
-----------------------------------------------------------------------------
(***************************************************************************)
(* What any step does to the rows that are there.                          *)
(***************************************************************************)
\* A row of a job keeps profile and paper, a new one is pending, done is what
\* the worker makes of the job it holds, and running of the one it claims.
LEMMA JobsStep ==
  ASSUME TypeInv, [Next]_vars
  PROVE  /\ DOMAIN analyzeJobs \subseteq DOMAIN analyzeJobs'
         /\ \A j \in DOMAIN analyzeJobs :
              /\ analyzeJobs'[j].profile = analyzeJobs[j].profile
              /\ analyzeJobs'[j].paper = analyzeJobs[j].paper
              /\ analyzeJobs'[j].status = "done" =>
                   \/ analyzeJobs[j].status = "done"
                   \/ worker.kind = "analyze" /\ worker.at = "complete" /\ j = worker.job
              /\ analyzeJobs'[j].status = "running" =>
                   analyzeJobs[j].status = "running" \/ ClaimAnalyze(j)
         /\ \A j \in DOMAIN analyzeJobs' :
              j \notin DOMAIN analyzeJobs => analyzeJobs'[j].status = "pending"
<1> DEFINE Goal ==
      /\ DOMAIN analyzeJobs \subseteq DOMAIN analyzeJobs'
      /\ \A j \in DOMAIN analyzeJobs :
              /\ analyzeJobs'[j].profile = analyzeJobs[j].profile
              /\ analyzeJobs'[j].paper = analyzeJobs[j].paper
              /\ analyzeJobs'[j].status = "done" =>
                   \/ analyzeJobs[j].status = "done"
                   \/ worker.kind = "analyze" /\ worker.at = "complete" /\ j = worker.job
              /\ analyzeJobs'[j].status = "running" =>
                   analyzeJobs[j].status = "running" \/ ClaimAnalyze(j)
      /\ \A j \in DOMAIN analyzeJobs' :
              j \notin DOMAIN analyzeJobs => analyzeJobs'[j].status = "pending"
<1>1. CASE UNCHANGED analyzeJobs
  BY <1>1
<1>2. ASSUME NEW c \in Profiles, NEW p \in papers, AJobs!Enqueue(c, p) PROVE Goal
  BY <1>2, AJobEnqueued
<1>3. ASSUME NEW j, NEW status \in {"pending", "failed"}, AJobs!SetStatus(j, status)
      PROVE  Goal
  <2>1. status \in AJobs!JobStatus /\ status \notin {"done", "running"}
    BY DEF AJobs!JobStatus
  <2>2. QED
    BY <1>3, <2>1, AJobStatus
<1>4. ASSUME AJobs!SetStatus(worker.job, "done"), worker.kind = "analyze", worker.at = "complete"
      PROVE  Goal
  <2>1. "done" \in AJobs!JobStatus
    BY DEF AJobs!JobStatus
  <2>2. QED
    BY <1>4, <2>1, AJobStatus
<1>5. ASSUME NEW j, ClaimAnalyze(j) PROVE Goal
  <2>1. "running" \in AJobs!JobStatus /\ AJobs!SetStatus(j, "running")
    BY <1>5 DEF AJobs!JobStatus, ClaimAnalyze, AJobs!ClaimJob
  <2>2. QED
    BY <1>5, <2>1, AJobStatus
<1>6. ASSUME NEW r \in Readers, (\E p \in Papers : KeywordInsert(r, p)) \/ Keyword(r)
      PROVE  UNCHANGED analyzeJobs
  BY <1>6 DEF Keyword, KeywordInsert, KeywordList, KeywordListBare, KeywordCached,
              KeywordConfig, KeywordFill, KeywordEnqueue, KeywordDone, ReaderGoto, queues
<1>7. ASSUME NEW h \in Handlers, Request(h) \/ Proceed(h) \/ Abort(h) PROVE Goal
  <2>1. \/ UNCHANGED analyzeJobs
        \/ \E c \in Profiles, p \in papers : AJobs!Enqueue(c, p)
        \/ \E j \in DOMAIN analyzeJobs : AJobs!SetStatus(j, "pending")
        \/ BackfillInsert(h)
    BY <1>7 DEF Request, Proceed, Abort, DeleteProfile, RequestBackfill, CreateProfile,
                UpdateProfile, Like, AnalyzePaper, VerifyPaper, RetryAnalyze, RetryVerify,
                BackfillSelect, VerifyPaperInsert, AnalyzePaperWrite, queues, AJobs!RetryJob
  <2>2. QED
    BY <1>1, <1>2, <1>3, <2>1, BackfillRows
<1>8. CASE Worker
  <2>1. \/ UNCHANGED analyzeJobs
        \/ \E j : ClaimAnalyze(j)
        \/ AJobs!SetStatus(worker.job, "failed")
        \/ /\ AJobs!SetStatus(worker.job, "done")
           /\ worker.kind = "analyze" /\ worker.at = "complete"
    BY <1>8 DEF Worker, ClaimVerify, PassTurn, ReadConfig,
                ReadVerdict, ReadPrevious, Judge, WriteAnalysis, Complete, Fail, Settle,
                WorkerAt, queues
  <2>2. QED
    BY <1>1, <1>3, <1>4, <1>5, <2>1
<1>9. CASE UNCHANGED analyzeJobs \/ WorkerCrash \/ KeywordCrash \/ Start \/
           \E p \in Papers, answer \in {"yes", "no"} : Decide(p, answer)
  BY <1>1, <1>9 DEF WorkerCrash, KeywordCrash, Start, Decide, queues
<1>10. QED
  BY <1>1, <1>6, <1>7, <1>8, <1>9 DEF Next, vars

\* A profile is live from its creation until it is deleted.
LEMMA ProfileStep ==
  ASSUME TypeInv, [Next]_vars, NEW c \in Profiles, Known(c), profile'[c] = "live"
  PROVE  profile[c] = "live"
<1>1. ASSUME NEW r \in Readers, (\E p \in Papers : KeywordInsert(r, p)) \/ Keyword(r)
      PROVE  UNCHANGED profile
  BY <1>1 DEF Keyword, KeywordInsert, KeywordList, KeywordListBare, KeywordCached,
              KeywordConfig, KeywordFill, KeywordEnqueue, KeywordDone, ReaderGoto, users
<1>2. ASSUME NEW h \in Handlers, Request(h) \/ Proceed(h) \/ Abort(h)
      PROVE  \/ UNCHANGED profile
             \/ \E d \in Profiles :
                  profile[d] = "new" /\ profile' = [profile EXCEPT ![d] = "live"]
             \/ \E d \in Profiles : profile' = [profile EXCEPT ![d] = "deleted"]
  BY <1>2 DEF Request, Proceed, Abort, DeleteProfile, RequestBackfill, CreateProfile,
              UpdateProfile, Like, AnalyzePaper, VerifyPaper, RetryAnalyze, RetryVerify,
              BackfillSelect, BackfillInsert, VerifyPaperInsert, AnalyzePaperWrite, users
<1>3. CASE Worker \/ WorkerCrash
  <2>1. UNCHANGED profile
    BY <1>3 DEF Worker, WorkerCrash, ClaimAnalyze, ClaimVerify, PassTurn, ReadConfig,
                ReadVerdict, ReadPrevious, Judge, WriteAnalysis, Complete, Fail, Settle,
                WorkerGoto, users
  <2>2. QED
    BY <2>1
<1>4. CASE UNCHANGED profile
  BY <1>4
<1>5. QED
  BY <1>1, <1>2, <1>3, <1>4 DEF Next, KeywordCrash, Start, Decide, users, vars, TypeInv, TypeOK,
                                Known

\* A row of the analysis goes only with its profile.
LEMMA AnalysisStep ==
  ASSUME TypeInv, [Next]_vars, NEW c \in Profiles, NEW p \in Papers,
         profile'[c] = "live", Analysed(c, p)
  PROVE  Analysed(c, p)'
<1>0. analysis \in [Profiles -> [Papers -> Row \cup {NoRow}]]
  BY DEF TypeInv, TypeOK
<1>1. CASE UNCHANGED analysis
  BY <1>1 DEF Analysed
<1>2. ASSUME NEW d \in Profiles, NEW q \in papers, NEW row \in Row, profile[d] = "live",
             Upsert(d, q, row), UNCHANGED <<profile, papers>>
      PROVE  Analysed(c, p)'
  <2>1. row # NoRow
    BY DEF Row, NoRow, Answer
  <2>2. QED
    BY <1>2, <2>1, Upserted DEF Analysed
<1>3. ASSUME NEW h \in Handlers, NEW d \in Profiles, DeleteProfile(h, d) PROVE Analysed(c, p)'
  <2>1. d # c
    BY <1>3 DEF DeleteProfile, TypeInv, TypeOK
  <2>2. QED
    BY <1>0, <1>3, <2>1 DEF DeleteProfile, Analysed
<1>4. ASSUME NEW h \in Handlers, NEW answer \in Answer, AnalyzePaperWrite(h, answer)
      PROVE  Analysed(c, p)'
  <2>1. /\ UNCHANGED <<profile, papers>> /\ handler[h].at = "answer"
    BY <1>4 DEF AnalyzePaperWrite, users, HandlerEnters, corpus
  <2>2. /\ handler[h].profile \in Profiles /\ handler[h].paper \in papers
        /\ [pass |-> handler[h].pass, llm |-> answer] \in Row
    BY <2>1, HandlerShape DEF TypeInv, Row
  <2>3. QED
    BY <1>1, <1>2, <1>4, <2>1, <2>2 DEF AnalyzePaperWrite, rows
<1>5. CASE WriteAnalysis
  <2>1. UNCHANGED <<profile, papers>> /\ worker.at # "turn"
    BY <1>5 DEF WriteAnalysis, WorkerGoto, users, corpus, WorkerAt
  <2>2. [pass |-> worker.pass, llm |-> worker.llm] \in Row
    BY WorkerShape DEF WorkerStates, Row
  <2>3. QED
    BY <1>1, <1>2, <1>5, <2>1, <2>2, JobHeld DEF WriteAnalysis, rows
<1>6. \/ UNCHANGED analysis \/ WriteAnalysis
      \/ \E h \in Handlers : \/ \E d \in Profiles : DeleteProfile(h, d)
                             \/ \E answer \in Answer : AnalyzePaperWrite(h, answer)
  BY AnalysisWriters DEF rows
<1>7. QED
  BY <1>1, <1>3, <1>4, <1>5, <1>6
-----------------------------------------------------------------------------
(***************************************************************************)
(* A job that is done has left its row: the worker comes to the completion *)
(* of a job only over the write that leaves it.                            *)
(***************************************************************************)
\* Nobody else moves the worker; the API may only change what stands.
LEMMA WorkerAlone ==
  ASSUME [Next]_vars, ~Worker, ~WorkerCrash
  PROVE  \/ worker' = worker
         \/ \E h \in Handlers, answer \in Answer : AnalyzePaperWrite(h, answer)
<1>1. ASSUME NEW r \in Readers, (\E p \in Papers : KeywordInsert(r, p)) \/ Keyword(r)
      PROVE  UNCHANGED worker
  BY <1>1 DEF Keyword, KeywordInsert, KeywordList, KeywordListBare, KeywordCached,
              KeywordConfig, KeywordFill, KeywordEnqueue, KeywordDone, ReaderGoto
<1>2. ASSUME NEW h \in Handlers, Request(h) \/ Proceed(h) \/ Abort(h)
      PROVE  worker' = worker \/ \E answer \in Answer : AnalyzePaperWrite(h, answer)
  BY <1>2 DEF Request, Proceed, Abort, DeleteProfile, RequestBackfill, CreateProfile,
              UpdateProfile, Like, AnalyzePaper, VerifyPaper, RetryAnalyze, RetryVerify,
              BackfillSelect, BackfillInsert, VerifyPaperInsert, HandlerGoto
<1>3. CASE UNCHANGED worker
  BY <1>3
<1>4. QED
  BY <1>1, <1>2, <1>3 DEF Next, KeywordCrash, Start, Decide, vars

LEMMA WorkerStays ==
  ASSUME TypeInv, [Next]_vars, ~Worker, ~WorkerCrash
  PROVE  /\ worker'.at = worker.at /\ worker'.kind = worker.kind /\ worker'.job = worker.job
         /\ worker'.llm = worker.llm
<1>1. \A s : LET to == [worker EXCEPT !.stood = s] IN
        /\ to.at = worker.at /\ to.kind = worker.kind /\ to.job = worker.job
        /\ to.llm = worker.llm
  BY WorkerShape DEF WorkerStates
<1>2. worker' = worker \/ \E s : worker' = [worker EXCEPT !.stood = s]
  BY WorkerAlone DEF AnalyzePaperWrite
<1>3. QED
  BY <1>1, <1>2

\* The job it holds keeps profile and paper.
LEMMA JobKept ==
  ASSUME TypeInv, [Next]_vars, worker.kind = "analyze", worker.at # "turn",
         worker'.job = worker.job, worker'.kind = worker.kind
  PROVE  Job'.profile = Job.profile /\ Job'.paper = Job.paper
<1>1. worker.job \in DOMAIN analyzeJobs
  BY DEF TypeInv, Refs, WorkerRefs
<1>2. QED
  BY <1>1, JobsStep DEF Job

DoneInv ==
  /\ DoneHasRow
  /\ (worker.kind = "analyze" /\ worker.at = "complete") =>
       /\ <<Job.profile, Job.paper>> \in written
       /\ profile[Job.profile] = "live" => Analysed(Job.profile, Job.paper)

LEMMA DoneRows ==
  ASSUME TypeInv, DoneInv, [Next]_vars
  PROVE  DoneHasRow'
<1> SUFFICES ASSUME NEW j \in DOMAIN analyzeJobs', analyzeJobs'[j].status = "done"
             PROVE  /\ <<analyzeJobs'[j].profile, analyzeJobs'[j].paper>> \in written'
                    /\ profile'[analyzeJobs'[j].profile] = "live" =>
                         analysis'[analyzeJobs'[j].profile][analyzeJobs'[j].paper] # NoRow
  BY DEF DoneHasRow, Analysed
<1>1. j \in DOMAIN analyzeJobs
  BY JobsStep
<1> DEFINE c == analyzeJobs[j].profile
           p == analyzeJobs[j].paper
<1>2. /\ analyzeJobs'[j].profile = c /\ analyzeJobs'[j].paper = p
      /\ \/ analyzeJobs[j].status = "done"
         \/ worker.kind = "analyze" /\ worker.at = "complete" /\ j = worker.job
  BY <1>1, JobsStep
<1>3. c \in Profiles /\ p \in Papers /\ Known(c)
  BY <1>1, JobShape DEF TypeInv, Refs, JobRefs
<1>4. <<c, p>> \in written /\ (profile[c] = "live" => Analysed(c, p))
  <2>1. CASE analyzeJobs[j].status = "done"
    BY <1>1, <2>1 DEF DoneInv, DoneHasRow
  <2>2. CASE worker.kind = "analyze" /\ worker.at = "complete" /\ j = worker.job
    BY <2>2 DEF DoneInv, Job
  <2>3. QED
    BY <1>2, <2>1, <2>2
<1>5. profile'[c] = "live" => analysis'[c][p] # NoRow
  <2> HIDE DEF c, p
  <2>1. QED
    BY <1>3, <1>4, ProfileStep, AnalysisStep DEF Analysed
<1>6. QED
  BY <1>2, <1>4, <1>5, WrittenStep

LEMMA DoneStep == TypeInv /\ DoneInv /\ [Next]_vars => DoneInv'
<1> SUFFICES ASSUME TypeInv, DoneInv, [Next]_vars,
                    worker'.kind = "analyze", worker'.at = "complete"
             PROVE  /\ <<Job'.profile, Job'.paper>> \in written'
                    /\ profile'[Job'.profile] = "live" =>
                         analysis'[Job'.profile][Job'.paper] # NoRow
  BY DoneRows DEF DoneInv, Analysed
<1>0. worker \in WorkerStates
  BY WorkerShape
<1>1. CASE ~Worker /\ ~WorkerCrash
  <2>1. worker.kind = "analyze" /\ worker.at = "complete" /\ worker'.job = worker.job
        /\ worker'.kind = worker.kind
    BY <1>1, WorkerStays
  <2>2. Job'.profile = Job.profile /\ Job'.paper = Job.paper
    BY <2>1, JobKept
  <2>3. Job.profile \in Profiles /\ Job.paper \in Papers /\ Known(Job.profile)
    BY <2>1, JobHeld DEF TypeInv, TypeOK
  <2>4. /\ <<Job.profile, Job.paper>> \in written
        /\ profile'[Job.profile] = "live" => Analysed(Job.profile, Job.paper)
    BY <2>1, <2>3, ProfileStep DEF DoneInv
  <2>5. QED
    BY <2>2, <2>3, <2>4, AnalysisStep, WrittenStep DEF Analysed
<1>2. CASE WriteAnalysis
  <2>1. /\ profile[Job.profile] = "live" /\ worker.at # "turn"
        /\ Upsert(Job.profile, Job.paper, [pass |-> worker.pass, llm |-> worker.llm])
        /\ UNCHANGED <<profile, papers, analyzeJobs, verifyJobs>> /\ worker' = To("complete")
    BY <1>2, WorkerShape DEF WriteAnalysis, WorkerGoto, users, corpus, WorkerAt, queues
  <2>2. /\ [pass |-> worker.pass, llm |-> worker.llm] \in Row
        /\ [pass |-> worker.pass, llm |-> worker.llm] # NoRow
    BY <1>0 DEF WorkerStates, Row, NoRow, Answer
  <2>3. Job.profile \in Profiles /\ Job.paper \in papers /\ Job.paper \in Papers
    BY <2>1, JobHeld DEF TypeInv, TypeOK
  <2>4. Job' = Job
    BY <2>1, WorkerShape DEF Job
  <2>5. <<Job.profile, Job.paper>> \in written'
    BY <2>1 DEF Upsert
  <2>6. QED
    BY <2>1, <2>2, <2>3, <2>4, <2>5, Upserted
<1>3. CASE (Worker \/ WorkerCrash) /\ ~WriteAnalysis
  <2>1. worker'.at # "complete"
    <3>1. CASE \E j \in DOMAIN analyzeJobs : ClaimAnalyze(j)
      BY <3>1, Claimed
    <3>2. CASE \E j \in DOMAIN verifyJobs : ClaimVerify(j)
      BY <3>2, Claimed
    <3>3. CASE ReadConfig
      BY <1>0, <3>3 DEF ReadConfig, WorkerGoto, To, WorkerStates
    <3>4. CASE ReadVerdict \/ ReadPrevious \/ Judge
      BY <1>0, <3>4 DEF ReadVerdict, ReadPrevious, Judge, WorkerGoto, To, WorkerStates
    <3>5. CASE PassTurn \/ Complete \/ Fail \/ WorkerCrash
      BY <3>5 DEF PassTurn, Complete, Fail, Settle, WorkerCrash, WorkerGoto, NextTurn, Free
    <3>6. QED
      BY <1>3, <3>1, <3>2, <3>3, <3>4, <3>5 DEF Worker
  <2>2. QED
    BY <2>1
<1>4. QED
  BY <1>1, <1>2, <1>3

\* A job that is done has left a row of the analysis, which is there as long as
\* its profile is, whatever fails and whoever writes, deletes or retries meanwhile.
THEOREM RowsBehind == Spec => []DoneHasRow
<1>1. Init => DoneInv
  BY DEF Init, DoneInv, DoneHasRow, Free
<1>2. DoneInv => DoneHasRow
  BY DEF DoneInv
<1>3. QED
  BY <1>1, <1>2, TypeInit, TypeStep, DoneStep, PTL DEF Spec
-----------------------------------------------------------------------------
(***************************************************************************)
(* The decision that stood when the worker read the row is the one it      *)
(* writes.                                                                 *)
(***************************************************************************)
Reading == {"config", "verdict", "previous"}

StoodInv ==
  worker.kind = "analyze" =>
    /\ worker.at # "judge"
    /\ worker.stood # "nil" =>
         /\ worker.at # "turn"
         /\ profile[Job.profile] = "live" =>
              /\ worker.at \in Reading =>
                   analysis[Job.profile][Job.paper].llm = worker.stood
              /\ worker.at = "upsert" => worker.llm = worker.stood

\* A write of the API leaves the decision of its row standing.
LEMMA AnswerStands ==
  ASSUME TypeInv, StoodInv, NEW h \in Handlers, NEW answer \in Answer,
         AnalyzePaperWrite(h, answer), worker.kind = "analyze", worker'.stood # "nil"
  PROVE  /\ worker.at # "turn"
         /\ profile[Job.profile] = "live" =>
              /\ worker.at \in Reading =>
                   analysis'[Job.profile][Job.paper].llm = worker'.stood
              /\ worker.at = "upsert" => worker.llm = worker'.stood
<1> DEFINE d == handler[h].profile
           q == handler[h].paper
           row == [pass |-> handler[h].pass, llm |-> answer]
<1>0. worker \in WorkerStates
  BY WorkerShape
<1>1. /\ UNCHANGED <<profile, papers>> /\ handler[h].at = "answer"
      /\ IF profile[d] = "live" THEN Upsert(d, q, row) ELSE UNCHANGED analysis
      /\ worker' = IF WorkerHolds(d, q) THEN [worker EXCEPT !.stood = Standing(answer)]
                   ELSE worker
  BY DEF AnalyzePaperWrite, users, HandlerEnters, corpus, rows
<1>2. d \in Profiles /\ q \in papers /\ row \in Row /\ row.llm = answer
  BY <1>1, HandlerShape DEF TypeInv, Row
<1>3. worker.at # "turn"
  BY <1>1, WorkerShape DEF WorkerHolds, StoodInv
<1>4. /\ Job.profile \in Profiles /\ Job.paper \in papers /\ Job.paper \in Papers
      /\ worker.job # 0
  BY <1>3, JobHeld DEF TypeInv, TypeOK
<1>5. CASE Job.profile = d /\ Job.paper = q
  <2>1. worker'.stood = Standing(answer)
    BY <1>0, <1>1, <1>4, <1>5 DEF WorkerHolds, WorkerStates
  <2>2. worker.at \in Reading => worker'.stood = answer
    BY <2>1 DEF Standing, Reading
  <2>3. worker.at = "upsert" => worker'.stood = worker.stood
    BY <2>1 DEF Standing
  <2>4. profile[d] = "live" => analysis'[d][q] = row
    <3> HIDE DEF row, d, q
    <3>1. QED
      BY <1>1, <1>2, <1>4, <1>5, Upserted
  <2>5. QED
    BY <1>2, <1>3, <1>5, <2>2, <2>3, <2>4 DEF StoodInv
<1>6. CASE ~(Job.profile = d /\ Job.paper = q)
  <2>1. worker' = worker
    BY <1>1, <1>6 DEF WorkerHolds
  <2>2. analysis'[Job.profile][Job.paper] = analysis[Job.profile][Job.paper]
    <3> HIDE DEF row, d, q
    <3>1. QED
      BY <1>1, <1>2, <1>4, <1>6, Upserted
  <2>3. QED
    BY <1>3, <2>1, <2>2 DEF StoodInv
<1>7. QED
  BY <1>5, <1>6

\* So do all others.
LEMMA OthersLeave ==
  ASSUME TypeInv, StoodInv, [Next]_vars, ~Worker, ~WorkerCrash,
         worker.kind = "analyze", worker'.stood # "nil"
  PROVE  /\ worker.at # "turn"
         /\ profile'[Job.profile] = "live" =>
              /\ worker.at \in Reading =>
                   analysis'[Job.profile][Job.paper].llm = worker'.stood
              /\ worker.at = "upsert" => worker.llm = worker'.stood
<1>1. ASSUME NEW h \in Handlers, NEW answer \in Answer, AnalyzePaperWrite(h, answer)
      PROVE  /\ worker.at # "turn"
             /\ profile'[Job.profile] = "live" =>
                  /\ worker.at \in Reading =>
                       analysis'[Job.profile][Job.paper].llm = worker'.stood
                  /\ worker.at = "upsert" => worker.llm = worker'.stood
  <2>1. UNCHANGED profile
    BY <1>1 DEF AnalyzePaperWrite, users
  <2>2. QED
    BY <1>1, <2>1, AnswerStands
<1>2. CASE worker' = worker /\ ~\E h \in Handlers, answer \in Answer : AnalyzePaperWrite(h, answer)
  <2>1. worker.at # "turn"
    BY <1>2 DEF StoodInv
  <2> DEFINE c == Job.profile
             p == Job.paper
  <2>2. c \in Profiles /\ p \in Papers /\ Known(c)
    BY <2>1, JobHeld DEF TypeInv, TypeOK
  <2>3. ASSUME profile'[c] = "live"
        PROVE  profile[c] = "live" /\ analysis'[c][p] = analysis[c][p]
    <3>1. profile[c] = "live"
      BY <2>2, <2>3, ProfileStep
    <3>2. ASSUME NEW h \in Handlers, NEW d \in Profiles, DeleteProfile(h, d)
          PROVE  analysis'[c][p] = analysis[c][p]
      <4>1. d # c /\ analysis' = [analysis EXCEPT ![d] = [q \in Papers |-> NoRow]]
        BY <2>3, <3>2 DEF DeleteProfile, TypeInv, TypeOK
      <4>2. QED
        BY <2>2, <4>1 DEF TypeInv, TypeOK
    <3>3. \/ UNCHANGED analysis
          \/ \E h \in Handlers, d \in Profiles : DeleteProfile(h, d)
      BY <1>2, AnalysisWriters DEF Worker, rows
    <3>4. QED
      BY <3>1, <3>2, <3>3
  <2>4. QED
    BY <1>2, <2>1, <2>3 DEF StoodInv
<1>3. QED
  BY <1>1, <1>2, WorkerAlone

\* A step of the worker before it writes.
LEMMA StoodKept ==
  ASSUME TypeInv, StoodInv, UNCHANGED <<profile, analysis, analyzeJobs, verifyJobs>>,
         worker.kind = "analyze", worker.at \in Reading,
         worker'.at \in Reading \cup {"upsert", "fail"},
         worker'.job = worker.job, worker'.kind = worker.kind,
         worker'.stood # "nil" =>
           /\ worker'.stood = worker.stood
           /\ (/\ worker'.at = "upsert"
               /\ analysis[Job.profile][Job.paper].llm = worker.stood)
                => worker'.llm = worker.stood
  PROVE  StoodInv'
<1>1. Job' = Job
  BY DEF Job
<1>2. worker'.at \notin {"judge", "turn"}
  BY DEF Reading
<1>3. QED
  BY <1>1, <1>2 DEF StoodInv

LEMMA StoodStep ==
  ASSUME Ask = "paper", TypeInv, StoodInv, [Next]_vars
  PROVE  StoodInv'
<1>0. worker \in WorkerStates
  BY WorkerShape
<1>1. CASE ~Worker /\ ~WorkerCrash
  <2> SUFFICES ASSUME worker'.kind = "analyze" PROVE StoodInv'
    BY DEF StoodInv
  <2>1. /\ worker'.at = worker.at /\ worker'.kind = worker.kind /\ worker'.job = worker.job
        /\ worker'.llm = worker.llm
    BY <1>1, WorkerStays
  <2>2. worker'.at # "judge"
    BY <2>1 DEF StoodInv
  <2>3. CASE worker'.stood = "nil"
    BY <2>2, <2>3 DEF StoodInv
  <2>4. CASE worker'.stood # "nil"
    <3>1. /\ worker.at # "turn"
          /\ profile'[Job.profile] = "live" =>
               /\ worker.at \in Reading =>
                    analysis'[Job.profile][Job.paper].llm = worker'.stood
               /\ worker.at = "upsert" => worker.llm = worker'.stood
      BY <1>1, <2>1, <2>4, OthersLeave
    <3>2. Job'.profile = Job.profile /\ Job'.paper = Job.paper
      BY <2>1, <3>1, JobKept
    <3>3. QED
      BY <2>1, <2>2, <3>1, <3>2 DEF StoodInv
  <2>5. QED
    BY <2>3, <2>4
<1>2. ASSUME NEW j \in DOMAIN analyzeJobs, ClaimAnalyze(j) PROVE StoodInv'
  <2>1. /\ worker'.at = "config" /\ worker'.job = j /\ worker'.kind = "analyze"
        /\ worker'.stood = Answered(j)
        /\ AJobs!SetStatus(j, "running") /\ UNCHANGED analysis
    BY <1>2, Claimed DEF rows
  <2>2. "running" \in AJobs!JobStatus
    BY DEF AJobs!JobStatus
  <2>3. /\ analyzeJobs'[j].profile = analyzeJobs[j].profile
        /\ analyzeJobs'[j].paper = analyzeJobs[j].paper
    BY <2>1, <2>2, AJobStatus
  <2>4. Job' = analyzeJobs'[j]
    BY <2>1 DEF Job
  <2>5. Answered(j) # "nil" =>
          Answered(j) = analysis[analyzeJobs[j].profile][analyzeJobs[j].paper].llm
    BY DEF Answered
  <2>6. QED
    BY <2>1, <2>3, <2>4, <2>5 DEF StoodInv
<1>3. CASE \E j \in DOMAIN verifyJobs : ClaimVerify(j)
  <2>1. worker'.kind = "verify"
    BY <1>3, Claimed
  <2>2. QED
    BY <2>1 DEF StoodInv
<1>4. CASE PassTurn \/ Complete \/ Fail \/ WorkerCrash
  <2>1. PICK kind \in {"analyze", "verify"} : worker' = Free(kind)
    BY <1>4 DEF PassTurn, Complete, Fail, Settle, WorkerCrash, WorkerGoto, NextTurn
  <2>2. QED
    BY <2>1 DEF StoodInv, Free
<1>5. CASE worker.kind = "verify" /\ (ReadConfig \/ ReadVerdict \/ ReadPrevious \/ Judge
                                        \/ WriteAnalysis)
  <2>1. worker'.kind = "verify"
    BY <1>0, <1>5 DEF ReadConfig, ReadVerdict, ReadPrevious, Judge, WriteAnalysis, WorkerGoto,
                      To, WorkerStates
  <2>2. QED
    BY <2>1 DEF StoodInv
<1>6. CASE worker.kind = "analyze" /\ ReadConfig
  <2>1. /\ UNCHANGED <<profile, analysis, analyzeJobs, verifyJobs>> /\ worker.at = "config"
    BY <1>6 DEF ReadConfig, WorkerGoto, users, rows, queues, WorkerAt
  <2>2. /\ worker'.at \in {"verdict", "fail"} /\ worker'.job = worker.job
        /\ worker'.kind = worker.kind /\ worker'.stood = worker.stood
    BY <1>0, <1>6 DEF ReadConfig, WorkerGoto, To, WorkerStates
  <2>3. QED
    BY <1>6, <2>1, <2>2, StoodKept DEF Reading
<1>7. CASE worker.kind = "analyze" /\ ReadVerdict
  <2>1. /\ UNCHANGED <<profile, analysis, analyzeJobs, verifyJobs>> /\ worker.at = "verdict"
    BY <1>7 DEF ReadVerdict, WorkerGoto, users, rows, queues, WorkerAt
  <2>2. /\ worker'.at = (IF verdict[Job.paper] = "nil" THEN "previous" ELSE "upsert")
        /\ worker'.stood = (IF verdict[Job.paper] = "nil" THEN worker.stood ELSE "nil")
        /\ worker'.job = worker.job /\ worker'.kind = worker.kind
    BY <1>0, <1>7 DEF ReadVerdict, WorkerGoto, WorkerStates
  <2>3. QED
    BY <1>7, <2>1, <2>2, StoodKept DEF Reading
<1>8. CASE worker.kind = "analyze" /\ ReadPrevious
  <2> DEFINE row == analysis[Job.profile][Job.paper]
  <2>1. /\ UNCHANGED <<profile, analysis, analyzeJobs, verifyJobs>> /\ worker.at = "previous"
    BY <1>8 DEF ReadPrevious, WorkerGoto, users, rows, queues, WorkerAt
  <2>2. /\ worker'.at = "upsert"
        /\ worker'.job = worker.job /\ worker'.kind = worker.kind
        /\ \/ worker'.stood = "nil"
           \/ /\ worker'.stood = worker.stood
              /\ worker'.llm = IF row = NoRow THEN "nil" ELSE row.llm
    BY <1>0, <1>8 DEF ReadPrevious, WorkerGoto, WorkerStates
  <2>3. worker.stood \in Answer /\ NoRow.llm \notin Answer
    BY <1>0 DEF WorkerStates, NoRow, Answer
  <2>4. row.llm = worker.stood => row # NoRow
    BY <2>3
  <2> HIDE DEF row
  <2>5. QED
    BY <1>8, <2>1, <2>2, <2>4, StoodKept DEF row, Reading
<1>9. CASE worker.kind = "analyze" /\ WriteAnalysis
  <2>1. worker'.at \in {"complete", "fail"}
    BY <1>0, <1>9 DEF WriteAnalysis, WorkerGoto, To, WorkerStates
  <2>2. QED
    BY <2>1 DEF StoodInv, Reading
<1>10. CASE worker.kind = "analyze" /\ Judge
  BY <1>10 DEF Judge, WorkerAt, StoodInv
<1>11. worker.kind \in {"analyze", "verify"}
  BY <1>0 DEF WorkerStates
<1>12. QED
  BY <1>1, <1>2, <1>3, <1>4, <1>5, <1>6, <1>7, <1>8, <1>9, <1>10, <1>11 DEF Worker

\* Where the decision of the pipeline comes first and the model is not asked, a
\* job writes no decision other than the one that stood when it read the row,
\* whoever writes rows while it runs and however long the worker waits between
\* its statements.
THEOREM DecisionsStand == ASSUME Ask = "paper" PROVE Spec => DecisionPreserved
<1>1. Init => StoodInv
  BY DEF Init, StoodInv, Free
<1>2. ASSUME TypeInv, StoodInv, [Next]_vars, NEW c \in Profiles, NEW p \in Papers,
             worker.kind = "analyze", worker.at = "upsert", worker'.at # "upsert",
             analysis[c][p].llm \in {"yes", "no"},
             WorkerHolds(c, p) => worker.stood = analysis[c][p].llm
      PROVE  analysis'[c][p].llm = analysis[c][p].llm
  <2>0. worker \in WorkerStates
    BY <1>2, WorkerShape
  <2>1. CASE UNCHANGED analysis
    BY <2>1
  <2>2. Worker \/ WorkerCrash
    BY <1>2, WorkerStays
  <2>3. UNCHANGED analysis \/ WriteAnalysis
    BY <2>2 DEF Worker, WorkerCrash, ClaimAnalyze, ClaimVerify, PassTurn, ReadConfig,
                ReadVerdict, ReadPrevious, Judge, Complete, Fail, Settle, rows
  <2> DEFINE row == [pass |-> worker.pass, llm |-> worker.llm]
  <2>4. CASE /\ WriteAnalysis
             /\ profile[Job.profile] = "live" /\ Upsert(Job.profile, Job.paper, row)
    <3>1. row \in Row /\ row.llm = worker.llm
      BY <2>0 DEF WorkerStates, Row
    <3> HIDE DEF row
    <3>2. Job.profile \in Profiles /\ Job.paper \in papers /\ worker.job # 0
      BY <1>2, JobHeld
    <3>3. UNCHANGED <<profile, papers>>
      BY <2>4 DEF WriteAnalysis, WorkerGoto, users, corpus
    <3>4. analysis'[c][p] = IF c = Job.profile /\ p = Job.paper THEN row ELSE analysis[c][p]
      BY <1>2, <2>4, <3>1, <3>2, <3>3, Upserted
    <3>5. CASE c = Job.profile /\ p = Job.paper
      <4>1. worker.stood = analysis[c][p].llm
        BY <1>2, <3>2, <3>5 DEF WorkerHolds
      <4>2. worker.llm = worker.stood
        BY <1>2, <2>4, <4>1 DEF StoodInv
      <4>3. QED
        BY <3>1, <3>4, <3>5, <4>1, <4>2
    <3>6. QED
      BY <3>4, <3>5
  <2>5. QED
    BY <2>1, <2>3, <2>4 DEF WriteAnalysis, rows
<1>3. TypeInv /\ StoodInv /\ [Next]_vars =>
        [(worker.kind = "analyze" /\ worker.at = "upsert" /\ worker'.at # "upsert") =>
           \A c \in Profiles, p \in Papers :
             (/\ analysis[c][p].llm \in {"yes", "no"}
              /\ WorkerHolds(c, p) => worker.stood = analysis[c][p].llm)
               => analysis'[c][p].llm = analysis[c][p].llm]_vars
  BY <1>2
<1>4. QED
  BY <1>1, <1>3, TypeInit, TypeStep, StoodStep, PTL DEF Spec, DecisionPreserved
-----------------------------------------------------------------------------
(***************************************************************************)
(* No paper that a profile has to show is left behind as long as no        *)
(* request is cut short: the backfill that follows a save looks at all     *)
(* papers there are, and what it leaves out has a row or a job already.    *)
(***************************************************************************)
ComesTo(h, c, p) ==
  /\ handler[h].at \in {"select", "insert"} /\ handler[h].profile = c
  /\ \/ handler[h].at = "select" /\ InPart(handler[h].part, p)
     \/ handler[h].at = "insert" /\ p \in handler[h].todo
     \/ handler[h].part = "arxiv" /\ Source[p] # "arxiv"

LEMMA ComingFrom ==
  ASSUME NEW c, NEW p
  PROVE  /\ Coming(c, p) <=> \E h \in Handlers : ComesTo(h, c, p)
         /\ Coming(c, p)' <=> \E h \in Handlers : ComesTo(h, c, p)'
BY DEF Coming, ComesTo

\* The profiles and their configurations, in any step.
LEMMA UsersStep ==
  ASSUME TypeInv, [Next]_vars
  PROVE  \/ UNCHANGED <<profile, config>>
         \/ \E h \in Handlers, c \in Profiles :
              \/ DeleteProfile(h, c)
              \/ \E new \in Configs : CreateProfile(h, c, new) \/ UpdateProfile(h, c, new)
<1>1. ASSUME NEW r \in Readers, (\E p \in Papers : KeywordInsert(r, p)) \/ Keyword(r)
      PROVE  UNCHANGED <<profile, config>>
  BY <1>1 DEF Keyword, KeywordInsert, KeywordList, KeywordListBare, KeywordCached,
              KeywordConfig, KeywordFill, KeywordEnqueue, KeywordDone, ReaderGoto, users
<1>2. ASSUME NEW h \in Handlers, Request(h) \/ Proceed(h) \/ Abort(h)
      PROVE  \/ UNCHANGED <<profile, config>>
             \/ \E c \in Profiles :
                  \/ DeleteProfile(h, c)
                  \/ \E new \in Configs : CreateProfile(h, c, new) \/ UpdateProfile(h, c, new)
  BY <1>2 DEF Request, Proceed, Abort, RequestBackfill, Like, AnalyzePaper, VerifyPaper,
              RetryAnalyze, RetryVerify, BackfillSelect, BackfillInsert, VerifyPaperInsert,
              AnalyzePaperWrite, users
<1>3. CASE Worker \/ WorkerCrash
  BY <1>3 DEF Worker, WorkerCrash, ClaimAnalyze, ClaimVerify, PassTurn, ReadConfig,
              ReadVerdict, ReadPrevious, Judge, WriteAnalysis, Complete, Fail, Settle,
              WorkerGoto, users
<1>4. CASE UNCHANGED <<profile, config>>
  BY <1>4
<1>5. QED
  BY <1>1, <1>2, <1>3, <1>4 DEF Next, KeywordCrash, Start, Decide, users, vars

\* The requests, in any step.
LEMMA HandlersStep ==
  ASSUME [Next]_vars
  PROVE  UNCHANGED handler \/ \E h \in Handlers : Request(h) \/ Proceed(h) \/ Abort(h)
<1>1. ASSUME NEW r \in Readers, (\E p \in Papers : KeywordInsert(r, p)) \/ Keyword(r)
      PROVE  UNCHANGED handler
  BY <1>1 DEF Keyword, KeywordInsert, KeywordList, KeywordListBare, KeywordCached,
              KeywordConfig, KeywordFill, KeywordEnqueue, KeywordDone, ReaderGoto
<1>2. CASE Worker \/ WorkerCrash
  BY <1>2 DEF Worker, WorkerCrash, ClaimAnalyze, ClaimVerify, PassTurn, ReadConfig,
              ReadVerdict, ReadPrevious, Judge, WriteAnalysis, Complete, Fail, Settle,
              WorkerGoto
<1>3. CASE UNCHANGED handler
  BY <1>3
<1>4. QED
  BY <1>1, <1>2, <1>3 DEF Next, KeywordCrash, Start, Decide, vars

\* A request keeps its goroutine until it is over.
LEMMA HandlerOwn ==
  ASSUME TypeInv, NEW h \in Handlers, Request(h) \/ Proceed(h) \/ Abort(h)
  PROVE  /\ \A g \in Handlers : g # h => handler'[g] = handler[g]
         /\ Request(h) => handler[h] = Idle
<1>1. \E state : HandlerEnters(h, state)
  BY DEF Request, Proceed, Abort, DeleteProfile, RequestBackfill, CreateProfile,
         UpdateProfile, Like, AnalyzePaper, VerifyPaper, RetryAnalyze, RetryVerify,
         BackfillSelect, BackfillInsert, VerifyPaperInsert, AnalyzePaperWrite, HandlerGoto
<1>2. Request(h) => handler[h] = Idle
  BY DEF Request, DeleteProfile, RequestBackfill, CreateProfile,
         UpdateProfile, Like, AnalyzePaper, VerifyPaper, RetryAnalyze, RetryVerify, Arrives
<1>3. QED
  BY <1>1, <1>2 DEF HandlerEnters, TypeInv, TypeOK

\* A backfill that has yet to come to a paper submits it, finds it served, or
\* has yet to come.
LEMMA BackfillOn ==
  ASSUME TypeInv, NEW h \in Handlers, BackfillSelect(h) \/ BackfillInsert(h),
         NEW c \in Profiles, NEW p \in Papers, Owed(c, p), ComesTo(h, c, p)
  PROVE  ComesTo(h, c, p)' \/ Submitted(c, p)' \/ Submitted(c, p) \/ Analysed(c, p)
<1>0. handler \in [Handlers -> HandlerStates] /\ p \in papers /\ handler[h].profile = c
  BY DEF TypeInv, TypeOK, Owed, ComesTo
<1>1. \A state : HandlerGoto(h, state) => handler'[h] = state
  BY <1>0 DEF HandlerGoto, HandlerEnters
<1>2. CASE BackfillSelect(h)
  <2> DEFINE part == handler[h].part
             todo == Eligible(part, c)
             state == [at |-> "insert", part |-> part, profile |-> c, todo |-> todo]
  <2>1. handler[h].at = "select" /\ handler'[h] = state
    BY <1>0, <1>1, <1>2 DEF BackfillSelect
  <2>2. TakenBy(c, p)
    BY DEF Owed, Subscribes, TakenBy, Sourceless
  <2>3. InPart(part, p) \/ (part = "arxiv" /\ Source[p] # "arxiv")
    BY <2>1 DEF ComesTo
  <2>4. Active(analyzeJobs, c, p) => Submitted(c, p)
    BY DEF Active, Submitted
  <2>5. ASSUME ~Submitted(c, p), ~Analysed(c, p)
        PROVE  p \in todo \/ (part = "arxiv" /\ Source[p] # "arxiv")
    BY <1>0, <2>2, <2>3, <2>4, <2>5 DEF Eligible, Analysed
  <2> HIDE DEF part, todo
  <2>6. /\ handler'[h].at = "insert" /\ handler'[h].part = part
        /\ handler'[h].profile = c /\ handler'[h].todo = todo
    BY <2>1
  <2>7. QED
    BY <2>5, <2>6 DEF ComesTo
<1>3. CASE BackfillInsert(h)
  <2>1. handler[h].at = "insert"
        /\ handler'[h] = IF handler[h].part = "arxiv" THEN Backfill("feeds", c) ELSE Idle
    BY <1>0, <1>1, <1>3 DEF BackfillInsert
  <2>2. CASE p \in handler[h].todo
    <3>1. Submitted(c, p)'
      BY <1>0, <1>3, <2>2, BackfillRows DEF Submitted
    <3>2. QED
      BY <3>1
  <2>3. CASE handler[h].part = "arxiv" /\ Source[p] # "arxiv"
    <3>1. /\ handler'[h].at = "select" /\ handler'[h].profile = c
          /\ handler'[h].part = "feeds"
      BY <2>1, <2>3, BackfillState
    <3>2. QED
      BY <2>3, <3>1 DEF ComesTo, InPart
  <2>4. QED
    BY <2>1, <2>2, <2>3 DEF ComesTo
<1>4. QED
  BY <1>2, <1>3

\* What starts a backfill.
Reloads(h, c) ==
  RequestBackfill(h, c)
    \/ \E new \in Configs : CreateProfile(h, c, new) \/ UpdateProfile(h, c, new)

LEMMA ReloadsAll ==
  ASSUME TypeInv, NEW h \in Handlers, NEW c \in Profiles, NEW p \in Papers, Reloads(h, c)
  PROVE  Coming(c, p)'
<1>1. handler'[h] = Backfill("arxiv", c)
  BY DEF Reloads, RequestBackfill, CreateProfile, UpdateProfile, HandlerGoto, HandlerEnters,
         TypeInv, TypeOK
<1>2. ComesTo(h, c, p)'
  BY <1>1, BackfillState DEF ComesTo, InPart
<1>3. QED
  BY <1>2, ComingFrom

\* Otherwise the profile had to show the paper before.
LEMMA OwedBefore ==
  ASSUME TypeInv, [Next]_vars, NEW c \in Profiles, NEW p \in Papers, Owed(c, p)',
         \A h \in Handlers : ~Reloads(h, c)
  PROVE  Owed(c, p)
<1>1. due'[c] = due[c]
  <2>1. ASSUME NEW d \in Profiles, d # c, Note(d) PROVE due'[c] = due[c]
    BY <2>1 DEF Note, TypeInv, TypeOK
  <2>2. QED
    BY <2>1, DueStep DEF Reloads
<1>2. profile'[c] = profile[c] /\ config'[c] = config[c]
  <2>1. ASSUME NEW h \in Handlers, NEW d \in Profiles, DeleteProfile(h, d)
        PROVE  profile'[c] = profile[c] /\ config'[c] = config[c]
    BY <2>1 DEF DeleteProfile, Owed, TypeInv, TypeOK
  <2>2. ASSUME NEW h \in Handlers, NEW d \in Profiles, NEW new \in Configs,
               CreateProfile(h, d, new) \/ UpdateProfile(h, d, new)
        PROVE  profile'[c] = profile[c] /\ config'[c] = config[c]
    <3>1. d # c
      BY <2>2 DEF Reloads
    <3>2. QED
      BY <2>2, <3>1 DEF CreateProfile, UpdateProfile, Save, TypeInv, TypeOK
  <2>3. QED
    BY <2>1, <2>2, UsersStep
<1>3. QED
  BY <1>1, <1>2 DEF Owed, Subscribes

LEMMA OwedStep ==
  ASSUME "disconnect" \notin Faults, TypeInv, EveryOwedQueued, [Next]_vars
  PROVE  EveryOwedQueued'
<1> SUFFICES ASSUME NEW c \in Profiles, NEW p \in Papers, Owed(c, p)'
             PROVE  Analysed(c, p)' \/ Submitted(c, p)' \/ Coming(c, p)'
  BY DEF EveryOwedQueued
<1>1. CASE \E h \in Handlers : Reloads(h, c)
  BY <1>1, ReloadsAll
<1>2. CASE \A h \in Handlers : ~Reloads(h, c)
  <2>1. Owed(c, p)
    BY <1>2, OwedBefore
  <2>2. Submitted(c, p) => Submitted(c, p)'
    BY JobsStep DEF Submitted
  <2>3. Analysed(c, p) => Analysed(c, p)'
    BY AnalysisStep DEF Owed
  <2>4. ASSUME NEW h \in Handlers, ComesTo(h, c, p)
        PROVE  Coming(c, p)' \/ Submitted(c, p)' \/ Submitted(c, p) \/ Analysed(c, p)
    <3>1. CASE handler'[h] = handler[h]
      <4>1. ComesTo(h, c, p)'
        BY <2>4, <3>1 DEF ComesTo, InPart
      <4>2. QED
        BY <4>1, ComingFrom
    <3>2. CASE BackfillSelect(h) \/ BackfillInsert(h)
      BY <2>1, <2>4, <3>2, BackfillOn, ComingFrom
    <3>3. ASSUME Request(h) \/ Proceed(h) \/ Abort(h)
          PROVE  BackfillSelect(h) \/ BackfillInsert(h)
      <4>1. handler[h].at \in {"select", "insert"}
        BY <2>4 DEF ComesTo
      <4>2. ~Request(h) /\ ~Abort(h)
        BY <3>3, <4>1, HandlerOwn DEF Abort, Idle
      <4>3. QED
        BY <3>3, <4>1, <4>2 DEF Proceed, VerifyPaperInsert, AnalyzePaperWrite
    <3>4. QED
      BY <3>1, <3>2, <3>3, HandlersStep, HandlerOwn
  <2>5. QED
    BY <2>1, <2>2, <2>3, <2>4, ComingFrom DEF EveryOwedQueued
<1>3. QED
  BY <1>1, <1>2

\* However requests on one profile interleave, and whatever the worker does and
\* comes in meanwhile, no paper that a profile has to show falls between the
\* backfills: it is analysed or submitted, or one of them has yet to come to it.
\* Processes may die and the statements of keyword and of the worker fail; a
\* request that is cut short loses papers.
THEOREM NoneLeftBehind == ASSUME "disconnect" \notin Faults PROVE Spec => []EveryOwedQueued
<1>1. Init => EveryOwedQueued
  BY DEF Init, EveryOwedQueued, Owed
<1>2. TypeInv /\ EveryOwedQueued /\ [Next]_vars => EveryOwedQueued'
  BY OwedStep
<1>3. QED
  BY <1>1, <1>2, TypeInit, TypeStep, PTL DEF Spec
-----------------------------------------------------------------------------
(***************************************************************************)
(* What a backfill leaves out is under way.  That takes a worker that does *)
(* not die and statements that do not fail: else a job stays running that  *)
(* nobody holds, and the backfill passes over it.                          *)
(***************************************************************************)
RunningInv ==
  \A j \in DOMAIN analyzeJobs :
    analyzeJobs[j].status = "running" => worker.kind = "analyze" /\ worker.job = j

LEMMA RunningStep ==
  ASSUME "crash" \notin Faults, "db" \notin Faults, TypeInv, RunningInv, [Next]_vars
  PROVE  RunningInv'
<1> SUFFICES ASSUME NEW j \in DOMAIN analyzeJobs', analyzeJobs'[j].status = "running"
             PROVE  worker'.kind = "analyze" /\ worker'.job = j
  BY DEF RunningInv
<1>0. worker \in WorkerStates
  BY WorkerShape
<1>1. j \in DOMAIN analyzeJobs /\ (analyzeJobs[j].status = "running" \/ ClaimAnalyze(j))
  BY JobsStep
<1>2. CASE ClaimAnalyze(j)
  BY <1>1, <1>2, Claimed
<1>3. CASE analyzeJobs[j].status = "running"
  <2>1. worker.kind = "analyze" /\ worker.job = j /\ j # 0
    BY <1>1, <1>3, JobShape DEF RunningInv, TypeInv
  <2>2. worker.at # "turn"
    BY <2>1, WorkerShape
  <2>3. CASE ~Worker /\ ~WorkerCrash
    BY <2>1, <2>3, WorkerStays
  <2>4. CASE ReadConfig \/ ReadVerdict \/ ReadPrevious \/ Judge \/ WriteAnalysis
    <3>1. worker'.kind = worker.kind /\ worker'.job = worker.job
      BY <1>0, <2>4 DEF ReadConfig, ReadVerdict, ReadPrevious, Judge, WriteAnalysis, WorkerGoto,
                        To, WorkerStates
    <3>2. QED
      BY <2>1, <3>1
  <2>5. ~Complete /\ ~Fail
    <3>1. ASSUME NEW step, NEW status \in {"done", "failed"}, Settle(step, status) PROVE FALSE
      <4>1. AJobs!SetStatus(j, status) /\ status \in AJobs!JobStatus /\ status # "running"
        BY <2>1, <3>1 DEF Settle, AJobs!JobStatus
      <4>2. analyzeJobs'[j].status = status
        BY <1>1, <4>1, AJobStatus
      <4>3. QED
        BY <4>1, <4>2
    <3>2. QED
      BY <3>1 DEF Complete, Fail
  <2>6. ~PassTurn /\ ~WorkerCrash /\ (\A i : ~ClaimAnalyze(i) /\ ~ClaimVerify(i))
    BY <2>2 DEF PassTurn, WorkerCrash, ClaimAnalyze, ClaimVerify, WorkerAt
  <2>7. QED
    BY <2>3, <2>4, <2>5, <2>6 DEF Worker
<1>4. QED
  BY <1>1, <1>2, <1>3

LEMMA SelectTakes ==
  ASSUME TypeInv, RunningInv, [Next]_vars, NEW h \in Handlers,
         handler[h].at = "select", handler'[h].at = "insert", NEW p \in papers,
         (Source[p] = "arxiv") = (handler[h].part = "arxiv"),
         TakenBy(handler[h].profile, p)
  PROVE  \/ Analysed(handler[h].profile, p) \/ Underway(handler[h].profile, p)
         \/ p \in handler'[h].todo
<1> DEFINE c == handler[h].profile
           part == handler[h].part
           todo == Eligible(part, c)
           state == [at |-> "insert", part |-> part, profile |-> c, todo |-> todo]
<1>1. BackfillSelect(h)
  <2>1. handler[h] # handler'[h] /\ handler[h] # Idle
    BY DEF Idle
  <2>2. Request(h) \/ Proceed(h) \/ Abort(h)
    BY <2>1, HandlersStep, HandlerOwn
  <2>3. ~Abort(h)
    <3>1. Abort(h) => handler'[h] = Idle
      BY DEF Abort, HandlerGoto, HandlerEnters, TypeInv, TypeOK
    <3>2. QED
      BY <3>1 DEF Idle
  <2>4. QED
    BY <2>1, <2>2, <2>3, HandlerOwn
       DEF Proceed, BackfillInsert, VerifyPaperInsert, AnalyzePaperWrite
<1>2. handler'[h] = state
  BY <1>1 DEF BackfillSelect, HandlerGoto, HandlerEnters, TypeInv, TypeOK
<1>3. Active(analyzeJobs, c, p) => Underway(c, p)
  BY DEF Active, Underway, RunningInv
<1>4. InPart(part, p)
  BY DEF InPart
<1>5. Analysed(c, p) \/ Underway(c, p) \/ p \in todo
  BY <1>3, <1>4 DEF Eligible, Analysed
<1> HIDE DEF todo, part, c
<1>6. handler'[h].todo = todo
  BY <1>2
<1>7. QED
  BY <1>5, <1>6 DEF c

\* What a backfill leaves out of the papers its profile subscribes to is
\* analysed, or a job for it waits or is being run, whatever else is
\* retried, liked, deleted or aborted meanwhile.
THEOREM ReloadsMissNothing ==
  ASSUME "crash" \notin Faults, "db" \notin Faults PROVE Spec => ReloadQueues
<1>1. Init => RunningInv
  BY DEF Init, RunningInv
<1>2. TypeInv /\ RunningInv /\ [Next]_vars =>
        [\A h \in Handlers :
           LET c == handler[h].profile IN
           (handler[h].at = "select" /\ handler'[h].at = "insert" /\ profile[c] = "live")
             => \A p \in papers :
                  (Source[p] = "arxiv") = (handler[h].part = "arxiv") /\ Subscribes(c, p)
                    => Analysed(c, p) \/ Underway(c, p) \/ p \in handler'[h].todo]_vars
  BY SelectTakes DEF TakenBy, Sourceless, Subscribes
<1>3. QED
  BY <1>1, <1>2, TypeInit, TypeStep, RunningStep, PTL DEF Spec, ReloadQueues
=============================================================================
