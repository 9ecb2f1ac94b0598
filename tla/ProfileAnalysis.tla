--------------------------- MODULE ProfileAnalysis ---------------------------
(***************************************************************************)
(* Which papers are analysed for which profiles.  cmd/keyword inserts a    *)
(* paper, routes it to profiles and fails to submit profile_analyze jobs   *)
(* for them; the API creates, updates and deletes profiles, submits jobs   *)
(* for the papers already there (the backfill), analyses one paper itself  *)
(* and submits profile_llm_verify jobs; cmd/worker runs the jobs of both   *)
(* kinds in turn.  An action is one statement, or one transaction.         *)
(***************************************************************************)
EXTENDS Integers, Sequences, FiniteSets, SequencesExt

CONSTANTS
  Profiles,    \* profile ids
  Papers,      \* what may be ingested
  Source,      \* Source[p]: "arxiv" or the feed p is first seen in
  Phrases,     \* Phrases[p]: the keywords that occur in title and abstract
  Configs,     \* the configurations users may save
  ArxivFeeds,  \* the feeds that are served by arXiv
  Decided,     \* the papers that reach the pipeline
  Readers,     \* goroutines of cmd/keyword
  Handlers,    \* concurrent API requests
  Ask,         \* PROFILE_ANALYZE_LLM_SOURCE: "paper" or "profile"
  Faults,      \* which faults may happen, see FaultKinds
  Offered,     \* the API requests besides POST /api/profiles
  MaxRequests  \* bound: API requests

\* "crash": the worker dies; "keyword": cmd/keyword dies; "start": another
\* service is restarted; "db": a statement of keyword or of the worker fails;
\* "disconnect": an API request is cut short, as its client goes away or because
\* a statement of it fails.
FaultKinds == {"crash", "keyword", "start", "db", "disconnect"}

Sources  == UNION {config.sources \cup config.disabled : config \in Configs}
Keywords == UNION {config.keywords : config \in Configs}

\* What profile_configs and profile_sources have of a profile.
Settings == [keywords : SUBSET Keywords, sources : SUBSET Sources,
             disabled : SUBSET Sources]

ASSUME PapersAssumption ==
  /\ DOMAIN Source = Papers /\ DOMAIN Phrases = Papers
  /\ Configs \subseteq Settings
  /\ "arxiv" \notin ArxivFeeds
ASSUME ModeAssumption ==
  Ask \in {"paper", "profile"} /\ Faults \subseteq FaultKinds /\ MaxRequests \in Nat

VARIABLES
  profile,     \* whether the row of profiles is there
  config,      \* its keywords and its sources, in two tables
  due,         \* history: the papers there were when the profile was last saved
               \* or its backfill last requested
  papers,      \* rows of papers
  verdict,     \* papers.llm_relevant
  analysis,    \* rows of profile_paper_analysis
  written,     \* history: the profiles and papers that ever had one
  analyzeJobs, \* rows of jobs of kind profile_analyze
  verifyJobs,  \* and of kind profile_llm_verify
  reader,      \* where each goroutine of keyword is
  cache,       \* its profileKWCache and profileKWHasKeywords
  handler,     \* where each API request is
  worker,      \* where the worker is
  requests     \* bound: requests so far

vars == <<profile, config, due, papers, verdict, analysis, written, analyzeJobs,
          verifyJobs, reader, cache, handler, worker, requests>>

users  == <<profile, config, due>>
corpus == <<papers, verdict>>
rows   == <<analysis, written>>
queues == <<analyzeJobs, verifyJobs>>

AJobs == INSTANCE JobTable WITH jobs <- analyzeJobs
VJobs == INSTANCE JobTable WITH jobs <- verifyJobs

Answer == {"nil", "yes", "no"}
NoRow  == [pass |-> FALSE, llm |-> "none"]
Row    == [pass : BOOLEAN, llm : Answer]
Idle   == [at |-> "idle"]

\* stood is history: the decision in the row of the job when the worker claimed
\* it, or the last one written since and before the worker read the row; "nil"
\* when that is none, when it has changed after it was read, when its reading
\* failed, or when the pipeline has decided on the paper.
Free(kind) == [at |-> "turn", kind |-> kind, job |-> 0, pass |-> FALSE, llm |-> "nil",
               stood |-> "nil"]

\* What keyword remembers of a profile: its keywords once they were read.
Unread == [known |-> FALSE, keywords |-> {}]

\* What the tables profile_configs and profile_sources have of a profile that
\* is not there.
NoConfig == [keywords |-> {}, sources |-> {}, disabled |-> {}]

ReaderStates ==
  {Idle} \cup [at : {"list"}, paper : papers]
         \cup [at : {"bare", "each"}, paper : papers, todo : SUBSET Profiles]
         \cup [at : {"fill"}, paper : papers, todo : SUBSET Profiles,
               profile : Profiles, keywords : SUBSET Keywords]
         \cup [at : {"enqueue"}, paper : papers, todo : SUBSET Profiles,
               profile : Profiles]

HandlerStates ==
  {Idle} \cup [at : {"select"}, part : {"arxiv", "feeds"}, profile : Profiles]
         \cup [at : {"insert"}, part : {"arxiv", "feeds"}, profile : Profiles,
               todo : SUBSET papers]
         \cup [at : {"answer"}, profile : Profiles, paper : papers, pass : BOOLEAN]
         \cup [at : {"verify"}, profile : Profiles, paper : papers]

TypeOK ==
  /\ profile \in [Profiles -> {"new", "live", "deleted"}]
  /\ config \in [Profiles -> Settings]
  /\ due \in [Profiles -> SUBSET papers]
  /\ papers \subseteq Papers
  /\ verdict \in [Papers -> Answer]
  /\ analysis \in [Profiles -> [Papers -> Row \cup {NoRow}]]
  /\ \A c \in Profiles, p \in Papers :
       analysis[c][p] # NoRow => profile[c] = "live" /\ p \in papers
  /\ written \subseteq Profiles \X papers
  /\ analyzeJobs \in Seq(AJobs!Job) /\ verifyJobs \in Seq(VJobs!Job)
  /\ reader \in [Readers -> ReaderStates]
  /\ cache \in [Profiles -> [known : BOOLEAN, keywords : SUBSET Keywords]]
  /\ handler \in [Handlers -> HandlerStates]
  /\ worker \in [at : {"turn", "config", "verdict", "previous", "judge",
                       "upsert", "complete", "fail"},
                 kind : {"analyze", "verify"}, job : Nat, pass : BOOLEAN, llm : Answer,
                 stood : Answer]
  /\ requests \in 0 .. MaxRequests

Init ==
  /\ profile = [c \in Profiles |-> "new"]
  /\ config = [c \in Profiles |-> NoConfig]
  /\ due = [c \in Profiles |-> {}]
  /\ papers = {}
  /\ verdict = [p \in Papers |-> "nil"]
  /\ analysis = [c \in Profiles |-> [p \in Papers |-> NoRow]]
  /\ written = {}
  /\ analyzeJobs = << >> /\ verifyJobs = << >>
  /\ reader = [r \in Readers |-> Idle]
  /\ cache = [c \in Profiles |-> Unread]
  /\ handler = [h \in Handlers |-> Idle]
  /\ worker = Free("analyze")
  /\ requests = 0

-----------------------------------------------------------------------------
\* MatchText: some keyword of the profile occurs in the paper.
Matches(keywords, p) == keywords \cap Phrases[p] # {}

\* No row of profile_sources, enabled or not.
Sourceless(c) == config[c].sources \cup config[c].disabled = {}

Bare == {c \in Profiles : profile[c] = "live" /\ Sourceless(c)}

\* A row of profile_paper_analysis refers to its profile.
Upsert(c, p, row) ==
  /\ analysis' = [analysis EXCEPT ![c][p] = row]
  /\ written' = written \cup {<<c, p>>}

-----------------------------------------------------------------------------
(***************************************************************************)
(* cmd/keyword: reader, once a paper has passed the gates.                 *)
(***************************************************************************)
ReaderGoto(r, state) ==
  /\ reader' = [reader EXCEPT ![r] = state]
  /\ UNCHANGED <<users, verdict, rows, queues, handler, worker, requests>>

\* InsertAfterKeyword.
KeywordInsert(r, p) ==
  /\ reader[r] = Idle /\ p \notin papers
  /\ papers' = papers \cup {p}
  /\ ReaderGoto(r, [at |-> "list", paper |-> p])
  /\ UNCHANGED cache

\* ListProfileIDsForArxivRouting or ListProfileIDsForRSSRouting.
KeywordList(r) ==
  /\ reader[r].at = "list"
  /\ LET p == reader[r].paper
         subscribed == {c \in Profiles : Source[p] \in config[c].sources} IN
       \E todo \in {subscribed} \cup (IF "db" \in Faults THEN {{}} ELSE {}) :
         ReaderGoto(r, [at |-> "bare", paper |-> p, todo |-> todo])
  /\ UNCHANGED <<papers, cache>>

\* ListBareProfileIDs.
KeywordListBare(r) ==
  /\ reader[r].at = "bare"
  /\ \E bare \in {Bare} \cup (IF "db" \in Faults THEN {{}} ELSE {}) :
       ReaderGoto(r, [reader[r] EXCEPT !.at = "each", !.todo = @ \cup bare])
  /\ UNCHANGED <<papers, cache>>

\* Back to the other profiles, which a Go map lists in any order.
Without(r, c) ==
  [at |-> "each", paper |-> reader[r].paper, todo |-> reader[r].todo \ {c}]

\* After the match of the paper with the keywords of c.
Matched(r, c, keywords) ==
  IF Matches(keywords, reader[r].paper)
  THEN [at |-> "enqueue", paper |-> reader[r].paper,
        todo |-> reader[r].todo \ {c}, profile |-> c]
  ELSE Without(r, c)

KeywordCached(r, c) ==
  /\ reader[r].at = "each" /\ c \in reader[r].todo
  /\ cache[c].known
  /\ ReaderGoto(r, Matched(r, c, cache[c].keywords))
  /\ UNCHANGED <<papers, cache>>

\* Not in the cache: GetProfileConfig, outside the lock.
KeywordConfig(r, c) ==
  /\ reader[r].at = "each" /\ c \in reader[r].todo
  /\ ~cache[c].known
  /\ \/ ReaderGoto(r, [at |-> "fill", paper |-> reader[r].paper,
                       todo |-> reader[r].todo \ {c}, profile |-> c,
                       keywords |-> config[c].keywords])
     \/ "db" \in Faults /\ ReaderGoto(r, Without(r, c))
  /\ UNCHANGED <<papers, cache>>

\* Nothing ever takes an entry out of the cache again.
KeywordFill(r) ==
  /\ reader[r].at = "fill"
  /\ LET c == reader[r].profile
         keywords == reader[r].keywords IN
       /\ cache' = [cache EXCEPT ![c] = [known |-> TRUE, keywords |-> keywords]]
       /\ ReaderGoto(r, Matched(r, c, keywords))
  /\ UNCHANGED papers

\* EnqueueProfileAnalyzeJob.  Postgres is given no type for the parameters of
\* jsonb_build_object and refuses to prepare the statement: no row is inserted,
\* the error is logged, and the loop goes on with the next profile.
KeywordEnqueue(r) ==
  /\ reader[r].at = "enqueue"
  /\ ReaderGoto(r, Without(r, reader[r].profile))
  /\ UNCHANGED <<papers, cache>>

\* No job was queued: nothing goes to the pipeline either.
KeywordDone(r) ==
  /\ reader[r].at = "each" /\ reader[r].todo = {}
  /\ ReaderGoto(r, Idle)
  /\ UNCHANGED <<papers, cache>>

\* A service that starts runs all migrations, and the third of them takes every
\* verdict back.
Migrate == verdict' = [p \in Papers |-> "nil"]

KeywordCrash ==
  /\ "keyword" \in Faults
  /\ \E r \in Readers : reader[r] # Idle
  /\ reader' = [r \in Readers |-> Idle]
  /\ cache' = [c \in Profiles |-> Unread]
  /\ Migrate
  /\ UNCHANGED <<users, papers, rows, queues, handler, worker, requests>>

\* Another service starts.
Start ==
  /\ "start" \in Faults
  /\ \E p \in Papers : verdict[p] # "nil"
  /\ Migrate
  /\ UNCHANGED <<users, papers, rows, queues, reader, cache, handler, worker, requests>>

\* cmd/pipeline decides on a paper it is sent: not by keyword, as things are.
Decide(p, answer) ==
  /\ p \in papers \cap Decided /\ verdict[p] = "nil"
  /\ verdict' = [verdict EXCEPT ![p] = answer]
  /\ UNCHANGED <<users, papers, rows, queues, reader, cache,
                 handler, worker, requests>>

-----------------------------------------------------------------------------
(***************************************************************************)
(* The API.  A request belongs to the owner of the profile.                *)
(***************************************************************************)
HandlerEnters(h, state) ==
  /\ handler' = [handler EXCEPT ![h] = state]
  /\ UNCHANGED <<corpus, reader, cache>>

HandlerGoto(h, state) == HandlerEnters(h, state) /\ UNCHANGED worker

\* A request arrives.
Arrives(h) ==
  /\ handler[h] = Idle
  /\ requests < MaxRequests /\ requests' = requests + 1

Backfill(part, c) == [at |-> "select", part |-> part, profile |-> c]

\* What the backfill that starts now has to see.
Note(c) == due' = [due EXCEPT ![c] = papers]

\* The new rows of profile_configs and profile_sources.
Save(c, new) == config' = [config EXCEPT ![c] = new] /\ Note(c)

\* CreateProfile, one transaction, which stores every source as enabled; then
\* the backfill.
CreateProfile(h, c, new) ==
  /\ Arrives(h)
  /\ profile[c] = "new"
  /\ profile' = [profile EXCEPT ![c] = "live"]
  /\ Save(c, [new EXCEPT !.sources = @ \cup new.disabled, !.disabled = {}])
  /\ HandlerGoto(h, Backfill("arxiv", c))
  /\ UNCHANGED <<rows, queues>>

\* Mutant of UpdateProfile: no backfill.
UpdateProfileOnly(h, c, new) ==
  /\ Arrives(h)
  /\ profile[c] = "live"
  /\ Save(c, new)
  /\ HandlerGoto(h, Idle)
  /\ UNCHANGED <<profile, rows, queues>>

UpdateProfile(h, c, new) ==
  /\ Arrives(h)
  /\ profile[c] = "live"
  /\ Save(c, new)
  /\ HandlerGoto(h, Backfill("arxiv", c))
  /\ UNCHANGED <<profile, rows, queues>>

\* Configuration, sources and analyses go with the profile, its jobs stay.
DeleteProfile(h, c) ==
  /\ Arrives(h)
  /\ profile[c] = "live"
  /\ profile' = [profile EXCEPT ![c] = "deleted"]
  /\ config' = [config EXCEPT ![c] = NoConfig]
  /\ analysis' = [analysis EXCEPT ![c] = [p \in Papers |-> NoRow]]
  /\ HandlerGoto(h, Idle)
  /\ UNCHANGED <<due, written, queues>>

\* POST /api/profiles/{id}/analysis/backfill
RequestBackfill(h, c) ==
  /\ Arrives(h)
  /\ profile[c] = "live"
  /\ Note(c)
  /\ HandlerGoto(h, Backfill("arxiv", c))
  /\ UNCHANGED <<profile, config, rows, queues>>

\* The profile_analyze job of a like.
Like(h, c, p) ==
  /\ Arrives(h)
  /\ profile[c] = "live" /\ p \in papers
  /\ AJobs!Enqueue(c, p)
  /\ HandlerGoto(h, Idle)
  /\ UNCHANGED <<users, rows, verifyJobs>>

Active(jobs, c, p) ==
  \E j \in DOMAIN jobs : /\ jobs[j].profile = c /\ jobs[j].paper = p
                         /\ jobs[j].status \in {"pending", "running"}

InPart(part, p) == (part = "arxiv") = (Source[p] = "arxiv")

\* Mutant of TakenBy: the feeds of arXiv are like any other.
TakenBySource(c, p) == Sourceless(c) \/ Source[p] \in config[c].sources

\* A profile without sources, and so a profile that is gone, takes all papers.
TakenBy(c, p) ==
  \/ Sourceless(c)
  \/ Source[p] \in config[c].sources
  \/ Source[p] = "arxiv" /\ config[c].sources \cap ArxivFeeds # {}

\* The papers one of the two INSERT .. SELECT statements selects.
Eligible(part, c) ==
  {p \in papers : /\ InPart(part, p) /\ TakenBy(c, p)
                  /\ analysis[c][p] = NoRow
                  /\ ~Active(analyzeJobs, c, p)}

BackfillSelect(h) ==
  /\ handler[h].at = "select"
  /\ LET part == handler[h].part
         c == handler[h].profile IN
       HandlerGoto(h, [at |-> "insert", part |-> part, profile |-> c,
                       todo |-> Eligible(part, c)])
  /\ UNCHANGED <<users, rows, queues, requests>>

\* Mutant of BackfillInsert: the papers of feeds are left out.
BackfillInsertOnce(h) ==
  /\ handler[h].at = "insert"
  /\ LET c == handler[h].profile
         added == [k \in 1 .. Cardinality(handler[h].todo) |->
                    [profile |-> c, paper |-> SetToSeq(handler[h].todo)[k],
                     status |-> "pending"]] IN
       analyzeJobs' = analyzeJobs \o added
  /\ HandlerGoto(h, Idle)
  /\ UNCHANGED <<users, rows, verifyJobs, requests>>

\* A statement does not see what others insert after its snapshot.
BackfillInsert(h) ==
  /\ handler[h].at = "insert"
  /\ LET c == handler[h].profile
         added == [k \in 1 .. Cardinality(handler[h].todo) |->
                    [profile |-> c, paper |-> SetToSeq(handler[h].todo)[k],
                     status |-> "pending"]] IN
       /\ analyzeJobs' = analyzeJobs \o added
       /\ HandlerGoto(h, IF handler[h].part = "arxiv"
                         THEN Backfill("feeds", c) ELSE Idle)
  /\ UNCHANGED <<users, rows, verifyJobs, requests>>

\* handleAnalyzePaper reads the paper and the configuration, asks the model
\* when the profile has a prompt ...
AnalyzePaper(h, c, p) ==
  /\ Arrives(h)
  /\ profile[c] = "live" /\ p \in papers
  /\ HandlerGoto(h, [at |-> "answer", profile |-> c, paper |-> p,
                     pass |-> Matches(config[c].keywords, p)])
  /\ UNCHANGED <<users, rows, queues>>

\* The job the worker holds.
Job == IF worker.kind = "analyze" THEN analyzeJobs[worker.job] ELSE verifyJobs[worker.job]

WorkerHolds(c, p) == worker.job # 0 /\ Job.profile = c /\ Job.paper = p

\* The decision that stands after the API has written one.
Standing(answer) ==
  IF worker.at \in {"config", "verdict", "previous"} \/ answer = worker.stood
  THEN answer ELSE "nil"

\* ... and writes the row.
AnalyzePaperWrite(h, answer) ==
  /\ handler[h].at = "answer"
  /\ IF profile[handler[h].profile] = "live"
     THEN Upsert(handler[h].profile, handler[h].paper,
                 [pass |-> handler[h].pass, llm |-> answer])
     ELSE UNCHANGED rows
  /\ worker' = IF WorkerHolds(handler[h].profile, handler[h].paper)
               THEN [worker EXCEPT !.stood = Standing(answer)] ELSE worker
  /\ HandlerEnters(h, Idle)
  /\ UNCHANGED <<users, queues, requests>>

\* EnqueueProfileLLMVerifyJob: the NOT EXISTS and the insert of one statement.
VerifyPaper(h, c, p) ==
  /\ Arrives(h)
  /\ profile[c] = "live" /\ p \in papers
  /\ HandlerGoto(h, IF Active(verifyJobs, c, p) THEN Idle
                    ELSE [at |-> "verify", profile |-> c, paper |-> p])
  /\ UNCHANGED <<users, rows, queues>>

VerifyPaperInsert(h) ==
  /\ handler[h].at = "verify"
  /\ VJobs!Enqueue(handler[h].profile, handler[h].paper)
  /\ HandlerGoto(h, Idle)
  /\ UNCHANGED <<users, rows, analyzeJobs, requests>>

\* POST /api/jobs/{id}/retry, whatever the status.
RetryAnalyze(h, j) ==
  /\ Arrives(h)
  /\ AJobs!RetryJob(j)
  /\ HandlerGoto(h, Idle)
  /\ UNCHANGED <<users, rows, verifyJobs>>

RetryVerify(h, j) ==
  /\ Arrives(h)
  /\ VJobs!RetryJob(j)
  /\ HandlerGoto(h, Idle)
  /\ UNCHANGED <<users, rows, analyzeJobs>>

\* A client that goes away cancels what is left of its request, and a statement
\* that fails ends it; the errors of a backfill are not looked at.
Abort(h) ==
  /\ "disconnect" \in Faults
  /\ handler[h] # Idle
  /\ HandlerGoto(h, Idle)
  /\ UNCHANGED <<users, rows, queues, requests>>

-----------------------------------------------------------------------------
(***************************************************************************)
(* cmd/worker: processOneProfileAnalyzeJob and processOneProfileLLMVerify- *)
(* Job, in turn.                                                           *)
(***************************************************************************)
WorkerGoto(state) ==
  /\ worker' = state
  /\ UNCHANGED <<users, corpus, reader, cache, handler, requests>>

WorkerAt(step) == worker.at = step
To(step) == [worker EXCEPT !.at = step]
NextTurn(kind) == Free(IF kind = "analyze" THEN "verify" ELSE "analyze")

ClaimAnalyze(j) ==
  /\ WorkerAt("turn") /\ worker.kind = "analyze"
  /\ AJobs!ClaimJob(j)
  /\ LET row == analysis[analyzeJobs[j].profile][analyzeJobs[j].paper] IN
       WorkerGoto([worker EXCEPT !.at = "config", !.job = j,
                                 !.stood = IF row = NoRow THEN "nil" ELSE row.llm])
  /\ UNCHANGED <<rows, verifyJobs>>

ClaimVerify(j) ==
  /\ WorkerAt("turn") /\ worker.kind = "verify"
  /\ VJobs!ClaimJob(j)
  /\ WorkerGoto([worker EXCEPT !.at = "config", !.job = j])
  /\ UNCHANGED <<rows, analyzeJobs>>

\* No job of this kind is pending.
PassTurn ==
  /\ WorkerAt("turn")
  /\ IF worker.kind = "analyze" THEN AJobs!Pending = {} ELSE VJobs!Pending = {}
  /\ WorkerGoto(NextTurn(worker.kind))
  /\ UNCHANGED <<rows, queues>>

\* GetProfileConfig takes a missing profile for an empty one; a verify job has
\* looked for the profile before.
ReadConfig ==
  /\ WorkerAt("config")
  /\ LET found == profile[Job.profile] = "live" IN
       \/ /\ worker.kind = "verify" => found
          /\ WorkerGoto([worker EXCEPT
               !.at = IF worker.kind = "analyze" /\ Ask = "paper" THEN "verdict" ELSE "judge",
               !.pass = Matches(config[Job.profile].keywords, Job.paper)])
       \/ /\ (worker.kind = "verify" /\ ~found) \/ "db" \in Faults
          /\ WorkerGoto(To("fail"))
  /\ UNCHANGED <<rows, queues>>

\* GetPaperRow: the decision of the pipeline comes first ...
ReadVerdict ==
  /\ WorkerAt("verdict")
  /\ WorkerGoto([worker EXCEPT
       !.at = IF verdict[Job.paper] = "nil" THEN "previous" ELSE "upsert",
       !.llm = verdict[Job.paper],
       !.stood = IF verdict[Job.paper] = "nil" THEN @ ELSE "nil"])
  /\ UNCHANGED <<rows, queues>>

\* Mutant of ReadPrevious: the earlier row is not looked at.
ReadPreviousNever ==
  /\ WorkerAt("previous")
  /\ WorkerGoto(To("upsert"))
  /\ UNCHANGED <<rows, queues>>

\* ... then the one the profile already has.
ReadPrevious ==
  /\ WorkerAt("previous")
  /\ LET row == analysis[Job.profile][Job.paper] IN
       \/ WorkerGoto([worker EXCEPT !.at = "upsert",
                        !.llm = IF row = NoRow THEN "nil" ELSE row.llm])
       \/ "db" \in Faults /\ WorkerGoto([worker EXCEPT !.at = "upsert", !.stood = "nil"])
  /\ UNCHANGED <<rows, queues>>

\* The model is asked, or does not answer; a verify job needs the PDF first.
Judge ==
  /\ WorkerAt("judge")
  /\ \/ \E answer \in Answer : WorkerGoto([worker EXCEPT !.at = "upsert", !.llm = answer])
     \/ worker.kind = "verify" /\ WorkerGoto(To("fail"))
  /\ UNCHANGED <<rows, queues>>

\* Mutant of WriteAnalysis: its error is not looked at.
WriteAnalysisUnchecked ==
  /\ WorkerAt("upsert")
  /\ \/ /\ profile[Job.profile] = "live"
        /\ Upsert(Job.profile, Job.paper, [pass |-> worker.pass, llm |-> worker.llm])
     \/ /\ profile[Job.profile] # "live" \/ "db" \in Faults
        /\ UNCHANGED rows
  /\ WorkerGoto(To("complete"))
  /\ UNCHANGED queues

\* UpsertProfilePaperAnalysis, which fails when the profile is gone.
WriteAnalysis ==
  /\ WorkerAt("upsert")
  /\ \/ /\ profile[Job.profile] = "live"
        /\ Upsert(Job.profile, Job.paper, [pass |-> worker.pass, llm |-> worker.llm])
        /\ WorkerGoto(To("complete"))
     \/ /\ profile[Job.profile] # "live" \/ "db" \in Faults
        /\ WorkerGoto(To("fail"))
        /\ UNCHANGED rows
  /\ UNCHANGED queues

\* CompleteJob and FailJob, whose errors are dropped.
Settle(step, status) ==
  /\ WorkerAt(step)
  /\ \/ /\ worker.kind = "analyze"
        /\ AJobs!SetStatus(worker.job, status) /\ UNCHANGED verifyJobs
     \/ /\ worker.kind = "verify"
        /\ VJobs!SetStatus(worker.job, status) /\ UNCHANGED analyzeJobs
     \/ "db" \in Faults /\ UNCHANGED queues
  /\ WorkerGoto(NextTurn(worker.kind))
  /\ UNCHANGED rows

Complete == Settle("complete", "done")
Fail     == Settle("fail", "failed")

\* The worker dies and is restarted: its job stays running.
WorkerCrash ==
  /\ "crash" \in Faults
  /\ worker.job # 0
  /\ worker' = Free("analyze")
  /\ Migrate
  /\ UNCHANGED <<users, papers, rows, queues, reader, cache, handler, requests>>

-----------------------------------------------------------------------------
Keyword(r) ==
  \/ KeywordList(r) \/ KeywordListBare(r)
  \/ \E c \in Profiles : KeywordCached(r, c) \/ KeywordConfig(r, c)
  \/ KeywordFill(r) \/ KeywordEnqueue(r) \/ KeywordDone(r)

Request(h) ==
  \/ \E c \in Profiles :
       \/ "delete" \in Offered /\ DeleteProfile(h, c)
       \/ "backfill" \in Offered /\ RequestBackfill(h, c)
       \/ \E new \in Configs :
            CreateProfile(h, c, new) \/ ("update" \in Offered /\ UpdateProfile(h, c, new))
       \/ \E p \in papers :
            \/ "like" \in Offered /\ Like(h, c, p)
            \/ "analyze" \in Offered /\ AnalyzePaper(h, c, p)
            \/ "verify" \in Offered /\ VerifyPaper(h, c, p)
  \/ "retry" \in Offered /\ \E j \in DOMAIN analyzeJobs : RetryAnalyze(h, j)
  \/ "retry" \in Offered /\ \E j \in DOMAIN verifyJobs : RetryVerify(h, j)

Proceed(h) ==
  \/ BackfillSelect(h) \/ BackfillInsert(h) \/ VerifyPaperInsert(h)
  \/ \E answer \in Answer : AnalyzePaperWrite(h, answer)

Worker ==
  \/ \E j \in DOMAIN analyzeJobs : ClaimAnalyze(j)
  \/ \E j \in DOMAIN verifyJobs : ClaimVerify(j)
  \/ PassTurn \/ ReadConfig \/ ReadVerdict \/ ReadPrevious \/ Judge
  \/ WriteAnalysis \/ Complete \/ Fail

Next ==
  \/ \E r \in Readers : (\E p \in Papers : KeywordInsert(r, p)) \/ Keyword(r)
  \/ KeywordCrash \/ Start
  \/ \E p \in Papers, answer \in {"yes", "no"} : Decide(p, answer)
  \/ \E h \in Handlers : Request(h) \/ Proceed(h) \/ Abort(h)
  \/ Worker \/ WorkerCrash

Spec == Init /\ [][Next]_vars

\* Goroutines and requests run on, the worker's ticker fires.
Fairness ==
  /\ \A r \in Readers : WF_vars(Keyword(r))
  /\ \A h \in Handlers : WF_vars(Proceed(h))
  /\ WF_vars(Worker)

FairSpec == Spec /\ Fairness

-----------------------------------------------------------------------------
\* The papers a profile subscribes to: those of its enabled sources, the arXiv
\* papers with a feed arXiv serves, all papers without any source.
Subscribes(c, p) ==
  LET from == config[c].sources IN
    \/ from = {} /\ config[c].disabled = {}
    \/ Source[p] \in from
    \/ Source[p] = "arxiv" /\ from \cap ArxivFeeds # {}

Analysed(c, p) == analysis[c][p] # NoRow

Submitted(c, p) ==
  \E j \in DOMAIN analyzeJobs : analyzeJobs[j].profile = c /\ analyzeJobs[j].paper = p

\* A backfill has yet to come to c and p.
Coming(c, p) ==
  \E h \in Handlers :
    /\ handler[h].at \in {"select", "insert"} /\ handler[h].profile = c
    /\ \/ handler[h].at = "select" /\ InPart(handler[h].part, p)
       \/ handler[h].at = "insert" /\ p \in handler[h].todo
       \/ handler[h].part = "arxiv" /\ Source[p] # "arxiv"

\* The papers a profile has to show: those there were when it was last saved or
\* its backfill last requested.
Owed(c, p) == profile[c] = "live" /\ p \in due[c] /\ Subscribes(c, p)

\* Each of them is analysed, submitted, or ahead of a backfill that runs, while
\* other requests change the profile, papers come in and the worker runs: the
\* profile is saved before its papers are looked for, and what one backfill
\* leaves out because of another has been submitted.
EveryOwedQueued ==
  \A c \in Profiles, p \in Papers :
    Owed(c, p) => Analysed(c, p) \/ Submitted(c, p) \/ Coming(c, p)

\* A job for p that waits or that the worker holds.
Underway(c, p) ==
  \E j \in DOMAIN analyzeJobs :
    /\ analyzeJobs[j].profile = c /\ analyzeJobs[j].paper = p
    /\ \/ analyzeJobs[j].status = "pending"
       \/ worker.kind = "analyze" /\ worker.job = j

\* What a backfill leaves out of the papers its profile subscribes to is
\* analysed, or will be without it.
ReloadQueues ==
  [][\A h \in Handlers :
       LET c == handler[h].profile IN
       (handler[h].at = "select" /\ handler'[h].at = "insert" /\ profile[c] = "live")
         => \A p \in papers :
              (Source[p] = "arxiv") = (handler[h].part = "arxiv") /\ Subscribes(c, p)
                => Analysed(c, p) \/ Underway(c, p) \/ p \in handler'[h].todo]_vars

\* A job that is done has left a row, which is still there unless the profile
\* has been deleted; a job that outlives its profile is done only if it wrote
\* the row before.
DoneHasRow ==
  \A j \in DOMAIN analyzeJobs :
    LET c == analyzeJobs[j].profile
        p == analyzeJobs[j].paper IN
    analyzeJobs[j].status = "done" =>
      <<c, p>> \in written /\ (profile[c] = "live" => Analysed(c, p))

\* A profile_analyze job leaves every decision as it is: of its own row the one
\* that stood when it read the row, of the others any, whoever writes the rows
\* while it runs.  The pipeline's verdict on the paper comes first, and what is
\* written after the worker has read the row is another matter.
DecisionPreserved ==
  [][(worker.kind = "analyze" /\ worker.at = "upsert" /\ worker'.at # "upsert") =>
       \A c \in Profiles, p \in Papers :
         (/\ analysis[c][p].llm \in {"yes", "no"}
          /\ WorkerHolds(c, p) => worker.stood = analysis[c][p].llm)
           => analysis'[c][p].llm = analysis[c][p].llm]_vars

\* Every paper a profile has to show is analysed in the end, unless the profile
\* changes.
EveryOwedAnalysed ==
  \A c \in Profiles, p \in Papers :
    Owed(c, p) ~> (Analysed(c, p) \/ ~Owed(c, p))

-----------------------------------------------------------------------------
\* What docs/filtering-strategy.md says: a paper that comes from a source of a
\* profile, and has one of its keywords, is submitted automatically.
SourceMatchedQueued ==
  \A c \in Profiles, p \in Papers :
    LET matched == /\ profile[c] = "live" /\ p \in papers
                   /\ Source[p] \in config[c].sources
                   /\ config[c].keywords \cap Phrases[p] # {} IN
    matched ~> (Submitted(c, p) \/ ~matched)
=============================================================================
