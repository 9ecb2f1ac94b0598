# mr-cgdb: TLA+ models, checks and proofs

mr-cgdb collects papers from arXiv and from RSS feeds, stores them in Postgres,
scores them with local models, and lets the users of a web interface follow the
papers that match their profiles and read the PDF files of those they like. This directory holds
TLA+ modules of the parts of it that run concurrently or can fail half-way,
configurations that check them with TLC, and theorems that TLAPS proves about
them. Paths below are those of the repository, under `src/`.

- [1. The system](#1-the-system)
- [2. The modules](#2-the-modules)
- [3. Runs](#3-runs)
- [4. Where the code and what is said of it differ](#4-where-the-code-and-what-is-said-of-it-differ)
- [5. Bounds and fairness](#5-bounds-and-fairness)
- [6. Proofs](#6-proofs)
- [7. What is not modelled](#7-what-is-not-modelled)
- [8. Plan](#8-plan)

To check a run: `tlc -config PdfCache.cfg PdfCache`. To check the proofs of a
module: `tlapm PdfCacheProofs.tla`. `PROJECT.json` lists the runs with their modules,
the mutants of each property, and the source lines of each definition.

## 1. The system

### 1.1 Processes

`docker-compose.yml` starts one instance of each service, with
`restart: unless-stopped`. All of them share one Postgres database, and each runs
all migrations when it starts (`internal/store/store.go` `migrate`).

    arXiv <--- arxiv-watcher --TCP--+
                                    +--> dedup --TCP--> keyword --TCP--> pipeline --> Ollama
    feeds <--- rss-watcher ---TCP---+      |               |                |
    arXiv <--- api (admin rescan) --TCP----+               |                |
                 |                                         |                |
                 +----------------- Postgres --------------+----------------+
                                       |
                                     worker --> PDF files, Ollama, pdfx

The TCP links carry frames (`internal/wire`): a write succeeds once the frame is in a
buffer of the kernel, and nothing is acknowledged. A process that dies takes
with it what it had read but not finished and what others had written to it.

### 1.2 Components

For each: its state, its operations, what is hard about it, and what makes it
correct. The modules are in section 2.

**PDF cache** (`cmd/worker` 412-514, `internal/store/likes_jobs_files.go`, handlers of
`cmd/api`). State: `profile_paper_likes`, `paper_files` (queued, ready, missing,
failed), the `jobs` of kind `pdf_download`, the files in `PDF_STORAGE_DIR`, and the position of the
worker's single goroutine. Operations: like (four statements without a
transaction), unlike, deletion of a profile, retry of a job, the download job,
the cleanup every six hours. Hard: requests run between any two statements of
the worker; the worker may die between a claim and its settlement, or between
the removal of a file and the statement that says so; errors of several
statements, and of the removal itself, are dropped. Correct when: a ready row has its file and a file its row; nobody's like is
forgotten; a file that somebody likes, or liked until recently, is kept; files
that nobody likes are given back; jobs settle; and what a fault breaks is the paper it meets.

**Ingest** (`cmd/dedup`, `cmd/keyword`, `internal/wire`, `internal/store/papers.go`, `handleAddManualLikePaper` in `cmd/api`).
State: the table `papers` with its three identities (arXiv id, DOI, weak key) and
its source labels; in each of dedup and keyword one goroutine for each incoming
connection, and in dedup one outgoing connection that they share under a mutex.
Operations: look up, merge a label, or forward; gate
by title, insert. Hard: lookup and insert are in two different
services; the outgoing connection is used outside of the critical section that
dialled it; merges of labels are a read and a write; users type in papers past both services. Correct when: no item is lost
between lookup and insert, a fault loses only the frames it meets, a row keeps its labels, and nothing but the
death of the receiver leaves a goroutine with a nil connection.

**Watchers** (`cmd/arxiv-watcher`, `cmd/rss-watcher`, `internal/arxiv`, `internal/rssx`).
State: a cursor in Postgres for arXiv and for each feed, a connection to dedup.
Operations: fetch the newest page or each feed in turn, write what is new to
dedup, move the cursor. Hard: the cursor moves after the frames, and not
atomically with their processing; entries share dates, lack dates, are revised,
and are announced late; one dead feed shares its connection with the others.
Correct when: a cursor passes nothing that dedup has not received, and never
moves back.

**Profile analysis** (`cmd/keyword` 94-256, `cmd/worker` 76-342, the profile
handlers of `cmd/api`, `internal/store/profile_routing.go`). State: profiles with
keywords and sources, `profile_paper_analysis`, the `jobs` of kinds `profile_analyze` and
`profile_llm_verify`, keyword's cache of keywords. Operations: routing of a new
paper; create, change, delete a profile; backfill; analysis and verification of one paper by
request or by job. Hard: three processes write the same rows; a profile is saved, and its papers are looked for in two later
statements, while other requests change it; a profile disappears under a job; the cache is never invalidated; the statement by which keyword queues a job is refused
whenever it is run, so that a paper is analysed for a profile only by way of a backfill, a like or a request. Correct when: each paper a profile has to show is analysed, a
job that is done has left its row, and no decision is erased or changed by a job that saw it.

**Limiter of arXiv requests** (`internal/arxiv/ratelimit.go`, `internal/arxiv/arxiv.go`,
`internal/store/arxiv_lock.go`). State: the pool of connections of each process,
a Postgres advisory lock, the earliest next time of each process. Operations:
acquire, lock, wait, send, retry after a rejection, release. Hard: the lock is
held by a pooled session across several attempts; the pause is per process; a
cancellation may come anywhere. Correct when: one request is in flight at a
time, the pauses are kept, and everybody gets a turn.

**Admin rescan** (`cmd/api` 838-978, `internal/arxiv/daterange.go`). State: index and size of the page,
the entries still to write. Hard: the size shrinks after a 429, arXiv
inserts entries between two pages, and a short page ends the loop. Correct when:
pages leave no gap, and a rescan that ends at a short page has sent all. One that is capped or cancelled answers ok too.

**Pipeline scoring and migrations** (`internal/pipeline/processor.go`, `internal/store/updates.go`,
`internal/store/store.go`, `internal/store/sql/003_*.sql`). State: the score columns of a paper. Hard:
attempts, deadlines and model pulls; every start of any service resets the verdicts.
Correct when: the columns agree with each other, and each paper gets a score or an
error.

**Accounts, sessions, ownership** (`cmd/api` 250-463, 629-654, 774-836, 980-1031, 1079-1174,
`internal/store/auth_profiles.go`). State: the tables `users`, `sessions`, `profiles` and the owner of each job;
what a request in flight has found out. Operations: register (the first user becomes the
administrator), log in and out, delete the account, create, change and delete a profile, submit and retry jobs, look at a profile.
Hard: each request is authenticated, checked and carried out by separate statements, without a transaction around them, and the
rows cascade. Correct when: there is one administrator unless two registered side by side; no row outlives its account;
what was checked is still true at the last statement, or was undone meanwhile; nobody changes what is not theirs.

**Public PDFs** (`handleServePublicPDF`, `cmd/api` 1033-1068). State: none but the request's. Operations: rate limit, visibility,
row of the file, `os.Stat`, `http.ServeFile`. Hard: four steps between which the worker removes, downloads and
marks. Correct when: what a ready row says can be believed, but for the cleanup's own instant.

**Helpers** (`chunkText` in `cmd/worker`, `parseBibTeX` in `internal/seed`, `normalizeFeedURLForMatch` and the SQL expression it
must agree with in `internal/store/profile_routing.go`, `allowRate` in `cmd/api`). Pure functions, but for the counters of the
rate limit. Hard: boundaries. Correct when they compute what their callers take them for.

**Not modelled:** the clients of Ollama and pdfx; unused store functions; web interface and plumbing. See section 7.

### 1.3 Interactions

| from | to | by | state shared |
|---|---|---|---|
| watchers, rescan | dedup | frames | cursors, written after the frames |
| dedup | keyword | frames | `papers`: dedup looks up, keyword inserts |
| keyword | pipeline | frames, of papers it has queued a job for: none as the code stands | the row of the paper |
| keyword | worker | `profile_analyze` jobs, by a statement that is refused | `jobs`, `profile_paper_analysis` |
| api | dedup, keyword | none: papers that users type in are inserted past them | `papers` |
| api | worker | jobs of all kinds, likes | `paper_files`, `profile_paper_analysis` |
| api | keyword | none: keyword reads `profile_configs` once | keyword's cache |
| worker | api | files on disk, served to the public | `paper_files` |
| api | api | requests of the same user, or about the same profile | `users`, `sessions`, `profiles`, `jobs` |
| arxiv-watcher | api | the advisory lock | who may send to arXiv |
| any start | all | migrations | the verdicts in `papers` |

The hazards of these interactions are listed one by one, at their lines and with the
properties that cover them, in `PROJECT.json`.

## 2. The modules

Every action is one SQL statement, one transaction, one operation on a file
or a socket, or one critical section: whatever is wider is not atomic in the
code. Faults are sets of strings in a constant `Faults`, so that each run says
which ones it admits and each theorem which ones it excludes. Where a run must stay finite, or a
property holds up to the first fault, the variable `faults` counts them up to `MaxFaults`.
A property that a fault excuses says so in its own formula, by `faults` or by
a history variable that records just that fault. Variables marked
`history` exist only for properties, those marked `bound` only to keep TLC finite.

| module | models | extends or instantiates |
|---|---|---|
| `JobTable` | the rows of one kind of `jobs`, and the statements on them | |
| `JobLifecycle` | abstract: what the table promises of one worker's jobs | |
| `PdfCache` | the PDF cache, with requests, worker, cleanup and faults | `JobTable`; `JobLifecycle` as what it implements |
| `SharedConn` | an outgoing connection shared by goroutines | |
| `Ingest` | from a watcher's frame, or what a user types in, to the row | `SharedConn`: dedup to keyword |
| `CursorOrder` | the comparisons of `internal/arxiv` and `internal/rssx` | |
| `ArxivWatcher`, `RssWatcher` | the two watchers | `CursorOrder` |
| `ProfileAnalysis` | routing, backfill, analysis and verify jobs | `JobTable` twice: one per kind of job |
| `ArxivLimiter` | pool, lock and pacing of requests to arXiv | |
| `Rescan` | the page loop of the admin rescan | |
| `Scoring` | `Processor.Process`, with migrations in between | |
| `PublicPdf` | a client that fetches public PDFs, composed with the PDF cache | `PdfCache` |
| `Accounts` | users, sessions, ownership and the requests about them | |
| `Helpers` | pure functions and their reference definitions | |
| `PdfCacheProofs` | theorems about the PDF cache and its public reader | `PublicPdf`, `TLAPS` |
| `IngestProofs`, `ArxivWatcherProofs`, `RssWatcherProofs`, `ProfileAnalysisProofs`, `AccountsProofs` | theorems | the module of their name, `TLAPS` |
| `ArxivRequestsProofs` | theorems about what sends requests to arXiv | `ArxivLimiter`, `Rescan`, `TLAPS` |
| `ScoringHelpersProofs` | theorems about scoring and the pure functions | `Scoring`, `Helpers`, `TLAPS` |
| `MC...` | values of constants for TLC, and in `MCArxivLimiter` and `MCHelpers` which callers and components take part in a behaviour | the module of their name; `MCHelpers` also `Scoring` |

### 2.1 State and code

**PdfCache.** `liked`, `file`, `jobs` are tables (`file[p].status = "none"` is no row,
`file[p].age` the age of `updated_at`, capped at `Keep`, the 72 hours of the code);
`disk` is the directory. `wpc` is the program counter of the worker's goroutine: `idle`,
the steps of `processOnePDFJob` (claim, read the row, download, mark ready,
mark failed, complete, fail), and those of `cleanupUnreferenced` (sweep, remove,
mark missing). `wjob`, `doomed` and `victim` are its local variables. `handler[h]` is where a
like request is in `UpsertProfileLike`. The five store statements the job runs are
the actions `Claim`, `ReadFile`, `MarkReady`/`MarkFailed`, `Complete`/`Fail`; where the
code drops an error, the action has an outcome that changes nothing but the
program counter, allowed with `"db"`. `Crash` forgets the locals and keeps the
tables and the disk. The history variable `leaked` has the papers whose file a fault has cut off from its row: its removal or its marking failed,
or the worker died between the download and the marking. The code never gives these files back, until another job marks the paper ready. The history variable `hit` has the papers that a fault has touched: those of a like request that was
cut short or of a statement that failed, the paper of the job a crash has ended, and the one whose file was being removed.
The properties speak of all other papers, so that faults are admitted and their damage is confined.

**PublicPdf.** `reader` is one request between the statements of `handleServePublicPDF`; `Cache` is any step of
`PdfCache`. Whether a profile is public decides nothing but whether the request is let in, so `Ask` leaves it open.
`swept` remembers that the cleanup was between removal and statement at some moment of the request.

**Ingest.** An item is a paper as one source brings it; `Keys[i]` are the identities it
carries, so that two items are the same paper when their keys meet. `papers[r]` is
the row with id `r`. The records in `dedup[l]` and `keyword[n]`
say which statement of `acceptLoop` or `reader` a goroutine is about to run. `kwOut`, `kwDialed`,
`kwCut`, `kwWire` are the four variables of a `SharedConn` (the variable
under the mutex, how many connections were dialled, which are cut, what they have
still to deliver). `DedupPanic` is the nil dereference that ends
the process. `AddManual` is the lookup and the insert of `handleAddManualLikePaper`. Three histories: `taken` has the items dedup has read, `lost` those of them
whose last frame a fault has met (a statement that failed, a process that died with it, a connection whose other end was gone), and `kept` of a row the labels that
were written while no other goroutine was about to write a list of its own. What keyword does with a row it has inserted is in `ProfileAnalysis`; the forward to the pipeline
(`cmd/keyword` 240-255) is reached only with a job queued, which never happens.

**ArxivWatcher, RssWatcher.** `listed`/`listing` are what the source shows, `cursor` is the row
in Postgres, `conn` the watcher's connection (nil, up, or cut at the other end),
`poll` the position in `run()` or `runOnce`/`processFeed`. Publication is external:
arXiv hides a version for a while (`hidden`) before it lists it, and may announce and feeds
may list in any order. The history variable `calm` remembers whether arXiv has announced in order, at most a page between two polls;
`NewestFirst(f)` says that a feed lists newest first. `lost` remembers
that dedup died with a connection open.

**ProfileAnalysis.** `config[c]` has the keywords of a profile and its sources, those that are enabled and those that are not; a profile is bare when it has neither, and one with
disabled sources only takes nothing. `verdict[p]` is `papers.llm_relevant`, which every start of a service resets (`Migrate`), `analysis[c][p]` the row of
`profile_paper_analysis`. `reader[r]` is a goroutine of keyword between its
statements, `cache` its two maps of keywords; `KeywordEnqueue` is the statement that Postgres refuses. `handler[h]` is an API request:
`select` and `insert` are the snapshot and the insert of each of the two statements of the backfill, `answer` is `handleAnalyzePaper` before its upsert, `verify` a verify request between
snapshot and insert.
`worker` is the loop of `cmd/worker` restricted to the two kinds of jobs, which take turns (`NextTurn`) as they do
in one tick. The history variable `due[c]` has the papers there were when the profile was last saved or its reload last requested: these it has to show. `worker.stood` is the decision
in the row of the job when it was claimed, or the last one written before the worker read the row, as long as it stands. `Decided` has the papers the pipeline decides on: keyword sends it none, but verdicts may be there from elsewhere, and the
worker looks at them first. Embedding scores, hits and texts are left out; what remains of a
row is whether keywords pass and what the model decided.

**ArxivLimiter.** `caller[c]` goes through idle, pool, queue, wait and flight; it waits for a connection in `pool` and has one
from `Acquire` to `Release`. `queue` and `holder` are
the advisory lock as Postgres grants it, `torn` the processes that lost a session. `earliest[p]` is `rateEarliestNext`,
counted down in ticks.

**Rescan.** `listed` is what arXiv lists, ordered by date; `Offset(e)` is the number of entries before
`e`, and a page is the slice from `page * size`. `Announce` inserts an entry
at its place, so that everything behind it moves by one.

**Scoring.** `row[p]` has the columns `embedding`, `llm_status`, `llm_relevant`, `llm_last_error` and
`relevant_at`, all but the second and third as NULL or not; `work[p]` is the local state of `Process`.

**Accounts.** Rows are named by position, as ids are never given out twice; a deleted row stays with `there = FALSE` (of a session:
`ended`). `handler[h]` is a request: `hash` between `CountUsers` and `CreateUser`, `issue` before `CreateSession`, then, for an
authenticated one, `user` between the two statements of `getAuth`, `act` before the handler's first statement, and `insert`,
`retry`, `list` before the statement that acts on what was checked. `Submitting` is what is left of a request that has saved a profile (its
backfill) or found the owner of one. Two history fields serve the properties: `beside`, the users inserted while somebody registered,
and `raced`, set by the action that undoes what a request was let through for. One job stands for all that a request submits; what the
jobs do is in `PdfCache` and `ProfileAnalysis`. Secrets and their comparison are left out: an id stands for the token.

**Helpers.** A state is one input. Texts are lengths, with chunk sizes from `MinSize` (500 in the code) on; files of seeds are sequences of braces
and keys (`Keys[k]` is what the `k`th entry holds up to its next brace); addresses are sequences of their parts, so that prefix, suffix and slashes are what
`strings` and `regexp_replace` see, around a host and path out of `Locations`; calls of `allowRate` have a distance in time and a key. The loops of the code are
recursive functions with a name each: `PiecesFrom`, `Depth`, `ParseFrom`, and `AllowRate` with its step `Admit`.

## 3. Runs

One run for each component, with the faults its code has to live with, and a second one where a
property needs other constants. The run `helpers` has `Scoring` beside `Helpers`: it goes on for one of the inputs. The state counts are of TLC's complete search.

| run | faults | states | shows |
|---|---|---|---|
| `pdf_cache` | crash, disconnect | 157 000 | `EachLikeTracked`: every like of two profiles has a ready file, or a request, a job or a visible failure of its own. `JobsSettle`: jobs end, but those the worker dies with. `UnreferencedCollected`: the file of a paper nobody likes leaves the disk, unless a fault has cut it off from its row |
| `pdf_faults` | crash, db, disconnect | 2 461 000 | But for papers a fault has touched, `ReadyHasFile`: a ready row has its file, except in the instant between `os.Remove` and its statement; `EachLikeTracked`, also when errors of statements are dropped; `ReadyIsStable`: only the cleanup takes a row out of ready, neither a second like nor a second job does. `FilesAccounted`: no file is left behind without a row that leads the cleanup to it, but by a failed removal or marking or a crash in between. `MissingIsExplained`: a client that found the row ready misses the file only for the cleanup. `ImplementsLifecycle`: under all faults the rows go through the abstract lifecycle, in which jobs may be orphaned: one at a time, oldest first, none inserted twice |
| `ingest` | two among deaths of dedup, keyword and failing statements | 273 000 | `NothingLost`, `EveryItemStored`: no interleaving of lookups and inserts of items that share some identities loses one, and a fault loses only the frames it meets. `LabelsKept`: a row keeps every label but those of merges that overlap. `NilOnlyAfterCut`: a goroutine of dedup finds a nil connection only after keyword died |
| `arxiv` | one among deaths of watcher and dedup, failing statements and requests | 918 000 | `NothingPassed`: while arXiv is calm and dedup lives the cursor passes no entry that dedup has not received, whatever else fails. `CursorAdvances`, though each poll sets the cursor to the maximum of its own page. `EveryEntryReceived` |
| `rss` | one among deaths, failing statements and fetches, and a dead feed | 186 000 | `NothingSkipped` for feeds that list newest first, `CursorAdvances` for dated items in any order, `EveryItemReceived` for feeds before the dead one |
| `analysis` | none | 345 000 | `EveryOwedQueued`: no paper there was when a profile was last saved falls between two backfills, with two requests at a time that create, change, reload and delete profiles or analyse a paper, and sources that are switched off. `ReloadQueues`: what a backfill leaves out is analysed or under way. `EveryOwedAnalysed` |
| `analysis_faults` | crash, keyword, start, db, disconnect | 1 331 000 | `DoneHasRow`: a job that is done has written its row, and the row is there unless the profile is gone. `DecisionPreserved`: a profile_analyze job leaves the decision of its row the same that stood when it read the row, and those of other rows alone, through analyses by the API, verify jobs, likes, retries and changed keywords |
| `analysis_routing` | none | violation | `SourceMatchedQueued`: keyword routes a paper to a profile and no job comes of it |
| `limiter` | crash, session, cancel | 95 000 | `OneInFlight` and `Polite` for two processes and three callers, but for a process whose session Postgres has ended. `EveryoneServed`, also when the three are rescans that share two connections: one waits for a connection while another holds one and waits for the lock, and whoever waits gets its turn |
| `rescan` | limited, fail, cancel | 150 000 | `NoGap`: however a rescan ends, what its pages span has been sent, with insertions into the listing, an entry that `decodeAtom` drops, and a size that shrinks at any page. `Complete`: one that ends at a short page has sent all, if no entry is dropped. `EveryRequestEnds`, also when every page is rejected |
| `accounts` | db | 1 631 000 | `AdminsExplained`: of two administrators the later one was registering when the first was inserted, and there is one as soon as there is a user. `NothingOutlives`: no session and no profile is left, or inserted, for an account that is gone. `ChecksHold`: session, account, owner, administrator and visibility are still as they were checked, unless undone meanwhile. `OnlyTheirOwn`: profiles are changed, and jobs submitted and retried, for their owners, or retried for an administrator, whatever is undone meanwhile |
| `helpers` | start, crash, fail | 51 000 | `ChunksCover`, `FirstSeedOnly`, `FeedsMatch`, `RateBound`: each function computes what its property says for every input within the bounds; the theorems of section 6 take the bounds away. Beside one of the inputs `Scoring` runs: `ColumnsAgree` whenever migrations run, `EveryPaperSettles` for papers that no crash or failing statement takes away |

`PROJECT.json` names for each property a mutant of the code, the way a plausible bug would change it, that breaks the
property in the run's own configuration.

## 4. Where the code and what is said of it differ

Five sentences of the repository promise more than the code does. The first is shown by a run of its own, which TLC is expected to find violated:

- `docs/filtering-strategy.md`:47 says that source-matched papers enqueue `profile_analyze` jobs automatically. `EnqueueProfileAnalyzeJob` (`profile_routing.go` 130)
  passes its parameters to `jsonb_build_object`, which takes arguments of any type, without the casts its siblings have (222, `likes_jobs_files.go` 241). The pool prepares
  statements without parameter types, and Postgres cannot determine them: every call fails, keyword logs it and goes on (`cmd/keyword` 229), and then sends the pipeline nothing (235).
  `analysis_routing` shows a paper that matches and is never queued. What is analysed gets there by a backfill, a like or a request.
- The comment at `cmd/worker/main.go`:165 promises to preserve a previous decision. One that `handleAnalyzePaper` writes between the worker's
  read of the row (166) and its upsert is erased by the upsert; `DecisionPreserved` is about decisions that stood when the row was read.
- The comment at `internal/store/papers.go`:43 says that a label is appended to the sources. Of two merges that both read the list before either writes it, the second takes the label of the first away;
  `LabelsKept` is about merges that do not overlap.
- README.md:60 and `docs/architecture.md`:54 say that the cleanup removes files not referenced for 3+ days. The age it looks at
  (`likes_jobs_files.go` 342) is that of the row, the time of the download or of the last like: a file liked for a week and unliked a minute ago
  goes at the next cleanup. `UnreferencedCollected` and `MissingIsExplained` hold either way.
- The comment at `internal/seed/seed.go`:31 says that each entry of the seeds file is embedded. The `break` at line 79 leaves the `switch` only, so that the
  first entry ends at the last balanced brace of the file (`FirstSeedOnly`).

Other behaviours of the code decide how the properties above are worded. Each was met as a counterexample of a
stronger wording:

- A worker that dies with a job, or whose failing statement goes unnoticed, leaves the job running for ever, in no list of failures, and
  every reload leaves its paper out (`JobsSettle` excuses the job of a worker that died with it, `ReloadQueues` is checked without this fault;
  `JobLifecycle` has orphaned jobs; `hit` has the papers).
- A file whose removal fails, or that the worker dies with before it is marked ready, stays on the disk, and no row leads the cleanup to it (`leaked`).
- A like request cancelled after its first statement leaves a like without a job (`hit` in `EachLikeTracked`).
- dedup writes to a nil connection, and panics, when another goroutine's write failed after keyword died (`NilOnlyAfterCut`, instead of never nil).
- A paper that comes in by two connections before either has stored it is stored with one source; the other is not merged (`NothingLost` is about the paper, not its label).
- Frames lost with dedup are behind the cursors already (`lost` in both watchers).
- A feed whose items share a date and are not listed by descending key has items that are never sent (`NewestFirst` in `NothingSkipped`).
- A feed that cannot be fetched makes the watcher panic at the next feed with news, at every poll (`EveryItemReceived` is for the feeds before it).
- By way of an undated item the cursor of a feed goes back (`CursorAdvances` is for feeds without such items).
- A paper that is stored after the snapshot of a profile's last backfill is not looked at for it before the next one (`due` in `Owed`), as keyword queues nothing; that its cache keeps
  the keywords of a profile until the process ends has no effect as long as this is so.
- A backfill does not look at papers that have a row, whatever the keywords were when it was written.
- Two registrations on an empty database that overlap both make an administrator (`beside` in `AdminsExplained`).
- A request goes on after its session, its account or the profile it was let through for is gone (`raced` in `ChecksHold`), and submits jobs for
  it; a profile that is made private is listed once more. Nothing of somebody else's is changed that way (`OnlyTheirOwn`).
- Go removes one trailing slash and several schemes of an address, SQL all slashes and one scheme: the two agree on addresses with at most one of each
  (`Spellings` in `Helpers`).
- Around the end of a window of the rate limit an address gets twice its limit (`RateBound`).
- The advisory lock ends with its session while its owner goes on sending (`torn` in the limiter).
- An entry whose identifier `decodeAtom` does not know makes a full page look like the last one, and a rescan that is capped or cancelled answers ok like one that has sent all (`Complete` excludes
  both, `NoGap` does not); the retry after a 429
  starts at an earlier offset than the page that failed and sends some entries twice.
- Each start of a service resets the verdicts of all papers (`Migrate` in `Scoring` and `ProfileAnalysis`; no property says that verdicts last).

## 5. Bounds and fairness

**Bounds.** Interference needs two of something and a third to be overtaken, and the bounds give that much.
`PdfCache` has two profiles, one paper, two like requests at a time and two jobs, one of which may be retried, so that a job
of one profile meets a like, a job and a cleanup of the other. `Ingest` has
two links, three frames or typed-in papers out of six items that agree on an identity in part and carry four labels, so that two merges with different labels can meet in a row that has
a third, and two faults, so that one
can hit the recovery from the other. `ArxivWatcher` has pages of two out of three entries and three points in
time, so that an entry can leave the page; `RssWatcher` three feeds, so that the dead one has one before and
one after it, and three keys with two dates or none. One fault suffices for the watchers: their polls repeat, and none remembers an earlier one but by the
cursor. `ProfileAnalysis` has one profile, two papers and two requests, or one paper, one
request at a time out of three and faults without bound; the run that is violated has one paper and one profile. `Rescan` has six entries with pages of
one, three and four that shrink to two, so that a size is a multiple, not a multiple, or less than its successor.
`ArxivLimiter` has, from the first state on, two callers in one process and one in another, or three in one, which share two connections; two attempts; and pauses that
keep what matters of their order: a rejection asks for less than, as much as or more than its own pause and the usual one.
`pdf_faults` has one profile and two papers instead, so that a fault meets one paper and must leave the other alone.
Both together are out of TLC's reach; the theorems of section 6 hold for any number.
`PROFILE_ANALYZE_LLM_SOURCE` (`Ask`) has its default in all runs of `ProfileAnalysis`; with `"profile"` the model is asked instead of
the table, as it is for verify jobs. `Accounts` has two requests, two registrations, two sessions, two profiles and a job: enough for one request to undo what
another was let through for, for each pair of operations, and for a second account or session that must not be touched. `Helpers` has texts of up to nine runes with chunks from
two to five, four entries of seeds, one of them with an at sign in its text, three locations of feeds, and five calls of `allowRate` from two addresses with limits of one and two, at once, within a window and
exactly a window later, so that each loop ends at, before and after its boundary.
`pdf_faults` and `accounts` use symmetry; runs with liveness do not.

Ages and pauses are capped where nothing distinguishes larger values; `Keep = 1` merges everything that is older than
72 hours.

**Type invariants.** Each module with state has one, `TypeOK`. All are proved: those of `PdfCache`, `Accounts`,
`ProfileAnalysis` and `Scoring` as theorems, the others as parts of the invariants below. The runs are kept for behaviour.

**Deadlock** is checked where some actor can always move. `Ingest`, `ArxivWatcher` and `RssWatcher` have
sources that dry up when `MaxFrames`, `MaxEntries`, `MaxTime` or `Keys` are used up, and connections that are not dialled
beyond `MaxConns`; `Accounts` gives out `MaxUsers`, `MaxSessions` and `MaxProfiles` ids, and a request that needs one more waits for ever. Then the
model stops, and their configurations say `CHECK_DEADLOCK FALSE`.
`Rescan` and `Scoring` have an explicit action for the finished state instead.

**Fairness** is weak fairness of each actor's own loop, never of the environment:

- worker: its `select` serves both tickers, and the loop runs one step after the other without waiting on any
  other goroutine (`cmd/worker` 54-73), so `PdfJob`, `Cleanup` and `Worker` are weakly fair. Downloads and
  chats end by a deadline of their client. A worker that dies again and again gets nowhere: `PdfCache` assumes that
  it dies no more after some time (`<>[][~Crash]_vars`).
- API requests: a handler that has started runs on; that a request arrives is not fair.
- dedup, keyword: each goroutine blocks only on its own connection and
  on a mutex held for single operations.
- watchers: a poll is started by a ticker and runs on; publication and announcement are not fair.
- limiter: the 120-second timeout of the client ends each request with an answer or a rejection, Postgres grants the lock in
  the order of its queue, and time passes (`Tick`). The pool serves those who wait for a connection in the order they came (puddle's semaphore is a queue), which
  strong fairness of `Acquire` stands for: whoever waits is passed over finitely often.
- scoring: Ollama answers, fails or runs into the deadline of each call.

Every crash is followed by a restart, but what it loses is lost: liveness properties name
the faults they tolerate (a watcher that dies polls again; a paper that died with pipeline stays as it is).

## 6. Proofs

TLC checks instances; these hold for all values of the constants that satisfy
the assumptions named in the modules (`Faults` is a set of the known faults,
bounds are natural numbers, sizes are positive, `NoPaper` is no paper).

| theorem | assumes | says |
|---|---|---|
| `TypeCorrect` (`PdfCacheProofs`) | nothing | `Spec => []TypeOK`: among others, the worker always holds an existing job and visits known papers |
| `ReadyStable` | nothing | `Spec => ReadyIsStable` |
| `FilesPresent` | nothing | `Spec => []ReadyHasFile` |
| `AllAccounted` | nothing | `Spec => []FilesAccounted` |
| `LikesTracked` | nothing | `Spec => []EachLikeTracked` |
| `LifecycleImplemented` | nothing | `Spec => ImplementsLifecycle`: the table of jobs and its worker refine `JobLifecycle` |
| `MissesExplained` | nothing | `PublicSpec => []MissingIsExplained` |
| `LabelsStay` (`IngestProofs`) | nothing | `Spec => []LabelsKept` |
| `NilsExplained` | nothing | `Spec => []NilOnlyAfterCut` |
| `NoneLost` | nothing | `Spec => []NothingLost` |
| `NoEntryPassed` (`ArxivWatcherProofs`) | nothing | `Spec => []NothingPassed` |
| `CursorForward` | nothing | `Spec => CursorAdvances` |
| `NoItemSkipped` (`RssWatcherProofs`) | nothing | `Spec => []NothingSkipped` |
| `CursorForward` | nothing | `Spec => CursorAdvances` |
| `TypeCorrect` (`ProfileAnalysisProofs`) | nothing | `Spec => []TypeOK` |
| `RowsBehind` | nothing | `Spec => []DoneHasRow` |
| `DecisionsStand` | `Ask = "paper"` | `Spec => DecisionPreserved` |
| `NoneLeftBehind` | `"disconnect"` not in `Faults` | `Spec => []EveryOwedQueued`: also with crashes of all services and failing statements of the worker |
| `ReloadsMissNothing` | neither `"crash"` nor `"db"` in `Faults` | `Spec => ReloadQueues` |
| `Serialized` (`ArxivRequestsProofs`) | nothing | `Spec => []OneInFlight`: with crashes, cancellations and lost sessions |
| `Courteous` | nothing | `Spec => Polite` |
| `PagesLeaveNoGap` | nothing | `RescanSpec => []NoGap`: also of rescans that are capped, cancelled or ended early by a dropped entry |
| `ShortPageEnds` | nothing | `RescanSpec => []Complete`: of rescans that end at a short page, when arXiv lists no entry that is dropped; capped and cancelled ones answer ok too and are not meant |
| `TypeCorrect` (`AccountsProofs`) | nothing | `Spec => []TypeOK`: rows and requests have the fields that belong to their table and step |
| `Cascades` | nothing | `Spec => []NothingOutlives` |
| `FirstIsAdmin` | nothing | `Spec => []AdminsExplained` |
| `OwnersOnly` | nothing | `Spec => OnlyTheirOwn` |
| `ChecksKept` | nothing | `Spec => []ChecksHold` |
| `ScoringTyped` (`ScoringHelpersProofs`) | nothing | `Spec => []TypeOK`: among others, never more attempts than allowed |
| `ColumnsTogether` | nothing | `Spec => []ColumnsAgree` |
| `AnyChunksCover` | nothing | `HelpersSpec => []ChunksCover`: texts of any length, any size and overlap |
| `AnyRateBounded` | nothing | `HelpersSpec => []RateBound`: any number of calls and addresses, any pauses and limits |
| `AnyFeedsMatch` | nothing | `HelpersSpec => []FeedsMatch`: any hosts and paths |
| `AnyFirstSeedOnly` | nothing | `HelpersSpec => []FirstSeedOnly`: any number of entries |

"Nothing" includes all faults of the module; what a fault excuses is in the formula, by `hit`, `leaked`, `lost`, `kept`, `calm`, `torn` or `raced`.
The three theorems with a hypothesis are about code that does not hold without it. With `"profile"` for `Ask` the worker asks the model again,
and an answer that fails to come erases the decision. A
request that is cut short, by its client or by a failing statement, ends its backfill, and its papers are left to the next reload. A job
that dies with the worker, or whose completion fails, stays running without an owner, and reloads pass over its paper.

**PdfCache.** `TypeOK` is not inductive: `Complete` writes to `jobs[wjob]`, which is a row
only while the worker holds one. `Control` ties the program counter to the local variables
(a job is held exactly in the job steps, a paper exactly while it is being removed),
and `TypeInv == TypeOK /\ Control` is inductive. `SoleWriter` says that
a ready row has a path, and that in the steps between `ReadFile` and the end of `MarkReady` or `MarkFailed` the row of the
job's paper is not ready: `ReadFile` saw that it was not, and nobody else writes ready. It
gives `ReadyStable`. `FilesInv` adds to `ReadyHasFile` that the file is there when `MarkReady` is about to say so,
since the only remover is the same goroutine. `AccountInv` says with `FilesAccounted` that the file the worker is about to fetch is not there yet, and the one it is about to mark as missing not there any more. `LikesInv` strengthens
`EachLikeTracked`: likes of the papers the cleanup is about to remove do not count on the ready row they still have, but
on a request or job of their own; and at `complete` the file is ready, so that the job is no longer needed.
Each invariant is proved by one step per action.

**The lifecycle of jobs.** `Phase` maps the rows to the states of `JobLifecycle`: the row `wjob` names is `"working"` whatever its status, another running row is `"orphaned"`.
Under `TypeInv` each step is one of the abstract specification or leaves `Phase` alone: an inserted row is a `Submit`, a claim of
the oldest pending row a `Take`, a retry a `Resubmit`; the end of a job is a `Settle`, or, if its statement failed or the worker died, a `Lose`.
Everything else leaves the statuses and `wjob` as they are.

**The public reader.** A request is a stutter of the cache (`RequestsOnlyLook`), so that `ReadyHasFile` holds of the cache while it runs. `ReaderInv` adds what
the request knows: a paper the cleanup is at is in its history, and from the moment the row was read ready the file is on the disk, or the paper is in `hit`, or
the cleanup has come by.

**Ingest.** `LabelsInv` adds to `LabelsKept` that the list a goroutine has read and not yet written holds the labels the row keeps: a label is only kept by a write that no
other list was read before. `NilOnlyAfterCut` is inductive with the types: `kwOut` goes from a connection to nil only when a goroutine's write has failed, which
needs a cut connection, and a cut stays on record. `LossInv` says in addition to `NothingLost` that a goroutine that merges does so into a row that shares a key with its item; then each step takes the frame of an item from one
of the places of `UnderWay` to the next, or into `Stored`, or the item into `lost`, whatever the fault.

**ArxivWatcher.** The invariant `ArxivInv` speaks of the listing, the cursor and the poll while arXiv is calm. `InOrder`: what is hidden is announced in the order of its times, the first
version of an entry is later than all that is listed, a replacement has the submission date of what it replaces. So an announcement moves an entry of the first
page nowhere (`ReplacementOnPage`) or puts a new one in front of it (`NewestOnPage`), and what a first page reaches, later ones reach. `CursorInv`: the first page reaches the
cursor, the entries whose first version lies behind the cursor are at most a page, and all others have been received. Then the page that is fetched has all that is new: an entry of `Fresh` outside of it would be preceded
by `PageSize` others, all of them fresh (`FreshOnPage`). `PollInv` carries this through the poll: its page reaches the cursor, the first page reaches it, and an entry listed meanwhile is
later than the page. The cursor is the maximum of the page, which exists (`MaxIsThere`), and `CursorInv` is restored. Both theorems follow.

**RssWatcher.** Within a feed, `FeedInv` says that the items still to be looked at are a run of the listing that ends at a place `k`, which items published meanwhile
shift; behind them all is received; the running cursor is the stored one or an item of the feed; what is not after it has been received; and if all items have
dates it is newer than the stored one. Newest first makes an item that is skipped one that was received; `NewerAfter` and `AfterNewer` say where
the code's comparison is the order of dates and keys, and where it is not: at items without a date.

**ProfileAnalysis.** `TypeInv` adds to `TypeOK` that jobs, goroutines and requests refer to papers that are stored and profiles that have existed. `DoneInv`
adds to `DoneHasRow` that the row is written when the worker is about to complete its job. `StoodInv` follows a decision through the job: as
long as one stands and the profile lives, the row has it until it is read, and then it is what the worker will write. `EveryOwedQueued` is inductive with the types: a paper that is owed stays owed
only while its profile is the same (`OwedBefore`), every request that makes papers owed starts a backfill (`ReloadsAll`), and each step of a backfill hands a paper on, from the snapshots to come to the
one that has it or to a job or row that made the snapshot leave it out (`BackfillOn`). `RunningInv` says that a running job is the worker's, which is what
`ReloadQueues` takes from the absence of deaths.

**ArxivLimiter.** `OneInFlight` follows from `LockKept`: whoever is past the lock, in a process that has lost no session, is in
`holder`, and `holder` has at most one element. Crashes and cancellations release the lock and the
caller in one step; a lost session puts its process into `torn`. `Paced` adds that `earliest` is never before what any answer
has asked for, though `rateNoteResponse` overwrites it: only a caller in flight notes an answer, it was sent when nothing was owed, and it is alone.

**Rescan.** `Covered` says that the entries listed from the start are sent or in the page being written, up to the offset of the
next page while none is being written, and up to the end of the page while one is and when the rescan has ended with it. It is preserved by insertions, because offsets only grow:
an entry may be sent twice but never moves in front of the page. A smaller size moves the next offset back, not forward. `Ending` adds that after a short page
nothing is left: the earliest entry behind the page would have as many entries before it as its offset says, but the page was not full.

**Accounts.** `TypeOK` is inductive. Its lemmas give the type of a row that is changed in place and of a table a row is appended to
(`Row`, `Rows`, `Tables`), so that each action only has to type the request it answers. `NothingOutlives` is inductive with it: inserts look
for the account in the statement that inserts, and the only step that takes an account away takes its rows along. `AdminsExplained` is not; `AdminsInv` adds `Counted`: a request
that counted no user has all users there are now in `beside`, and as long as no user was ever inserted every registration counted none. The actions that insert no user
leave `AdminsInv` alone by one lemma, `AdminsKept`: users may go and requests may leave. `Linked` is what stays true of a request whatever is undone meanwhile, since ids
are never given out twice and owners never change: its session is its user's, its profile is owned by its user, its job by the owner of that profile. It gives
`OnlyTheirOwn`. `Confirmed` is what may be undone; `ChecksHold` is inductive with `Linked`, because each step that undoes a check marks the
requests let through by it as raced (`OthersAreRaced`).

**Scoring.** The columns are written together, by one statement, and `Inv == TypeOK /\ ColumnsAgree` is inductive. The steps of `Process` that write no row leave it alone by one lemma; a migration
takes the verdict and its time away in one statement, whatever the attempt in flight will write.

**Helpers.** A state is an input that never changes, so that each theorem is about what a function computes for all inputs. The code's loops are recursive functions over intervals. That such a function
exists is proved by extending a partial solution place by place (`PiecesExist`, `RateExists`, `FlattenExists`, `DepthExists`, `ParseExists`), so that the function satisfies its own equation (`PiecesUnfold`,
`RateUnfold`, `DepthUnfold`, `ParseUnfold`). Both this and what holds at every place are inductions over the set of places where it holds: `UpwardInduction` and `DownwardInduction`, which
follow from the well-foundedness of the natural numbers without a theorem that takes an operator.

- `ChunksCover`: each piece begins where the one before it ends, less the overlap, and advances, as the overlap is smaller than the size; the last one ends with the text.
- `RateBound`: the clock and the window only move forward, the window is not older than its minute, and the counter of an address is the number of its calls since the window began.
  A minute meets at most two windows, and what a window admits of an address is at most the limit. Who has kept to the limit in the last minute has no more calls in the window, which is no longer.
- `FeedsMatch`: both expressions reduce every spelling to its location (`SpellingsMeet`). After the blanks are trimmed at most one scheme and at most one slash are left, and the location neither begins nor ends
  with what is cut off.
- `FirstSeedOnly`: the file is laid out entry by entry (`LaidOut`). The depth of the braces, counted from the start of any entry, is 0 at the end of each entry as long as all are closed, and stays positive from the
  first unclosed one on (`Levels`). So the last balanced brace is the end of the entry before the first unclosed one (`BlockEndIs`). If all are closed, that is the end of the file, and
  its first key is all there is; otherwise the parser arrives at the unclosed entry and fails.

**Assumed.** Nothing but the assumptions on the constants and the library's theorems about finite sets, sequences and well-founded orders. That the modules are
the code is a matter of reading: the map gives the lines.

**Model-checked only.** All liveness: the prover has no rule for fairness or `ENABLED`. These are `JobsSettle`, `UnreferencedCollected`, `EveryItemStored`,
`EveryoneServed`, `EveryOwedAnalysed`, `EveryRequestEnds`, `EveryEntryReceived`, `EveryItemReceived` and `EveryPaperSettles`. Every invariant and every action property
of a run that passes is stated by a theorem. Where an argument needs induction, or a least or greatest element (`Rescan`, `ArxivWatcher`, `Helpers`), it is taken from the
well-foundedness of the natural numbers, with sets instead of predicates: the prover cannot instantiate theorems with an operator as parameter. No module uses `RECURSIVE`.

## 7. What is not modelled

| part | why |
|---|---|
| `WeakKey`, the hash of an item | the identity of a paper in `Ingest` is the set of its keys, whatever makes them equal |
| the windows of `digest.go` | no caller in the repository |
| the like at the end of `handleAddManualLikePaper` | it is `UpsertProfileLike`, the `Like` of `PdfCache` and of `ProfileAnalysis`; lookup and insert are in `Ingest` |
| keyword's forward to the pipeline (`cmd/keyword` 240-255) | reached only with a `profile_analyze` job queued, which never happens; `handleConn` of the pipeline only reads frames and calls `Process`, which `Scoring` has |
| fields inside an entry of seeds, texts of prompts and summaries | wording |
| similarity to seeds, embeddings | floating-point arithmetic without control |
| clients of Ollama and pdfx | input and output: their outcomes are nondeterministic choices in the modules that call them |
| the advisory lock of `migrate` and the DDL | Postgres serializes the starts; what 003 does to rows is in `Scoring` and `ProfileAnalysis` |
| labels, pending resolution, `system_config`, deep verification, `ClearScanData` | no caller in the repository |
| web interface, routing, configuration | presentation |

Also abstracted: a panic of the PDF parser (it is a crash of the worker), and what a duplicate job costs: two verify requests, or two backfills, may both
insert one, as both statements are split into snapshot and insert, and the properties hold with the duplicates.

## 8. Plan

Done, in the order of importance: `PdfCache` with its lifecycle and proofs, `Ingest`, the
watchers, `ProfileAnalysis`, `ArxivLimiter`, `Rescan`, `Scoring`, `Accounts`, `PublicPdf`, `Helpers`.

What concurrency and failure decide in this code is modelled. Once the statement of `profile_routing.go` 130 is given its casts, `KeywordEnqueue` inserts a job, `SourceMatchedQueued` is a
property to check in earnest, with the cache and the two lists of profiles, and the forward to the pipeline and its shared connection come back into `Ingest`.

The safety properties of all modules are proved. Next theorems: `JobLifecycle`'s own promises, from the refinement instead of the table; liveness, once the prover has rules for fairness.
