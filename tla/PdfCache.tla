------------------------------ MODULE PdfCache ------------------------------
(***************************************************************************)
(* The local cache of PDF files: likes made through the API, the table     *)
(* paper_files, the pdf_download jobs, the files in PDF_STORAGE_DIR, the   *)
(* single goroutine of cmd/worker that downloads and cleans up, and the    *)
(* API handlers that run concurrently with it.  Every action is one SQL    *)
(* statement (or transaction) or one file operation: nothing wider is      *)
(* atomic in the code.                                                     *)
(***************************************************************************)
EXTENDS JobTable, FiniteSets

CONSTANTS Handlers,    \* concurrent API requests that like a paper
          Faults,      \* which faults may happen, see FaultKinds
          Keep,        \* age at which cleanup may take a file (72h in the code)
          NoPaper,     \* a value that is no paper
          MaxJobs,     \* bound: rows inserted into jobs
          MaxRetries   \* bound: calls of POST /api/jobs/{id}/retry

\* "crash": the worker process dies (kill, panic, redeploy) and is restarted.
\* "db": a statement whose error the code drops fails.
\* "disconnect": a like request is cut short, because its client goes away
\* (that cancels its context), a statement fails or the API process dies.
FaultKinds == {"crash", "db", "disconnect"}

ASSUME FaultsAssumption == Faults \subseteq FaultKinds
ASSUME NoPaperAssumption == NoPaper \notin Papers
ASSUME KeepAssumption   == Keep \in Nat \ {0}
ASSUME BoundsAssumption == MaxJobs \in Nat /\ MaxRetries \in Nat

VARIABLES
  profiles,   \* rows of profiles
  liked,      \* rows of profile_paper_likes
  file,       \* rows of paper_files, "none" is no row
  disk,       \* papers whose <id>.pdf exists in PDF_STORAGE_DIR
  handler,    \* where each like request is
  wpc,        \* where the worker goroutine is
  wjob,       \* the job it holds, 0 if none
  doomed,     \* the ids cleanupUnreferenced has still to visit
  victim,     \* the one of them it is removing, else NoPaper
  hit,        \* history: the papers whose like, job or removal met a fault
  leaked,     \* history: the papers whose file a fault has cut off from its row
  retries     \* bound: retries so far

vars == <<jobs, profiles, liked, file, disk, handler,
          wpc, wjob, doomed, victim, hit, leaked, retries>>

dbVars     == <<jobs, profiles, liked, file>>
workerVars == <<wpc, wjob, doomed, victim>>

FileStatus == {"none", "missing", "queued", "ready", "failed"}

\* age is the time since updated_at, counted up to Keep.
FileRow == [status : FileStatus, path : BOOLEAN, age : 0 .. Keep]

Idle    == [at |-> "idle"]
Request == [at : {"file", "job"}, profile : Profiles, paper : Papers]

JobSteps   == {"read", "download", "markReady", "markFailed",
               "complete", "fail"}
CleanSteps == {"sweep", "remove", "markMissing"}

TypeOK ==
  /\ jobs \in Seq(Job)
  /\ profiles \subseteq Profiles
  /\ liked \subseteq profiles \X Papers
  /\ file \in [Papers -> FileRow]
  /\ disk \subseteq Papers
  /\ handler \in [Handlers -> {Idle} \cup Request]
  /\ wpc \in {"idle"} \cup JobSteps \cup CleanSteps
  /\ wjob \in 0 .. Len(jobs)
  /\ doomed \subseteq Papers
  /\ victim \in Papers \cup {NoPaper}
  /\ hit \subseteq Papers
  /\ leaked \subseteq Papers
  /\ retries \in 0 .. MaxRetries

Init ==
  /\ jobs = << >>
  /\ profiles = Profiles
  /\ liked = {}
  /\ file = [p \in Papers |-> [status |-> "none", path |-> FALSE, age |-> 0]]
  /\ disk = {}
  /\ handler = [h \in Handlers |-> Idle]
  /\ wpc = "idle" /\ wjob = 0 /\ doomed = {} /\ victim = NoPaper
  /\ hit = {} /\ leaked = {}
  /\ retries = 0

Likers(p)   == {c \in profiles : <<c, p>> \in liked}
InFlight    == {h \in Handlers : handler[h].at # "idle"}

-----------------------------------------------------------------------------
(***************************************************************************)
(* API requests.                                                           *)
(***************************************************************************)

\* isProfileOwner, then the row of profile_paper_likes.  The owner check and
\* the insert are one step: if the profile goes away in between, the foreign
\* key refuses the insert and nothing has happened.
LikeInsert(h, c, p) ==
  /\ handler[h] = Idle
  /\ c \in profiles
  /\ Len(jobs) + Cardinality(InFlight) < MaxJobs
  /\ liked' = liked \cup {<<c, p>>}
  /\ handler' = [handler EXCEPT
                   ![h] = [at |-> "file", profile |-> c, paper |-> p]]
  /\ UNCHANGED <<jobs, profiles, file, disk, workerVars, hit, leaked, retries>>

\* Mutant of Queued: the row is queued whatever it says.
QueuedAlways(row) == [status |-> "queued", path |-> row.path, age |-> 0]

\* The paper_files row: a ready row stays ready, any other is queued.
Queued(row) ==
  [status |-> IF row.status = "ready" THEN "ready" ELSE "queued",
   path |-> row.path, age |-> 0]

LikeQueueFile(h) ==
  /\ handler[h].at = "file"
  /\ file' = [file EXCEPT ![handler[h].paper] = Queued(@)]
  /\ handler' = [handler EXCEPT ![h].at = "job"]
  /\ UNCHANGED <<jobs, profiles, liked, disk, workerVars, hit, leaked, retries>>

\* The pdf_download job.
LikeEnqueue(h) ==
  /\ handler[h].at = "job"
  /\ Enqueue(handler[h].profile, handler[h].paper)
  /\ handler' = [handler EXCEPT ![h] = Idle]
  /\ UNCHANGED <<profiles, liked, file, disk, workerVars, hit, leaked, retries>>

\* A fault touches a paper: what the paper's likes may count on ends there.
Hit(papers) == hit' = hit \cup papers

\* The statements of a like are not one transaction: a request that is
\* cancelled leaves those already executed.
LikeAbort(h) ==
  /\ "disconnect" \in Faults
  /\ handler[h] # Idle
  /\ handler' = [handler EXCEPT ![h] = Idle]
  /\ Hit({handler[h].paper})
  /\ UNCHANGED <<dbVars, disk, workerVars, leaked, retries>>

Unlike(c, p) ==
  /\ <<c, p>> \in liked
  /\ liked' = liked \ {<<c, p>>}
  /\ UNCHANGED <<jobs, profiles, file, disk, handler, workerVars, hit, leaked, retries>>

\* The likes go with the profile (ON DELETE CASCADE), its jobs stay.
DeleteProfile(c) ==
  /\ c \in profiles
  /\ profiles' = profiles \ {c}
  /\ liked' = {l \in liked : l[1] # c}
  /\ UNCHANGED <<jobs, file, disk, handler, workerVars, hit, leaked, retries>>

\* handleRetryJob lets the owner, or an admin, retry a job of any status.
Retry(j) ==
  /\ retries < MaxRetries
  /\ RetryJob(j)
  /\ retries' = retries + 1
  /\ UNCHANGED <<profiles, liked, file, disk, handler, workerVars, hit, leaked>>

-----------------------------------------------------------------------------
(***************************************************************************)
(* The worker: processOnePDFJob.                                           *)
(***************************************************************************)

Goto(step) == wpc' = step /\ UNCHANGED <<wjob, doomed, victim>>

Finish == wpc' = "idle" /\ wjob' = 0 /\ UNCHANGED <<doomed, victim>>

\* The paper_files row of p after SetPaperFileState, which the code calls
\* without looking at its error.  A row that gets a path knows its file again;
\* one that does not, because the statement fails, leaves the file to itself.
SetFile(p, status, path) ==
  \/ /\ file' = [file EXCEPT ![p] = [status |-> status, path |-> path, age |-> 0]]
     /\ leaked' = IF path THEN leaked \ {p} ELSE leaked
     /\ UNCHANGED hit
  \/ /\ "db" \in Faults /\ Hit({p})
     /\ leaked' = IF path THEN leaked \cup {p} ELSE leaked
     /\ UNCHANGED file

Paper == jobs[wjob].paper

\* ClaimNextPendingJob, one transaction.
Claim(j) ==
  /\ wpc = "idle"
  /\ ClaimJob(j)
  /\ wpc' = "read" /\ wjob' = j
  /\ UNCHANGED <<profiles, liked, file, disk, handler, doomed, victim,
                 hit, leaked, retries>>

\* GetPaperFile, whose error the code drops, and GetPaperRow.  When the first
\* fails a cached file is downloaded again, and if that fails the row is marked
\* failed over a file that is still there.
ReadFile ==
  /\ wpc = "read"
  /\ LET cached == file[Paper].status = "ready" /\ file[Paper].path IN
       \/ /\ Goto(IF cached THEN "complete" ELSE "download")
          /\ UNCHANGED <<hit, leaked>>
       \/ /\ "db" \in Faults /\ Goto("download")
          /\ Hit({Paper}) /\ leaked' = leaked \cup {Paper}
       \/ "db" \in Faults /\ Goto("fail") /\ UNCHANGED <<hit, leaked>>
  /\ UNCHANGED <<dbVars, disk, handler, retries>>

\* Mutant of Download: the error of downloadToFile is not looked at.
DownloadUnchecked ==
  /\ wpc = "download"
  /\ disk' \in {disk, disk \cup {Paper}}
  /\ Goto("markReady")
  /\ UNCHANGED <<dbVars, handler, hit, leaked, retries>>

\* downloadToFile renames a complete temporary file to <id>.pdf, or fails and
\* leaves the target alone.  A paper without a URL fails in the same way.
Download ==
  /\ wpc = "download"
  /\ \/ disk' = disk \cup {Paper} /\ Goto("markReady")
     \/ UNCHANGED disk /\ Goto("markFailed")
  /\ UNCHANGED <<dbVars, handler, hit, leaked, retries>>

MarkReady ==
  /\ wpc = "markReady"
  /\ SetFile(Paper, "ready", TRUE)
  /\ Goto("complete")
  /\ UNCHANGED <<jobs, profiles, liked, disk, handler, retries>>

MarkFailed ==
  /\ wpc = "markFailed"
  /\ SetFile(Paper, "failed", FALSE)
  /\ Goto("fail")
  /\ UNCHANGED <<jobs, profiles, liked, disk, handler, retries>>

\* CompleteJob and FailJob, whose errors the code drops.
Complete ==
  /\ wpc = "complete"
  /\ CompleteJob(wjob) \/ ("db" \in Faults /\ UNCHANGED jobs)
  /\ Finish
  /\ UNCHANGED <<profiles, liked, file, disk, handler, hit, leaked, retries>>

Fail ==
  /\ wpc = "fail"
  /\ \/ FailJob(wjob) /\ UNCHANGED hit
     \/ "db" \in Faults /\ Hit({Paper}) /\ UNCHANGED jobs
  /\ Finish
  /\ UNCHANGED <<profiles, liked, file, disk, handler, leaked, retries>>

-----------------------------------------------------------------------------
(***************************************************************************)
(* The worker: cleanupUnreferenced, on its own ticker.                     *)
(***************************************************************************)

\* Mutant of Unreferenced: the likes are not looked at.
UnreferencedByAge ==
  {p \in Papers : file[p].status = "ready" /\ file[p].age = Keep}

\* CleanupUnreferencedPaperFiles compares the age of the row, not of the like.
Unreferenced ==
  {p \in Papers : /\ file[p].status = "ready"
                  /\ file[p].age = Keep
                  /\ Likers(p) = {}}

CleanupStart ==
  /\ wpc = "idle"
  /\ Unreferenced # {}
  /\ doomed' = Unreferenced
  /\ wpc' = "sweep"
  /\ UNCHANGED <<dbVars, disk, handler, wjob, victim, hit, leaked, retries>>

\* GetPaperFile again, for the path; a row without one is left alone.
CleanupNext(p) ==
  /\ wpc = "sweep"
  /\ p \in doomed
  /\ doomed' = doomed \ {p}
  /\ \/ file[p].path /\ wpc' = "remove" /\ victim' = p
     \/ (~file[p].path \/ "db" \in Faults) /\ UNCHANGED <<wpc, victim>>
  /\ UNCHANGED <<dbVars, disk, handler, wjob, hit, leaked, retries>>

CleanupEnd ==
  /\ wpc = "sweep" /\ doomed = {}
  /\ wpc' = "idle"
  /\ UNCHANGED <<dbVars, disk, handler, wjob, doomed, victim, hit, leaked, retries>>

\* Mutant of CleanupRemove: only the row is dealt with.
CleanupKeeps ==
  /\ wpc = "remove"
  /\ Goto("markMissing")
  /\ UNCHANGED <<dbVars, disk, handler, hit, leaked, retries>>

\* os.Remove, whose error is dropped: the row will be marked missing and the
\* file stays where it is.
CleanupRemove ==
  /\ wpc = "remove"
  /\ \/ disk' = disk \ {victim} /\ leaked' = leaked \ {victim}
     \/ leaked' = leaked \cup {victim} /\ UNCHANGED disk
  /\ Goto("markMissing")
  /\ UNCHANGED <<dbVars, handler, hit, retries>>

CleanupMark ==
  /\ wpc = "markMissing"
  /\ SetFile(victim, "missing", FALSE)
  /\ wpc' = "sweep" /\ victim' = NoPaper
  /\ UNCHANGED <<jobs, profiles, liked, disk, handler, wjob, doomed, retries>>

-----------------------------------------------------------------------------
\* The process dies and is restarted: what it held in memory is gone.  Right
\* after a claim this is also what a lost acknowledgement of its commit does.
\* When nothing is left to sweep there is nothing to lose either.  A file that
\* was downloaded and not yet marked ready stays, without a row that says so.
Crash ==
  /\ "crash" \in Faults
  /\ wpc # "idle" /\ (wpc = "sweep" => doomed # {})
  /\ wpc' = "idle" /\ wjob' = 0 /\ doomed' = {} /\ victim' = NoPaper
  /\ Hit(IF wpc \in JobSteps THEN {Paper}
         ELSE IF wpc = "markMissing" THEN {victim} ELSE {})
  /\ leaked' = IF wpc = "markReady" THEN leaked \cup {Paper} ELSE leaked
  /\ UNCHANGED <<dbVars, disk, handler, retries>>

Older(n) == IF n < Keep THEN n + 1 ELSE n

\* A fraction of Keep goes by.
Tick ==
  /\ file' = [p \in Papers |-> [file[p] EXCEPT !.age =
                IF file[p].status = "none" THEN 0 ELSE Older(@)]]
  /\ UNCHANGED <<jobs, profiles, liked, disk, handler, workerVars, hit, leaked, retries>>

Api ==
  \/ \E h \in Handlers :
       \/ \E c \in Profiles, p \in Papers : LikeInsert(h, c, p)
       \/ LikeQueueFile(h)
       \/ LikeEnqueue(h)
       \/ LikeAbort(h)
  \/ \E c \in Profiles, p \in Papers : Unlike(c, p)
  \/ \E c \in Profiles : DeleteProfile(c)
  \/ \E j \in DOMAIN jobs : Retry(j)

PdfJob == \/ \E j \in DOMAIN jobs : Claim(j)
          \/ ReadFile \/ Download \/ MarkReady \/ MarkFailed
          \/ Complete \/ Fail

Cleanup == \/ CleanupStart \/ (\E p \in Papers : CleanupNext(p))
           \/ CleanupEnd \/ CleanupRemove \/ CleanupMark

Next == Api \/ PdfJob \/ Cleanup \/ Crash \/ Tick

Spec == Init /\ [][Next]_vars

\* The worker's select serves each ticker in the end, a request that was
\* accepted runs on, time passes, and some day the worker dies no more.
Fairness ==
  /\ <>[][~Crash]_vars
  /\ WF_vars(PdfJob) /\ WF_vars(Cleanup) /\ WF_vars(Tick)
  /\ \A h \in Handlers : WF_vars(LikeQueueFile(h)) /\ WF_vars(LikeEnqueue(h))

FairSpec == Spec /\ Fairness

-----------------------------------------------------------------------------
(***************************************************************************)
(* Safety.                                                                 *)
(***************************************************************************)

\* A row that says ready has its file on disk, so that the API can serve it
\* and a later job may skip the download.  The exception is the instant
\* between os.Remove and the statement that marks the row missing.  A crash or
\* a dropped error in that instant breaks it for good, but never for a paper
\* that no fault touched.
ReadyHasFile ==
  \A p \in Papers \ hit :
    file[p].status = "ready" => p \in disk \/ (wpc = "markMissing" /\ victim = p)

\* The disk holds no file that the table does not know of, so that the cleanup
\* can find it: each has a ready row with its path or is about to get one,
\* whatever second likes, retries and cleanups do to the row meanwhile.  The
\* exceptions are the files a fault has cut off from their row.
FilesAccounted ==
  \A p \in disk \ leaked :
    \/ file[p].status = "ready" /\ file[p].path
    \/ wpc = "markReady" /\ Paper = p

\* What a like of p by c has set in motion and that will, or can be made to,
\* bring the file: a request on its way, a job that waits or that the worker
\* holds, or a failed job its owner sees in the list of failures.
OnItsWay(c, p) ==
  \E h \in Handlers :
    handler[h] # Idle /\ handler[h].profile = c /\ handler[h].paper = p

Recoverable(c, p) ==
  \E j \in DOMAIN jobs :
    /\ jobs[j].profile = c /\ jobs[j].paper = p
    /\ jobs[j].status \in {"pending", "failed"} \/ wjob = j

\* Every like has a ready file or something that will bring it or tell its
\* owner: neither a cleanup that selected the paper before the like, nor
\* another profile's job for the same paper, nor a fault that meets another
\* paper, loses the request.
EachLikeTracked ==
  \A l \in liked : \/ l[2] \in hit
                   \/ file[l[2]].status = "ready"
                   \/ OnItsWay(l[1], l[2])
                   \/ Recoverable(l[1], l[2])

\* Only the cleanup takes a row out of ready: not a second like, nor a job
\* that read the row before another made it ready, unless a fault has touched
\* the paper.
ReadyIsStable ==
  [][\A p \in Papers \ hit :
       file[p].status = "ready" /\ file'[p].status # "ready"
         => wpc = "markMissing" /\ victim = p]_vars

-----------------------------------------------------------------------------
(***************************************************************************)
(* Liveness.                                                               *)
(***************************************************************************)

\* A file that nobody likes any more is removed from the disk, unless a fault
\* has cut it off from its row: a removal or a marking that failed, or a crash
\* between the download and the marking.  Those files the code never gives
\* back, until some later job marks the paper ready again.
UnreferencedCollected ==
  \A p \in Papers :
    (p \in disk \ leaked /\ Likers(p) = {})
      ~> (p \notin disk \ leaked \/ Likers(p) # {})

-----------------------------------------------------------------------------
\* The jobs as JobLifecycle sees them: a row the worker holds is being worked
\* on whatever its status says, a running row it does not hold is orphaned.
Phase ==
  [j \in 1 .. MaxJobs |->
     IF j \notin DOMAIN jobs THEN "absent"
     ELSE IF j = wjob THEN "working"
     ELSE IF jobs[j].status = "pending" THEN "waiting"
     ELSE IF jobs[j].status = "running" THEN "orphaned"
     ELSE "settled"]

Lifecycle == INSTANCE JobLifecycle
               WITH phase <- Phase,
                    MayOrphan <- Faults \cap {"crash", "db"} # {}

\* Every job that waits ends as done or failed, unless the worker died with
\* it: MaxJobs bounds the ids.
JobsSettle ==
  \A j \in 1 .. MaxJobs :
    Phase[j] = "waiting"
      ~> \/ Phase[j] = "settled"
         \/ Phase[j] = "orphaned" /\ jobs[j].paper \in hit

\* One pdf_download job at a time, oldest first, none inserted twice or
\* forgotten once it is claimed.
ImplementsLifecycle == Lifecycle!Spec
=============================================================================
