--------------------------- MODULE PdfCacheProofs ---------------------------
(***************************************************************************)
(* Proofs about PdfCache, for any number of profiles, papers, concurrent   *)
(* requests, jobs and retries, and about the request of PublicPdf on top.  *)
(***************************************************************************)
EXTENDS PublicPdf, TLAPS

\* Writing a status into one row keeps jobs a sequence of rows.
LEMMA SetStatusType ==
  ASSUME jobs \in Seq(Job), NEW j \in DOMAIN jobs, NEW s \in JobStatus,
         SetStatus(j, s)
  PROVE  /\ jobs' \in Seq(Job)
         /\ Len(jobs') = Len(jobs)
         /\ DOMAIN jobs' = DOMAIN jobs
         /\ \A i \in DOMAIN jobs : /\ jobs'[i].profile = jobs[i].profile
                                   /\ jobs'[i].paper = jobs[i].paper
                                   /\ i # j => jobs'[i] = jobs[i]
         /\ jobs'[j].status = s
<1>1. jobs' = [jobs EXCEPT ![j].status = s]
  BY DEF SetStatus
<1>2. \A i \in DOMAIN jobs : jobs[i] \in Job
  OBVIOUS
<1>3. \A i \in DOMAIN jobs : jobs'[i] \in Job
  BY <1>1, <1>2 DEF Job
<1>4. QED
  BY <1>1, <1>2, <1>3 DEF Job

\* Inserting a row keeps jobs a sequence of rows and makes it one longer.
LEMMA EnqueueType ==
  ASSUME jobs \in Seq(Job), NEW c \in Profiles, NEW p \in Papers, Enqueue(c, p)
  PROVE  /\ jobs' \in Seq(Job)
         /\ Len(jobs') = Len(jobs) + 1
         /\ \A i \in DOMAIN jobs : i \in DOMAIN jobs' /\ jobs'[i] = jobs[i]
         /\ Len(jobs') \in DOMAIN jobs'
         /\ jobs'[Len(jobs')] = [profile |-> c, paper |-> p, status |-> "pending"]
<1>1. [profile |-> c, paper |-> p, status |-> "pending"] \in Job
  BY DEF Job, JobStatus
<1>2. QED
  BY <1>1 DEF Enqueue

-----------------------------------------------------------------------------
(***************************************************************************)
(* Typing.  It needs to know that the worker holds a job exactly while it  *)
(* processes one, and a paper exactly while it removes one.                *)
(***************************************************************************)
Control ==
  /\ wpc \in JobSteps <=> wjob # 0
  /\ wpc \in {"remove", "markMissing"} <=> victim # NoPaper
  /\ doomed # {} => wpc \in CleanSteps

TypeInv == TypeOK /\ Control

\* While the worker is in a job step it holds an existing row, of a known paper.
LEMMA HeldJob ==
  ASSUME TypeInv, wpc \in JobSteps
  PROVE  wjob \in DOMAIN jobs /\ Paper \in Papers /\ doomed = {} /\ victim = NoPaper
<1>1. wjob \in DOMAIN jobs
  BY DEF TypeInv, TypeOK, Control
<1>2. jobs[wjob] \in Job
  BY <1>1 DEF TypeInv, TypeOK
<1>3. QED
  BY <1>1, <1>2 DEF Paper, Job, TypeInv, Control, JobSteps, CleanSteps

\* SetPaperFileState, carried out or not, leaves a well-formed table.
LEMMA SetFileType ==
  ASSUME TypeOK, NEW p \in Papers, NEW s \in FileStatus, NEW b \in BOOLEAN,
         SetFile(p, s, b)
  PROVE  file' \in [Papers -> FileRow] /\ hit' \subseteq Papers /\ leaked' \subseteq Papers
<1>1. [status |-> s, path |-> b, age |-> 0] \in FileRow
  BY KeepAssumption DEF FileRow
<1>2. file' \in [Papers -> FileRow]
  BY <1>1 DEF SetFile, TypeOK
<1>3. hit' \subseteq Papers /\ leaked' \subseteq Papers
  BY DEF SetFile, Hit, TypeOK
<1>4. QED
  BY <1>2, <1>3

\* What a like writes into paper_files is a well-formed row.
LEMMA QueuedType ==
  ASSUME NEW row \in FileRow
  PROVE  /\ Queued(row) \in FileRow
         /\ row.status = "ready" <=> Queued(row).status = "ready"
         /\ Queued(row).path = row.path
<1>1. (IF row.status = "ready" THEN "ready" ELSE "queued") \in FileStatus
  BY DEF FileStatus
<1>2. 0 \in 0 .. Keep /\ row.path \in BOOLEAN
  BY KeepAssumption DEF FileRow
<1>3. QED
  BY <1>1, <1>2 DEF Queued, FileRow

\* The typing invariant holds of the empty tables.
LEMMA TypeInit == Init => TypeInv
<1> SUFFICES ASSUME Init PROVE TypeInv
  OBVIOUS
<1>1. [p \in Papers |-> [status |-> "none", path |-> FALSE, age |-> 0]]
        \in [Papers -> FileRow]
  BY KeepAssumption DEF FileRow, FileStatus
<1>2. [p \in Papers |-> 0] \in [Papers -> 0 .. Keep]
  BY KeepAssumption
<1>3. << >> \in Seq(Job) /\ Len(<< >>) = 0
  OBVIOUS
<1>4. retries \in 0 .. MaxRetries
  BY BoundsAssumption DEF Init
<1>5. TypeOK
  BY <1>1, <1>2, <1>3, <1>4 DEF Init, TypeOK
<1>6. QED
  BY <1>5 DEF Init, TypeInv, Control, JobSteps, CleanSteps

\* No action, fault or passing of time breaks the typing invariant.
LEMMA TypeStep == TypeInv /\ [Next]_vars => TypeInv'
<1> SUFFICES ASSUME TypeInv, [Next]_vars PROVE TypeInv'
  OBVIOUS
<1> USE DEF TypeInv
<1>1. ASSUME NEW h \in Handlers, NEW c \in Profiles, NEW p \in Papers,
             LikeInsert(h, c, p)
      PROVE  TypeInv'
  <2>1. liked' \subseteq profiles' \X Papers
    BY <1>1 DEF LikeInsert, TypeOK
  <2>3. handler' \in [Handlers -> {Idle} \cup Request]
    BY <1>1 DEF LikeInsert, TypeOK, Request
  <2>4. QED
    BY <1>1, <2>1, <2>3 DEF LikeInsert, TypeOK, Control, workerVars
<1>2. ASSUME NEW h \in Handlers, LikeQueueFile(h)
      PROVE  TypeInv'
  <2>1. handler[h] \in Request
    BY <1>2 DEF LikeQueueFile, TypeOK, Idle
  <2>2. file' \in [Papers -> FileRow]
    BY <1>2, <2>1, QueuedType DEF LikeQueueFile, TypeOK, Request
  <2>3. handler' \in [Handlers -> {Idle} \cup Request]
    BY <1>2, <2>1 DEF LikeQueueFile, TypeOK, Request
  <2>4. QED
    BY <1>2, <2>2, <2>3 DEF LikeQueueFile, TypeOK, Control, workerVars
<1>3. ASSUME NEW h \in Handlers, LikeEnqueue(h)
      PROVE  TypeInv'
  <2>1. handler[h].profile \in Profiles /\ handler[h].paper \in Papers
    BY <1>3 DEF LikeEnqueue, TypeOK, Idle, Request
  <2>2. jobs' \in Seq(Job) /\ Len(jobs') = Len(jobs) + 1
    BY <1>3, <2>1, EnqueueType DEF LikeEnqueue, TypeOK
  <2>3. handler' \in [Handlers -> {Idle} \cup Request]
    BY <1>3 DEF LikeEnqueue, TypeOK
  <2>4. wjob' \in 0 .. Len(jobs')
    BY <1>3, <2>2 DEF LikeEnqueue, TypeOK, workerVars
  <2>5. QED
    BY <1>3, <2>2, <2>3, <2>4 DEF LikeEnqueue, TypeOK, Control, workerVars
<1>4. ASSUME NEW h \in Handlers, LikeAbort(h)
      PROVE  TypeInv'
  <2>1. handler[h].paper \in Papers
    BY <1>4 DEF LikeAbort, TypeOK, Request
  <2>2. QED
    BY <1>4, <2>1 DEF LikeAbort, Hit, TypeOK, Control, workerVars, dbVars
<1>5. ASSUME NEW c \in Profiles, NEW p \in Papers, Unlike(c, p)
      PROVE  TypeInv'
  BY <1>5 DEF Unlike, TypeOK, Control, workerVars
<1>6. ASSUME NEW c \in Profiles, DeleteProfile(c)
      PROVE  TypeInv'
  <2>1. liked' \subseteq profiles' \X Papers
    BY <1>6 DEF DeleteProfile, TypeOK
  <2>2. QED
    BY <1>6, <2>1 DEF DeleteProfile, TypeOK, Control, workerVars
<1>7. ASSUME NEW j \in DOMAIN jobs, Retry(j)
      PROVE  TypeInv'
  <2>1. jobs' \in Seq(Job) /\ Len(jobs') = Len(jobs)
    BY <1>7, SetStatusType DEF Retry, RetryJob, JobStatus, TypeOK
  <2>2. retries' \in 0 .. MaxRetries
    BY <1>7, BoundsAssumption DEF Retry, TypeOK
  <2>3. QED
    BY <1>7, <2>1, <2>2 DEF Retry, TypeOK, Control, workerVars
<1>8. ASSUME NEW j \in DOMAIN jobs, Claim(j)
      PROVE  TypeInv'
  <2>1. jobs' \in Seq(Job) /\ Len(jobs') = Len(jobs)
    BY <1>8, SetStatusType DEF Claim, ClaimJob, JobStatus, TypeOK
  <2>2. wjob' \in 0 .. Len(jobs') /\ wjob' # 0
    BY <1>8, <2>1 DEF Claim, TypeOK
  <2>3. QED
    BY <1>8, <2>1, <2>2 DEF Claim, TypeOK, Control, JobSteps, CleanSteps
<1>9. ASSUME ReadFile PROVE TypeInv'
  <2>1. Paper \in Papers
    BY <1>9, HeldJob DEF ReadFile, JobSteps
  <2>2. QED
    BY <1>9, <2>1 DEF ReadFile, Goto, Hit, TypeOK, Control, JobSteps, CleanSteps, dbVars
<1>10. ASSUME Download PROVE TypeInv'
  <2>1. Paper \in Papers
    BY <1>10, HeldJob DEF Download, JobSteps
  <2>2. QED
    BY <1>10, <2>1 DEF Download, Goto, TypeOK, Control, JobSteps, CleanSteps, dbVars
<1>11. ASSUME MarkReady PROVE TypeInv'
  <2>1. file' \in [Papers -> FileRow] /\ hit' \subseteq Papers /\ leaked' \subseteq Papers
    BY <1>11, HeldJob, SetFileType DEF MarkReady, JobSteps, FileStatus
  <2>2. QED
    BY <1>11, <2>1 DEF MarkReady, Goto, TypeOK, Control, JobSteps, CleanSteps
<1>12. ASSUME MarkFailed PROVE TypeInv'
  <2>1. file' \in [Papers -> FileRow] /\ hit' \subseteq Papers /\ leaked' \subseteq Papers
    BY <1>12, HeldJob, SetFileType DEF MarkFailed, JobSteps, FileStatus
  <2>2. QED
    BY <1>12, <2>1 DEF MarkFailed, Goto, TypeOK, Control, JobSteps, CleanSteps
<1>13. ASSUME Complete PROVE TypeInv'
  <2>1. jobs' \in Seq(Job) /\ Len(jobs') = Len(jobs)
    BY <1>13, HeldJob, SetStatusType
       DEF Complete, CompleteJob, JobStatus, TypeOK, JobSteps
  <2>2. QED
    BY <1>13, <2>1 DEF Complete, Finish, TypeOK, Control, JobSteps, CleanSteps
<1>14. ASSUME Fail PROVE TypeInv'
  <2>1. jobs' \in Seq(Job) /\ Len(jobs') = Len(jobs)
    BY <1>14, HeldJob, SetStatusType DEF Fail, FailJob, JobStatus, TypeOK, JobSteps
  <2>2. hit' \subseteq Papers
    BY <1>14, HeldJob DEF Fail, Hit, TypeOK, JobSteps
  <2>3. QED
    BY <1>14, <2>1, <2>2 DEF Fail, Finish, TypeOK, Control, JobSteps, CleanSteps
<1>15. ASSUME CleanupStart PROVE TypeInv'
  BY <1>15 DEF CleanupStart, Unreferenced, TypeOK, Control, JobSteps, CleanSteps, dbVars
<1>16. ASSUME NEW p \in Papers, CleanupNext(p) PROVE TypeInv'
  BY <1>16, NoPaperAssumption
     DEF CleanupNext, TypeOK, Control, JobSteps, CleanSteps, dbVars
<1>17. ASSUME CleanupEnd PROVE TypeInv'
  BY <1>17 DEF CleanupEnd, TypeOK, Control, JobSteps, CleanSteps, dbVars
<1>18. ASSUME CleanupRemove PROVE TypeInv'
  <2>1. victim \in Papers
    BY <1>18 DEF CleanupRemove, TypeOK, Control
  <2>2. leaked' \subseteq Papers /\ disk' \subseteq Papers
    BY <1>18, <2>1 DEF CleanupRemove, TypeOK
  <2>3. QED
    BY <1>18, <2>2 DEF CleanupRemove, Goto, TypeOK, Control, JobSteps, CleanSteps, dbVars
<1>19. ASSUME CleanupMark PROVE TypeInv'
  <2>1. victim \in Papers
    BY <1>19 DEF CleanupMark, TypeOK, Control
  <2>2. file' \in [Papers -> FileRow] /\ hit' \subseteq Papers /\ leaked' \subseteq Papers
    BY <1>19, <2>1, SetFileType DEF CleanupMark, FileStatus
  <2>3. QED
    BY <1>19, <2>2 DEF CleanupMark, TypeOK, Control, JobSteps, CleanSteps
<1>20. ASSUME Crash PROVE TypeInv'
  <2>1. hit' \subseteq Papers /\ leaked' \subseteq Papers
    BY <1>20, HeldJob DEF Crash, Hit, TypeOK, Control, JobSteps
  <2>2. QED
    BY <1>20, <2>1 DEF Crash, TypeOK, Control, JobSteps, CleanSteps, dbVars
<1>21. ASSUME Tick PROVE TypeInv'
  <2>1. \A n \in 0 .. Keep : Older(n) \in 0 .. Keep
    BY KeepAssumption DEF Older
  <2>2. ASSUME NEW p \in Papers
        PROVE  [file[p] EXCEPT !.age =
                  IF file[p].status = "none" THEN 0 ELSE Older(@)] \in FileRow
    <3>1. file[p] \in FileRow
      BY DEF TypeOK
    <3>2. (IF file[p].status = "none" THEN 0 ELSE Older(file[p].age)) \in 0 .. Keep
      BY <2>1, <3>1, KeepAssumption DEF FileRow
    <3>3. QED
      BY <3>1, <3>2 DEF FileRow
  <2>3. file' \in [Papers -> FileRow]
    BY <1>21, <2>2 DEF Tick
  <2>4. QED
    BY <1>21, <2>3 DEF Tick, TypeOK, Control, workerVars
<1>22. CASE UNCHANGED vars
  BY <1>22 DEF vars, TypeOK, Control
<1>23. QED
  BY <1>1, <1>2, <1>3, <1>4, <1>5, <1>6, <1>7, <1>8, <1>9, <1>10, <1>11, <1>12,
     <1>13, <1>14, <1>15, <1>16, <1>17, <1>18, <1>19, <1>20, <1>21, <1>22
     DEF Next, Api, PdfJob, Cleanup

\* Every variable keeps its type: what the worker holds is always a row of
\* jobs and a known paper, whatever faults happen.
THEOREM TypeCorrect == Spec => []TypeOK
<1>1. Spec => []TypeInv
  BY TypeInit, TypeStep, PTL DEF Spec
<1>2. QED
  BY <1>1, PTL DEF TypeInv

-----------------------------------------------------------------------------
(***************************************************************************)
(* How a row becomes ready and how it stops to be.                         *)
(***************************************************************************)
\* A row becomes ready only as the worker marks it, and stops to be ready
\* only as the cleanup marks it missing.
LEMMA ReadyStep ==
  ASSUME TypeInv, [Next]_vars, NEW p \in Papers
  PROVE  /\ file[p].status = "ready" /\ file'[p].status # "ready" =>
              (MarkFailed /\ p = Paper) \/ (CleanupMark /\ p = victim)
         /\ file[p].status # "ready" /\ file'[p].status = "ready" =>
              MarkReady /\ p = Paper /\ file'[p].path
         /\ file[p].status = "ready" /\ file'[p].status = "ready" =>
              file'[p].path \/ file'[p].path = file[p].path
<1> USE DEF TypeInv
<1>0. file[p] \in FileRow
  BY DEF TypeOK
<1>1. ASSUME NEW h \in Handlers, LikeQueueFile(h)
      PROVE  /\ file[p].status = "ready" <=> file'[p].status = "ready"
             /\ file'[p].path = file[p].path
  BY <1>0, <1>1, QueuedType DEF LikeQueueFile, TypeOK
<1>2. ASSUME Tick
      PROVE  /\ file'[p].status = file[p].status
             /\ file'[p].path = file[p].path
  BY <1>0, <1>2 DEF Tick, FileRow
<1>3. CASE MarkReady
  BY <1>3, HeldJob DEF MarkReady, SetFile, TypeOK, JobSteps
<1>4. CASE MarkFailed
  BY <1>4, HeldJob DEF MarkFailed, SetFile, TypeOK, JobSteps
<1>5. CASE CleanupMark
  BY <1>5 DEF CleanupMark, SetFile, TypeOK, Control
<1>6. ASSUME UNCHANGED file
      PROVE  /\ file'[p].status = file[p].status
             /\ file'[p].path = file[p].path
  BY <1>6
<1>7. ASSUME NEW h \in Handlers, NEW c \in Profiles, NEW q \in Papers,
             LikeInsert(h, c, q)
      PROVE  UNCHANGED file
  BY <1>7 DEF LikeInsert
<1>8. ASSUME NEW h \in Handlers, LikeEnqueue(h) \/ LikeAbort(h)
      PROVE  UNCHANGED file
  BY <1>8 DEF LikeEnqueue, LikeAbort, dbVars
<1>9. ASSUME NEW c \in Profiles, DeleteProfile(c)
      PROVE  UNCHANGED file
  BY <1>9 DEF DeleteProfile
<1>10. ASSUME NEW c \in Profiles, NEW q \in Papers, Unlike(c, q)
      PROVE  UNCHANGED file
  BY <1>10 DEF Unlike
<1>11. ASSUME NEW j \in DOMAIN jobs, Retry(j) \/ Claim(j)
      PROVE  UNCHANGED file
  BY <1>11 DEF Retry, Claim
<1>12. ASSUME ReadFile \/ Download \/ Complete \/ Fail \/ CleanupStart
                \/ CleanupEnd \/ CleanupRemove \/ Crash
      PROVE  UNCHANGED file
  BY <1>12 DEF ReadFile, Download, Complete, Fail, CleanupStart, CleanupEnd,
               CleanupRemove, Crash, dbVars
<1>13. ASSUME NEW q \in Papers, CleanupNext(q)
      PROVE  UNCHANGED file
  BY <1>13 DEF CleanupNext, dbVars
<1>14. CASE UNCHANGED vars
  BY <1>14, <1>6 DEF vars
<1>15. QED
  BY <1>1, <1>2, <1>3, <1>4, <1>5, <1>6, <1>7, <1>8, <1>9, <1>10, <1>11, <1>12,
     <1>13, <1>14 DEF Next, Api, PdfJob, Cleanup

(***************************************************************************)
(* A job that goes on to download works on a row that is not ready: with   *)
(* one worker nobody else makes it ready meanwhile.                        *)
(***************************************************************************)
SoleWriter ==
  /\ \A p \in Papers : file[p].status = "ready" => file[p].path
  /\ wpc \in {"download", "markReady", "markFailed"} =>
       Paper \in hit \/ file[Paper].status # "ready"

\* The API and the clock leave the worker's variables alone.
LEMMA Outside ==
  ASSUME Api \/ Tick
  PROVE  UNCHANGED workerVars
BY DEF Api, Tick, LikeInsert, LikeQueueFile, LikeEnqueue, LikeAbort, Unlike,
       DeleteProfile, Retry

\* Rows of jobs are never deleted and keep their payload.
LEMMA JobsStep ==
  ASSUME TypeInv, [Next]_vars, NEW j \in DOMAIN jobs
  PROVE  /\ j \in DOMAIN jobs'
         /\ jobs'[j].profile = jobs[j].profile
         /\ jobs'[j].paper = jobs[j].paper
         /\ jobs'[j].status # jobs[j].status =>
              \/ Retry(j)
              \/ Claim(j)
              \/ (Complete \/ Fail) /\ j = wjob
<1> USE DEF TypeInv, TypeOK
<1>1. ASSUME NEW h \in Handlers, LikeEnqueue(h)
      PROVE  j \in DOMAIN jobs' /\ jobs'[j] = jobs[j]
  <2>1. handler[h].profile \in Profiles /\ handler[h].paper \in Papers
    BY <1>1 DEF LikeEnqueue, Idle, Request
  <2>2. QED
    BY <1>1, <2>1, EnqueueType DEF LikeEnqueue
<1>2. ASSUME NEW i \in DOMAIN jobs, Retry(i) \/ Claim(i)
      PROVE  /\ j \in DOMAIN jobs'
             /\ jobs'[j].profile = jobs[j].profile
             /\ jobs'[j].paper = jobs[j].paper
             /\ j # i => jobs'[j] = jobs[j]
  BY <1>2, SetStatusType DEF Retry, RetryJob, Claim, ClaimJob, JobStatus
<1>3. ASSUME Complete \/ Fail
      PROVE  /\ j \in DOMAIN jobs'
             /\ jobs'[j].profile = jobs[j].profile
             /\ jobs'[j].paper = jobs[j].paper
             /\ j # wjob => jobs'[j] = jobs[j]
  <2>1. wjob \in DOMAIN jobs
    BY <1>3, HeldJob DEF Complete, Fail, JobSteps
  <2>2. CASE UNCHANGED jobs
    BY <2>2
  <2>3. CASE CompleteJob(wjob)
    BY <2>1, <2>3, SetStatusType DEF CompleteJob, JobStatus
  <2>4. CASE FailJob(wjob)
    BY <2>1, <2>4, SetStatusType DEF FailJob, JobStatus
  <2>5. QED
    BY <1>3, <2>2, <2>3, <2>4 DEF Complete, Fail
<1>4. ASSUME UNCHANGED jobs
      PROVE  j \in DOMAIN jobs' /\ jobs'[j] = jobs[j]
  BY <1>4
<1>5. ASSUME NEW h \in Handlers, NEW c \in Profiles, NEW p \in Papers,
             LikeInsert(h, c, p)
      PROVE  UNCHANGED jobs
  BY <1>5 DEF LikeInsert
<1>6. ASSUME NEW h \in Handlers, LikeQueueFile(h) \/ LikeAbort(h)
      PROVE  UNCHANGED jobs
  BY <1>6 DEF LikeQueueFile, LikeAbort, dbVars
<1>7. ASSUME NEW c \in Profiles, NEW p \in Papers, Unlike(c, p)
      PROVE  UNCHANGED jobs
  BY <1>7 DEF Unlike
<1>8. ASSUME NEW c \in Profiles, DeleteProfile(c)
      PROVE  UNCHANGED jobs
  BY <1>8 DEF DeleteProfile
<1>9. ASSUME NEW p \in Papers, CleanupNext(p)
      PROVE  UNCHANGED jobs
  BY <1>9 DEF CleanupNext, dbVars
<1>10. ASSUME ReadFile \/ Download \/ MarkReady \/ MarkFailed \/ CleanupStart
                \/ CleanupEnd \/ CleanupRemove \/ CleanupMark \/ Crash \/ Tick
      PROVE  UNCHANGED jobs
  BY <1>10 DEF ReadFile, Download, MarkReady, MarkFailed, CleanupStart,
               CleanupEnd, CleanupRemove, CleanupMark, Crash, Tick, dbVars
<1>11. CASE UNCHANGED vars
  BY <1>11, <1>4 DEF vars
<1>12. QED
  BY <1>1, <1>2, <1>3, <1>4, <1>5, <1>6, <1>7, <1>8, <1>9, <1>10, <1>11
     DEF Next, Api, PdfJob, Cleanup

\* While the worker keeps its job it keeps its paper: no API request and no
\* tick changes what it is downloading.
LEMMA SamePaper ==
  ASSUME TypeInv, [Next]_vars, wpc \in JobSteps, wjob' = wjob
  PROVE  Paper' = Paper
BY HeldJob, JobsStep DEF Paper

\* What a fault has touched stays on record.
LEMMA HitStep ==
  ASSUME [Next]_vars
  PROVE  hit \subseteq hit'
<1>1. ASSUME NEW h \in Handlers,
             \/ \E c \in Profiles, p \in Papers : LikeInsert(h, c, p)
             \/ LikeQueueFile(h) \/ LikeEnqueue(h) \/ LikeAbort(h)
      PROVE  hit \subseteq hit'
  BY <1>1 DEF LikeInsert, LikeQueueFile, LikeEnqueue, LikeAbort, Hit
<1>2. ASSUME NEW c \in Profiles, DeleteProfile(c) \/ \E p \in Papers : Unlike(c, p)
      PROVE  hit \subseteq hit'
  BY <1>2 DEF DeleteProfile, Unlike
<1>3. ASSUME NEW j \in DOMAIN jobs, Retry(j) \/ Claim(j)
      PROVE  hit \subseteq hit'
  BY <1>3 DEF Retry, Claim
<1>4. ASSUME ReadFile \/ Download \/ MarkReady \/ MarkFailed \/ Complete \/ Fail
      PROVE  hit \subseteq hit'
  BY <1>4 DEF ReadFile, Download, MarkReady, MarkFailed, SetFile, Complete, Fail, Hit
<1>5. ASSUME Cleanup \/ Crash \/ Tick \/ UNCHANGED vars
      PROVE  hit \subseteq hit'
  BY <1>5 DEF Cleanup, CleanupStart, CleanupNext, CleanupEnd, CleanupRemove,
              CleanupMark, SetFile, Crash, Tick, vars, Hit
<1>6. QED
  BY <1>1, <1>2, <1>3, <1>4, <1>5 DEF Next, Api, PdfJob

\* The row the worker is downloading stays other than ready until the worker
\* itself writes it.
LEMMA SoleWriterStep ==
  ASSUME TypeInv, SoleWriter, [Next]_vars
  PROVE  SoleWriter'
<1>1. ASSUME NEW p \in Papers, file'[p].status = "ready"
      PROVE  file'[p].path
  BY <1>1, ReadyStep DEF SoleWriter
<1>2. ASSUME wpc' \in {"download", "markReady", "markFailed"}, Paper' \notin hit'
      PROVE  file'[Paper'].status # "ready"
  <2>1. CASE (Api \/ Tick) \/ UNCHANGED vars
    <3>1. wpc' = wpc /\ wjob' = wjob
      BY <2>1, Outside DEF workerVars, vars
    <3>2. Paper' = Paper /\ Paper \in Papers /\ file[Paper].status # "ready"
      BY <1>2, <3>1, SamePaper, HeldJob, HitStep DEF SoleWriter, JobSteps
    <3>3. ~MarkReady
      BY <3>1 DEF MarkReady, Goto
    <3>4. QED
      BY <3>2, <3>3, ReadyStep
  <2>2. CASE ReadFile
    <3>1. wpc \in JobSteps /\ wjob' = wjob /\ UNCHANGED file /\ wpc' = "download"
      BY <1>2, <2>2 DEF ReadFile, Goto, dbVars, JobSteps
    <3>2. Paper' = Paper /\ Paper \in Papers
      BY <3>1, SamePaper, HeldJob
    <3>3. ~(file[Paper].status = "ready" /\ file[Paper].path)
      BY <1>2, <2>2, <3>2 DEF ReadFile, Goto, Hit
    <3>4. QED
      BY <3>1, <3>2, <3>3 DEF SoleWriter
  <2>3. CASE Download
    <3>1. wpc \in JobSteps /\ wjob' = wjob /\ UNCHANGED file /\ wpc = "download"
      BY <2>3 DEF Download, Goto, dbVars, JobSteps
    <3>2. QED
      BY <1>2, <3>1, SamePaper, HitStep DEF SoleWriter
  <2>4. ASSUME NEW j \in DOMAIN jobs, Claim(j)
        PROVE  FALSE
    BY <1>2, <2>4 DEF Claim
  <2>5. ASSUME MarkReady \/ MarkFailed \/ Complete \/ Fail \/ Cleanup \/ Crash
        PROVE  FALSE
    BY <1>2, <2>5 DEF MarkReady, MarkFailed, Complete, Fail, Cleanup, CleanupStart,
       CleanupNext, CleanupEnd, CleanupRemove, CleanupMark, Crash, Goto, Finish
  <2>6. QED
    BY <2>1, <2>2, <2>3, <2>4, <2>5 DEF Next, PdfJob
<1>3. QED
  BY <1>1, <1>2 DEF SoleWriter

\* Only the cleanup takes a row out of ready, for every paper that no fault has
\* touched and whatever faults meet the others.
THEOREM ReadyStable == Spec => ReadyIsStable
<1>1. Init => SoleWriter
  BY DEF Init, SoleWriter
<1>2. Spec => [](TypeInv /\ SoleWriter)
  BY <1>1, TypeInit, TypeStep, SoleWriterStep, PTL DEF Spec
<1>3. TypeInv /\ SoleWriter /\ [Next]_vars =>
        [\A p \in Papers \ hit : file[p].status = "ready" /\ file'[p].status # "ready"
             => wpc = "markMissing" /\ victim = p]_vars
  BY ReadyStep DEF SoleWriter, MarkFailed, CleanupMark
<1>4. QED
  BY <1>2, <1>3, PTL DEF Spec, ReadyIsStable

-----------------------------------------------------------------------------
(***************************************************************************)
(* A ready row has its file.  What has to be added is that the worker has  *)
(* the file when it is about to mark the row ready.                        *)
(***************************************************************************)
FilesInv ==
  /\ ReadyHasFile
  /\ wpc = "markReady" => Paper \in disk

\* A file goes only with the cleanup, the worker has not lost it yet.
LEMMA DiskStep ==
  ASSUME [Next]_vars, NEW p \in Papers, p \in disk, p \notin disk'
  PROVE  CleanupRemove /\ p = victim /\ wpc' = "markMissing" /\ victim' = victim
<1>1. ASSUME Api \/ Tick PROVE UNCHANGED disk
  BY <1>1 DEF Api, Tick, LikeInsert, LikeQueueFile, LikeEnqueue, LikeAbort, Unlike,
              DeleteProfile, Retry
<1>2. ASSUME NEW j \in DOMAIN jobs, Claim(j) PROVE UNCHANGED disk
  BY <1>2 DEF Claim
<1>3. ASSUME ReadFile \/ MarkReady \/ MarkFailed \/ Complete \/ Fail \/ Crash
      PROVE  UNCHANGED disk
  BY <1>3 DEF ReadFile, MarkReady, MarkFailed, Complete, Fail, Crash
<1>4. ASSUME Download PROVE disk \subseteq disk'
  BY <1>4 DEF Download
<1>5. ASSUME CleanupStart \/ CleanupEnd \/ CleanupMark
      PROVE  UNCHANGED disk
  BY <1>5 DEF CleanupStart, CleanupEnd, CleanupMark
<1>6. ASSUME NEW q \in Papers, CleanupNext(q) PROVE UNCHANGED disk
  BY <1>6 DEF CleanupNext
<1>7. CASE CleanupRemove
  BY <1>7 DEF CleanupRemove, Goto
<1>8. QED
  BY <1>1, <1>2, <1>3, <1>4, <1>5, <1>6, <1>7 DEF Next, PdfJob, Cleanup, vars

\* A row being marked missing is missing before the worker turns to anything
\* else, or a fault has touched its paper.
LEMMA MarkStep ==
  ASSUME TypeInv, [Next]_vars, wpc = "markMissing"
  PROVE  \/ wpc' = wpc /\ victim' = victim
         \/ CleanupMark /\ file'[victim].status = "missing"
         \/ victim \in hit'
<1>1. CASE (Api \/ Tick) \/ UNCHANGED vars
  BY <1>1, Outside DEF workerVars, vars
<1>2. CASE CleanupMark
  BY <1>2 DEF CleanupMark, SetFile, Hit, TypeInv, TypeOK, Control
<1>3. ASSUME NEW j \in DOMAIN jobs, Claim(j) PROVE FALSE
  BY <1>3 DEF Claim
<1>4. ASSUME NEW p \in Papers, CleanupNext(p) PROVE FALSE
  BY <1>4 DEF CleanupNext
<1>5. ASSUME ReadFile \/ Download \/ MarkReady \/ MarkFailed \/ Complete \/ Fail
               \/ CleanupStart \/ CleanupEnd \/ CleanupRemove
      PROVE  FALSE
  BY <1>5 DEF ReadFile, Download, MarkReady, MarkFailed, Complete, Fail,
              CleanupStart, CleanupEnd, CleanupRemove
<1>6. CASE Crash
  BY <1>6 DEF Crash, Hit, JobSteps
<1>7. QED
  BY <1>1, <1>2, <1>3, <1>4, <1>5, <1>6 DEF Next, PdfJob, Cleanup

\* The invariant behind FilesPresent survives every step.
LEMMA FilesStep ==
  ASSUME TypeInv, FilesInv, [Next]_vars
  PROVE  FilesInv'
<1>1. ASSUME NEW p \in Papers, p \notin hit', file'[p].status = "ready"
      PROVE  p \in disk' \/ (wpc' = "markMissing" /\ victim' = p)
  <2>1. CASE file[p].status # "ready"
    <3>1. MarkReady /\ p = Paper
      BY <1>1, <2>1, ReadyStep
    <3>2. QED
      BY <3>1 DEF MarkReady, FilesInv
  <2>2. CASE file[p].status = "ready" /\ p \in disk
    BY <2>2, DiskStep
  <2>3. CASE file[p].status = "ready" /\ wpc = "markMissing" /\ victim = p
    BY <1>1, <2>3, MarkStep
  <2>4. QED
    BY <1>1, <2>1, <2>2, <2>3, HitStep DEF FilesInv, ReadyHasFile
<1>2. ASSUME wpc' = "markReady"
      PROVE  Paper' \in disk'
  <2>1. CASE (Api \/ Tick) \/ UNCHANGED vars
    <3>1. wpc = "markReady" /\ wjob' = wjob
      BY <1>2, <2>1, Outside DEF workerVars, vars
    <3>2. Paper' = Paper /\ Paper \in Papers /\ Paper \in disk
      BY <3>1, SamePaper, HeldJob DEF FilesInv, JobSteps
    <3>3. ~CleanupRemove
      BY <3>1 DEF CleanupRemove
    <3>4. QED
      BY <3>2, <3>3, DiskStep
  <2>2. CASE Download
    <3>1. wpc \in JobSteps /\ wjob' = wjob /\ disk' = disk \cup {Paper}
      BY <1>2, <2>2 DEF Download, Goto, JobSteps
    <3>2. QED
      BY <3>1, SamePaper
  <2>3. ASSUME NEW j \in DOMAIN jobs, Claim(j)
        PROVE  FALSE
    BY <1>2, <2>3 DEF Claim
  <2>4. ASSUME ReadFile \/ MarkReady \/ MarkFailed \/ Complete \/ Fail \/ Cleanup
                 \/ Crash
        PROVE  FALSE
    BY <1>2, <2>4 DEF ReadFile, MarkReady, MarkFailed, Complete, Fail, Cleanup,
       CleanupStart, CleanupNext, CleanupEnd, CleanupRemove, CleanupMark, Crash,
       Goto, Finish
  <2>5. QED
    BY <2>1, <2>2, <2>3, <2>4 DEF Next, PdfJob
<1>3. QED
  BY <1>1, <1>2 DEF FilesInv, ReadyHasFile

\* A row that says ready has its file on disk, but for the cleanup's own
\* instant, for every paper that no fault has touched.
THEOREM FilesPresent == Spec => []ReadyHasFile
<1>1. Init => FilesInv
  BY DEF Init, FilesInv, ReadyHasFile
<1>2. Spec => [](TypeInv /\ FilesInv)
  BY <1>1, TypeInit, TypeStep, FilesStep, PTL DEF Spec
<1>3. QED
  BY <1>2, PTL DEF FilesInv

-----------------------------------------------------------------------------
(***************************************************************************)
(* Every file is accounted for.  What has to be added is that the worker   *)
(* downloads only where there is no file yet, or where a failed read of    *)
(* the row has cut the file off, and that a file it could not remove is    *)
(* cut off before its row is marked missing.                               *)
(***************************************************************************)
Known(p) == file[p].status = "ready" /\ file[p].path

AccountInv ==
  /\ FilesAccounted
  /\ wpc \in {"download", "markFailed"} => Paper \notin disk \ leaked
  /\ wpc = "markMissing" => victim \notin disk \ leaked

\* A row that knows its file stops to only as a job fails or a cleanup ends.
LEMMA KnownStep ==
  ASSUME TypeInv, [Next]_vars, NEW p \in Papers, Known(p), ~Known(p)'
  PROVE  (MarkFailed /\ p = Paper) \/ (CleanupMark /\ p = victim)
<1>1. CASE file'[p].status # "ready"
  BY <1>1, ReadyStep DEF Known
<1>2. CASE file'[p].status = "ready"
  BY <1>2, ReadyStep DEF Known
<1>3. QED
  BY <1>1, <1>2

\* A file appears on the disk, or comes back to its row, only by a download, a
\* marking or a removal.
LEMMA LeakStep ==
  ASSUME TypeInv, [Next]_vars, NEW p \in Papers, p \in disk' \ leaked',
         p \notin disk \ leaked
  PROVE  (Download /\ p = Paper /\ wpc' = "markReady") \/ (MarkReady /\ Known(p)')
<1>1. ASSUME Api \/ Tick PROVE UNCHANGED <<disk, leaked>>
  BY <1>1 DEF Api, Tick, LikeInsert, LikeQueueFile, LikeEnqueue, LikeAbort, Unlike,
              DeleteProfile, Retry
<1>2. ASSUME NEW j \in DOMAIN jobs, Claim(j) PROVE UNCHANGED <<disk, leaked>>
  BY <1>2 DEF Claim
<1>3. ASSUME ReadFile \/ Complete \/ Fail \/ Crash
      PROVE  UNCHANGED disk /\ leaked \subseteq leaked'
  BY <1>3 DEF ReadFile, Complete, Fail, Crash
<1>4. ASSUME MarkFailed \/ CleanupMark
      PROVE  UNCHANGED <<disk, leaked>>
  BY <1>4 DEF MarkFailed, CleanupMark, SetFile
<1>5. ASSUME CleanupStart \/ CleanupEnd \/ \E q \in Papers : CleanupNext(q)
      PROVE  UNCHANGED <<disk, leaked>>
  BY <1>5 DEF CleanupStart, CleanupEnd, CleanupNext
<1>6. ASSUME CleanupRemove PROVE disk' \ leaked' \subseteq disk \ leaked
  BY <1>6 DEF CleanupRemove
<1>7. CASE Download
  BY <1>7 DEF Download, Goto
<1>8. CASE MarkReady
  <2>1. Paper \in Papers /\ UNCHANGED disk
    BY <1>8, HeldJob DEF MarkReady, JobSteps
  <2>2. /\ p = Paper
        /\ file' = [file EXCEPT ![Paper] =
                      [status |-> "ready", path |-> TRUE, age |-> 0]]
    BY <1>8, <2>1 DEF MarkReady, SetFile
  <2>3. file'[p] = [status |-> "ready", path |-> TRUE, age |-> 0]
    BY <2>1, <2>2 DEF TypeInv, TypeOK
  <2>4. QED
    BY <1>8, <2>3 DEF Known
<1>9. CASE UNCHANGED vars
  BY <1>9 DEF vars
<1>10. QED
  BY <1>1, <1>2, <1>3, <1>4, <1>5, <1>6, <1>7, <1>8, <1>9 DEF Next, PdfJob, Cleanup

\* A worker about to mark a row ready does so, or leaves the file cut off.
LEMMA MarkReadyStep ==
  ASSUME TypeInv, [Next]_vars, wpc = "markReady"
  PROVE  \/ wpc' = wpc /\ Paper' = Paper
         \/ file'[Paper].status = "ready" /\ file'[Paper].path
         \/ Paper \in leaked'
<1>0. Paper \in Papers
  BY HeldJob DEF JobSteps
<1>1. CASE (Api \/ Tick) \/ UNCHANGED vars
  <2>1. wpc' = wpc /\ wjob' = wjob
    BY <1>1, Outside DEF workerVars, vars
  <2>2. QED
    BY <2>1, SamePaper DEF JobSteps
<1>2. CASE MarkReady
  <2>1. CASE file' = [file EXCEPT ![Paper] =
                        [status |-> "ready", path |-> TRUE, age |-> 0]]
    <3>1. file'[Paper] = [status |-> "ready", path |-> TRUE, age |-> 0]
      BY <1>0, <2>1 DEF TypeInv, TypeOK
    <3>2. QED
      BY <3>1
  <2>2. CASE leaked' = leaked \cup {Paper}
    BY <2>2
  <2>3. QED
    BY <1>2, <2>1, <2>2 DEF MarkReady, SetFile
<1>3. ASSUME NEW j \in DOMAIN jobs, Claim(j) PROVE FALSE
  BY <1>3 DEF Claim
<1>4. ASSUME NEW p \in Papers, CleanupNext(p) PROVE FALSE
  BY <1>4 DEF CleanupNext
<1>5. ASSUME ReadFile \/ Download \/ MarkFailed \/ Complete \/ Fail
               \/ CleanupStart \/ CleanupEnd \/ CleanupRemove \/ CleanupMark
      PROVE  FALSE
  BY <1>5 DEF ReadFile, Download, MarkFailed, Complete, Fail,
              CleanupStart, CleanupEnd, CleanupRemove, CleanupMark
<1>6. CASE Crash
  BY <1>6 DEF Crash
<1>7. QED
  BY <1>1, <1>2, <1>3, <1>4, <1>5, <1>6 DEF Next, PdfJob, Cleanup

\* The invariant behind AllAccounted survives every step.
LEMMA AccountStep ==
  ASSUME TypeInv, AccountInv, [Next]_vars
  PROVE  AccountInv'
<1>1. ASSUME NEW p \in Papers, p \in disk' \ leaked'
      PROVE  Known(p)' \/ (wpc' = "markReady" /\ Paper' = p)
  <2>1. CASE p \notin disk \ leaked
    <3>1. CASE MarkReady /\ Known(p)'
      BY <3>1
    <3>2. CASE Download /\ p = Paper /\ wpc' = "markReady"
      <4>1. wpc \in JobSteps /\ wjob' = wjob
        BY <3>2 DEF Download, Goto, JobSteps
      <4>2. QED
        BY <3>2, <4>1, SamePaper
    <3>3. QED
      BY <1>1, <2>1, <3>1, <3>2, LeakStep
  <2>2. CASE p \in disk \ leaked /\ Known(p)
    <3>1. ~(MarkFailed /\ p = Paper) /\ ~(CleanupMark /\ p = victim)
      BY <2>2 DEF MarkFailed, CleanupMark, AccountInv
    <3>2. QED
      BY <2>2, <3>1, KnownStep
  <2>3. CASE p \in disk \ leaked /\ wpc = "markReady" /\ Paper = p
    BY <1>1, <2>3, MarkReadyStep DEF Known
  <2>4. p \in disk \ leaked => Known(p) \/ (wpc = "markReady" /\ Paper = p)
    BY DEF AccountInv, FilesAccounted, Known
  <2>5. QED
    BY <2>1, <2>2, <2>3, <2>4
<1>2. ASSUME wpc' \in {"download", "markFailed"}, Paper' \in disk' \ leaked'
      PROVE  FALSE
  <2>1. CASE (Api \/ Tick) \/ UNCHANGED vars
    <3>1. wpc' = wpc /\ wjob' = wjob
      BY <2>1, Outside DEF workerVars, vars
    <3>2. Paper' = Paper /\ Paper \in Papers
      BY <1>2, <3>1, SamePaper, HeldJob DEF JobSteps
    <3>3. ~Download /\ ~MarkReady
      BY <1>2, <3>1 DEF Download, MarkReady, Goto
    <3>4. QED
      BY <1>2, <3>1, <3>2, <3>3, LeakStep DEF AccountInv
  <2>2. CASE ReadFile
    <3>1. wpc = "read" /\ wjob' = wjob /\ UNCHANGED <<file, disk>>
      BY <2>2 DEF ReadFile, Goto, dbVars
    <3>2. Paper' = Paper /\ Paper \in Papers
      BY <3>1, SamePaper, HeldJob DEF JobSteps
    <3>3. UNCHANGED leaked /\ ~Known(Paper)
      BY <1>2, <2>2, <3>2 DEF ReadFile, Goto, Known
    <3>4. QED
      BY <1>2, <3>1, <3>2, <3>3 DEF AccountInv, FilesAccounted, Known
  <2>3. CASE Download
    <3>1. /\ wpc = "download" /\ wjob' = wjob /\ wpc' = "markFailed"
          /\ UNCHANGED <<disk, leaked>>
      BY <1>2, <2>3 DEF Download, Goto
    <3>2. Paper' = Paper
      BY <3>1, SamePaper DEF JobSteps
    <3>3. QED
      BY <1>2, <3>1, <3>2 DEF AccountInv
  <2>4. ASSUME NEW j \in DOMAIN jobs, Claim(j)
        PROVE  FALSE
    BY <1>2, <2>4 DEF Claim
  <2>5. ASSUME MarkReady \/ MarkFailed \/ Complete \/ Fail \/ Cleanup \/ Crash
        PROVE  FALSE
    BY <1>2, <2>5 DEF MarkReady, MarkFailed, Complete, Fail, Cleanup, CleanupStart,
       CleanupNext, CleanupEnd, CleanupRemove, CleanupMark, Crash, Goto, Finish
  <2>6. QED
    BY <2>1, <2>2, <2>3, <2>4, <2>5 DEF Next, PdfJob
<1>3. ASSUME wpc' = "markMissing", victim' \in disk' \ leaked'
      PROVE  FALSE
  <2>1. CASE (Api \/ Tick) \/ UNCHANGED vars
    <3>1. UNCHANGED <<wpc, victim, disk, leaked>>
      BY <2>1, Outside DEF workerVars, vars, Api, Tick, LikeInsert, LikeQueueFile,
         LikeEnqueue, LikeAbort, Unlike, DeleteProfile, Retry
    <3>2. QED
      BY <1>3, <3>1 DEF AccountInv
  <2>2. CASE CleanupRemove
    BY <1>3, <2>2 DEF CleanupRemove, Goto
  <2>3. ASSUME NEW j \in DOMAIN jobs, Claim(j)
        PROVE  FALSE
    BY <1>3, <2>3 DEF Claim
  <2>4. ASSUME NEW q \in Papers, CleanupNext(q)
        PROVE  FALSE
    BY <1>3, <2>4 DEF CleanupNext
  <2>5. ASSUME ReadFile \/ Download \/ MarkReady \/ MarkFailed \/ Complete \/ Fail
                 \/ CleanupStart \/ CleanupEnd \/ CleanupMark \/ Crash
        PROVE  FALSE
    BY <1>3, <2>5 DEF ReadFile, Download, MarkReady, MarkFailed, Complete, Fail,
       CleanupStart, CleanupEnd, CleanupMark, Crash, Goto, Finish
  <2>6. QED
    BY <2>1, <2>2, <2>3, <2>4, <2>5 DEF Next, PdfJob, Cleanup
<1>4. disk' \subseteq Papers
  BY TypeStep DEF TypeInv, TypeOK
<1>5. FilesAccounted'
  BY <1>1, <1>4 DEF FilesAccounted, Known
<1>6. QED
  BY <1>2, <1>3, <1>5 DEF AccountInv

\* Every file on disk has a ready row with its path or is about to get one, but
\* for the files a fault has cut off from their row, whatever likes, retries,
\* downloads and cleanups do to the rows.
THEOREM AllAccounted == Spec => []FilesAccounted
<1>1. Init => AccountInv
  BY DEF Init, AccountInv, FilesAccounted
<1>2. Spec => [](TypeInv /\ AccountInv)
  BY <1>1, TypeInit, TypeStep, AccountStep, PTL DEF Spec
<1>3. QED
  BY <1>2, PTL DEF AccountInv

-----------------------------------------------------------------------------
(***************************************************************************)
(* No like is forgotten.  The cleanup may have selected a paper before it  *)
(* was liked, and will mark it missing afterwards: until then the like     *)
(* must have something on its way whatever the row says.                   *)
(***************************************************************************)
Wanted(c, p) == OnItsWay(c, p) \/ Recoverable(c, p)

LikesInv ==
  /\ EachLikeTracked
  /\ \A l \in liked : l[2] \in doomed \cup {victim} => l[2] \in hit \/ Wanted(l[1], l[2])
  /\ wpc = "complete" => Paper \in hit \/ file[Paper].status = "ready"

\* A job of c for p that waits, failed or is held, and a request of c for p,
\* live on in some form, or the job completes.
LEMMA RecoverableStep ==
  ASSUME TypeInv, [Next]_vars, NEW c, NEW p, p \notin hit', Recoverable(c, p)
  PROVE  Recoverable(c, p)' \/ (wpc = "complete" /\ Paper = p)
<1>1. PICK j \in DOMAIN jobs : /\ jobs[j].profile = c /\ jobs[j].paper = p
                               /\ jobs[j].status \in {"pending", "failed"} \/ wjob = j
  BY DEF Recoverable
<1>2. /\ j \in DOMAIN jobs'
      /\ jobs'[j].profile = c /\ jobs'[j].paper = p
  BY <1>1, JobsStep
<1>3. SUFFICES ASSUME ~(wpc = "complete" /\ Paper = p)
               PROVE  jobs'[j].status \in {"pending", "failed"} \/ wjob' = j
  BY <1>2 DEF Recoverable
<1>4. CASE Retry(j)
  BY <1>4, SetStatusType DEF Retry, RetryJob, JobStatus, TypeInv, TypeOK
<1>5. ASSUME NEW i \in DOMAIN jobs, Claim(i) PROVE jobs'[j] = jobs[j] \/ wjob' = j
  <2>1. i # j => jobs'[j] = jobs[j]
    BY <1>5, SetStatusType DEF Claim, ClaimJob, JobStatus, TypeInv, TypeOK
  <2>2. QED
    BY <1>5, <2>1 DEF Claim
<1>6. ASSUME Fail PROVE IF j = wjob THEN jobs'[j].status = "failed"
                                   ELSE jobs'[j] = jobs[j]
  <2>1. wjob \in DOMAIN jobs
    BY <1>6, HeldJob DEF Fail, JobSteps
  <2>2. CASE FailJob(wjob)
    BY <2>1, <2>2, SetStatusType DEF FailJob, JobStatus, TypeInv, TypeOK
  <2>3. CASE UNCHANGED jobs /\ Paper \in hit'
    <3>1. j # wjob
      BY <1>1, <2>3 DEF Paper
    <3>2. QED
      BY <2>3, <3>1
  <2>4. QED
    BY <1>6, <2>2, <2>3 DEF Fail, Hit
<1>7. ASSUME Complete PROVE j # wjob /\ jobs'[j] = jobs[j]
  <2>1. wjob \in DOMAIN jobs /\ wpc = "complete"
    BY <1>7, HeldJob DEF Complete, JobSteps
  <2>2. j # wjob
    BY <1>1, <1>3, <2>1 DEF Paper
  <2>3. CASE CompleteJob(wjob)
    BY <2>1, <2>2, <2>3, SetStatusType DEF CompleteJob, JobStatus, TypeInv, TypeOK
  <2>4. CASE UNCHANGED jobs
    BY <2>2, <2>4
  <2>5. QED
    BY <1>7, <2>3, <2>4 DEF Complete
<1>12. ASSUME Crash, wjob # 0 PROVE j # wjob /\ jobs'[j] = jobs[j]
  <2>1. Paper \in hit' /\ UNCHANGED jobs
    BY <1>12 DEF Crash, Hit, dbVars, TypeInv, Control
  <2>2. QED
    BY <1>1, <2>1 DEF Paper
<1>8. ASSUME wjob' # wjob
      PROVE  (\E i \in DOMAIN jobs : Claim(i)) \/ Complete \/ Fail \/ (Crash /\ wjob # 0)
  <2>1. (Api \/ Tick) \/ UNCHANGED vars => UNCHANGED wjob
    BY Outside DEF workerVars, vars
  <2>2. ReadFile \/ Download \/ MarkReady \/ MarkFailed \/ Cleanup => UNCHANGED wjob
    BY DEF ReadFile, Download, MarkReady, MarkFailed, Cleanup, CleanupStart,
       CleanupNext, CleanupEnd, CleanupRemove, CleanupMark, Goto
  <2>3. Crash => wjob # 0
    BY <1>8 DEF Crash
  <2>4. QED
    BY <1>8, <2>1, <2>2, <2>3 DEF Next, PdfJob
<1>9. CASE jobs'[j].status = jobs[j].status
  <2>1. CASE wjob = j /\ wjob' # j
    <3>1. ASSUME NEW i \in DOMAIN jobs, Claim(i) PROVE FALSE
      <4>1. wjob = 0
        BY <3>1 DEF Claim, TypeInv, Control, JobSteps
      <4>2. j \in 1 .. Len(jobs)
        BY DEF TypeInv, TypeOK
      <4>3. QED
        BY <2>1, <4>1, <4>2
    <3>2. QED
      BY <1>6, <1>7, <1>8, <1>12, <2>1, <3>1
  <2>2. QED
    BY <1>1, <1>9, <2>1
<1>10. CASE jobs'[j].status # jobs[j].status
  BY <1>4, <1>5, <1>6, <1>7, <1>10, JobsStep
<1>11. QED
  BY <1>9, <1>10

\* A request on its way stays so until its job is inserted.
LEMMA OnItsWayStep ==
  ASSUME TypeInv, [Next]_vars, NEW c, NEW p, p \notin hit', OnItsWay(c, p)
  PROVE  Wanted(c, p)'
<1>1. PICK h \in Handlers :
        handler[h] # Idle /\ handler[h].profile = c /\ handler[h].paper = p
  BY DEF OnItsWay
<1>2. handler[h] \in Request
  BY <1>1 DEF TypeInv, TypeOK
<1>3. SUFFICES ASSUME handler'[h] # handler[h] PROVE Wanted(c, p)'
  BY <1>1 DEF Wanted, OnItsWay
<1>4. CASE LikeQueueFile(h)
  <2>1. /\ handler'[h].at = "job"
        /\ handler'[h].profile = c /\ handler'[h].paper = p
    BY <1>1, <1>2, <1>4 DEF LikeQueueFile, TypeInv, TypeOK, Request
  <2>2. handler'[h] # Idle
    BY <2>1 DEF Idle
  <2>3. QED
    BY <2>1, <2>2 DEF Wanted, OnItsWay
<1>5. CASE LikeEnqueue(h)
  <2>1. c \in Profiles /\ p \in Papers /\ Enqueue(c, p)
    BY <1>1, <1>2, <1>5 DEF LikeEnqueue, Request
  <2>2. /\ Len(jobs') \in DOMAIN jobs'
        /\ jobs'[Len(jobs')] = [profile |-> c, paper |-> p, status |-> "pending"]
    BY <2>1, EnqueueType DEF TypeInv, TypeOK
  <2>3. QED
    BY <2>2 DEF Wanted, Recoverable
<1>6. ASSUME NEW g \in Handlers, NEW d \in Profiles, NEW q \in Papers,
             LikeInsert(g, d, q)
      PROVE  FALSE
  BY <1>1, <1>3, <1>6 DEF LikeInsert, TypeInv, TypeOK
<1>7. ASSUME NEW g \in Handlers, g # h, LikeQueueFile(g) \/ LikeEnqueue(g)
      PROVE  FALSE
  BY <1>3, <1>7 DEF LikeQueueFile, LikeEnqueue, TypeInv, TypeOK
<1>8. ASSUME NEW g \in Handlers, LikeAbort(g) PROVE FALSE
  <2>1. g = h
    BY <1>3, <1>8 DEF LikeAbort, TypeInv, TypeOK
  <2>2. QED
    BY <1>1, <1>8, <2>1 DEF LikeAbort, Hit
<1>9. ASSUME NEW d \in Profiles, NEW q \in Papers, Unlike(d, q) PROVE FALSE
  BY <1>3, <1>9 DEF Unlike
<1>10. ASSUME NEW d \in Profiles, DeleteProfile(d) PROVE FALSE
  BY <1>3, <1>10 DEF DeleteProfile
<1>11. ASSUME NEW j \in DOMAIN jobs, Retry(j) \/ Claim(j) PROVE FALSE
  BY <1>3, <1>11 DEF Retry, Claim
<1>12. ASSUME NEW q \in Papers, CleanupNext(q) PROVE FALSE
  BY <1>3, <1>12 DEF CleanupNext
<1>13. ASSUME ReadFile \/ Download \/ MarkReady \/ MarkFailed \/ Complete \/ Fail
                \/ CleanupStart \/ CleanupEnd \/ CleanupRemove \/ CleanupMark
                \/ Crash \/ Tick \/ UNCHANGED vars
       PROVE  FALSE
  BY <1>3, <1>13 DEF ReadFile, Download, MarkReady, MarkFailed, Complete, Fail,
     CleanupStart, CleanupEnd, CleanupRemove, CleanupMark, Crash, Tick, vars
<1>14. QED
  BY <1>4, <1>5, <1>6, <1>7, <1>8, <1>9, <1>10, <1>11, <1>12, <1>13
     DEF Next, Api, PdfJob, Cleanup

\* What a like set in motion is not lost by any step but the completion of its
\* job.
LEMMA WantedStep ==
  ASSUME TypeInv, [Next]_vars, NEW c, NEW p, p \notin hit', Wanted(c, p)
  PROVE  Wanted(c, p)' \/ (wpc = "complete" /\ Paper = p)
BY RecoverableStep, OnItsWayStep DEF Wanted

\* A like is new only by a request that is then on its way.
LEMMA NewLike ==
  ASSUME TypeInv, [Next]_vars, NEW l \in liked', l \notin liked
  PROVE  OnItsWay(l[1], l[2])' /\ UNCHANGED <<workerVars, file, jobs>>
<1>1. ASSUME NEW h \in Handlers, NEW c \in Profiles, NEW p \in Papers,
             LikeInsert(h, c, p)
      PROVE  OnItsWay(l[1], l[2])' /\ UNCHANGED <<workerVars, file, jobs>>
  <2>1. l = <<c, p>> /\ UNCHANGED <<workerVars, file, jobs>>
    BY <1>1 DEF LikeInsert
  <2>2. handler'[h] = [at |-> "file", profile |-> c, paper |-> p]
    BY <1>1 DEF LikeInsert, TypeInv, TypeOK
  <2>3. handler'[h] # Idle
    BY <2>2 DEF Idle
  <2>4. QED
    BY <2>1, <2>2, <2>3 DEF OnItsWay
<1>2. ASSUME NEW h \in Handlers, LikeQueueFile(h) \/ LikeEnqueue(h) \/ LikeAbort(h)
      PROVE  FALSE
  BY <1>2 DEF LikeQueueFile, LikeEnqueue, LikeAbort, dbVars
<1>3. ASSUME NEW d \in Profiles, NEW q \in Papers, Unlike(d, q) PROVE FALSE
  BY <1>3 DEF Unlike
<1>4. ASSUME NEW d \in Profiles, DeleteProfile(d) PROVE FALSE
  BY <1>4 DEF DeleteProfile
<1>5. ASSUME NEW j \in DOMAIN jobs, Retry(j) \/ Claim(j) PROVE FALSE
  BY <1>5 DEF Retry, Claim
<1>6. ASSUME NEW q \in Papers, CleanupNext(q) PROVE FALSE
  BY <1>6 DEF CleanupNext, dbVars
<1>7. ASSUME ReadFile \/ Download \/ MarkReady \/ MarkFailed \/ Complete \/ Fail
               \/ CleanupStart \/ CleanupEnd \/ CleanupRemove \/ CleanupMark
               \/ Crash \/ Tick \/ UNCHANGED vars
      PROVE  FALSE
  BY <1>7 DEF ReadFile, Download, MarkReady, MarkFailed, Complete, Fail,
     CleanupStart, CleanupEnd, CleanupRemove, CleanupMark, Crash, Tick, dbVars, vars
<1>8. QED
  BY <1>1, <1>2, <1>3, <1>4, <1>5, <1>6, <1>7 DEF Next, Api, PdfJob, Cleanup

\* The invariant behind LikesTracked survives every step.
LEMMA LikesStep ==
  ASSUME TypeInv, SoleWriter, LikesInv, [Next]_vars
  PROVE  LikesInv'
<1> USE DEF TypeInv
<1>0. hit \subseteq hit'
  BY HitStep
<1>1. ASSUME NEW l \in liked, l[2] \in doomed \cup {victim}, l[2] \in Papers,
             l[2] \notin hit'
      PROVE  Wanted(l[1], l[2])'
  <2>1. wpc # "complete"
    BY <1>1, NoPaperAssumption DEF Control, JobSteps, CleanSteps
  <2>2. QED
    BY <1>0, <1>1, <2>1, WantedStep DEF LikesInv
<1>2. ASSUME NEW l \in liked', l[2] \notin hit'
      PROVE  file'[l[2]].status = "ready" \/ Wanted(l[1], l[2])'
  <2>1. CASE l \notin liked
    BY <2>1, NewLike DEF Wanted
  <2>2. CASE l \in liked
    <3>1. l[2] \in Papers
      BY <2>2 DEF TypeOK
    <3>2. CASE file[l[2]].status = "ready" /\ file'[l[2]].status # "ready"
      <4>1. ~MarkFailed \/ Paper # l[2]
        BY <1>0, <1>2, <3>2 DEF MarkFailed, SoleWriter
      <4>2. CleanupMark /\ l[2] = victim
        BY <3>1, <3>2, <4>1, ReadyStep
      <4>3. QED
        BY <1>1, <1>2, <2>2, <3>1, <4>2
    <3>3. CASE file[l[2]].status # "ready" /\ file'[l[2]].status # "ready"
      <4>1. Wanted(l[1], l[2])
        BY <1>0, <1>2, <2>2, <3>3 DEF LikesInv, EachLikeTracked, Wanted
      <4>2. ~(wpc = "complete" /\ Paper = l[2])
        BY <1>0, <1>2, <3>3 DEF LikesInv
      <4>3. QED
        BY <1>2, <4>1, <4>2, WantedStep
    <3>4. QED
      BY <3>2, <3>3
  <2>3. QED
    BY <2>1, <2>2
<1>3. ASSUME NEW l \in liked', l[2] \in doomed' \cup {victim'}, l[2] \notin hit'
      PROVE  Wanted(l[1], l[2])'
  <2>1. CASE l \notin liked
    BY <2>1, NewLike DEF Wanted
  <2>2. CASE l \in liked
    <3>1. l[2] \in Papers /\ l[1] \in profiles /\ <<l[1], l[2]>> \in liked
      <4>1. PICK c \in profiles, p \in Papers : l = <<c, p>>
        BY <2>2 DEF TypeOK
      <4>2. QED
        BY <2>2, <4>1
    <3>2. CASE l[2] \in doomed \cup {victim}
      BY <1>1, <1>3, <2>2, <3>1, <3>2
    <3>3. CASE l[2] \notin doomed \cup {victim}
      <4>1. ASSUME CleanupStart PROVE FALSE
        BY <1>3, <3>1, <3>3, <4>1 DEF CleanupStart, Unreferenced, Likers
      <4>2. ASSUME (Api \/ Tick) \/ UNCHANGED vars PROVE FALSE
        BY <1>3, <3>3, <4>2, Outside DEF workerVars, vars
      <4>3. ASSUME NEW j \in DOMAIN jobs, Claim(j) PROVE FALSE
        BY <1>3, <3>3, <4>3 DEF Claim
      <4>4. ASSUME NEW q \in Papers, CleanupNext(q) PROVE FALSE
        BY <1>3, <3>3, <4>4 DEF CleanupNext
      <4>5. ASSUME ReadFile \/ Download \/ MarkReady \/ MarkFailed \/ Complete
                     \/ Fail \/ CleanupEnd \/ CleanupRemove \/ CleanupMark \/ Crash
            PROVE  FALSE
        BY <1>3, <3>1, <3>3, <4>5, NoPaperAssumption
           DEF ReadFile, Download, MarkReady, MarkFailed, Complete, Fail,
           CleanupEnd, CleanupRemove, CleanupMark, Crash, Goto, Finish
      <4>6. QED
        BY <4>1, <4>2, <4>3, <4>4, <4>5 DEF Next, PdfJob, Cleanup
    <3>4. QED
      BY <3>2, <3>3
  <2>3. QED
    BY <2>1, <2>2
<1>4. ASSUME wpc' = "complete", Paper' \notin hit'
      PROVE  file'[Paper'].status = "ready"
  <2>1. CASE (Api \/ Tick) \/ UNCHANGED vars
    <3>1. wpc = "complete" /\ wjob' = wjob
      BY <1>4, <2>1, Outside DEF workerVars, vars
    <3>2. Paper' = Paper /\ Paper \in Papers /\ file[Paper].status = "ready"
      BY <1>0, <1>4, <3>1, SamePaper, HeldJob DEF LikesInv, JobSteps
    <3>3. ~MarkFailed /\ ~CleanupMark
      BY <3>1 DEF MarkFailed, CleanupMark
    <3>4. QED
      BY <3>2, <3>3, ReadyStep
  <2>2. CASE ReadFile
    <3>1. wpc \in JobSteps /\ wjob' = wjob /\ UNCHANGED file
          /\ file[Paper].status = "ready"
      BY <1>4, <2>2 DEF ReadFile, Goto, dbVars, JobSteps
    <3>2. QED
      BY <3>1, SamePaper
  <2>3. CASE MarkReady
    <3>1. wpc \in JobSteps /\ wjob' = wjob /\ Paper \in Papers
      BY <2>3, HeldJob DEF MarkReady, Goto, JobSteps
    <3>2. file'[Paper].status = "ready"
      BY <1>4, <2>3, <3>1, SamePaper DEF MarkReady, SetFile, Hit, TypeOK
    <3>3. QED
      BY <3>1, <3>2, SamePaper
  <2>4. ASSUME NEW j \in DOMAIN jobs, Claim(j)
        PROVE  FALSE
    BY <1>4, <2>4 DEF Claim
  <2>5. ASSUME Download \/ MarkFailed \/ Complete \/ Fail \/ Cleanup \/ Crash
        PROVE  FALSE
    BY <1>4, <2>5 DEF Download, MarkFailed, Complete, Fail, Cleanup, CleanupStart,
       CleanupNext, CleanupEnd, CleanupRemove, CleanupMark, Crash, Goto, Finish
  <2>6. QED
    BY <2>1, <2>2, <2>3, <2>4, <2>5 DEF Next, PdfJob
<1>5. EachLikeTracked'
  BY <1>2 DEF EachLikeTracked, Wanted
<1>6. QED
  BY <1>3, <1>4, <1>5 DEF LikesInv

\* Every like has a ready file, or a request, a job or a visible failure of its
\* own, however likes, retries, deletions, downloads and cleanups interleave,
\* for every paper that no fault has touched.
THEOREM LikesTracked == Spec => []EachLikeTracked
<1>1. Init => LikesInv
  BY DEF Init, LikesInv, EachLikeTracked
<1>2. Init => SoleWriter
  BY DEF Init, SoleWriter
<1>4. Spec => [](TypeInv /\ SoleWriter /\ LikesInv)
  BY <1>1, <1>2, TypeInit, TypeStep, SoleWriterStep, LikesStep, PTL DEF Spec
<1>5. QED
  BY <1>4, PTL DEF LikesInv
-----------------------------------------------------------------------------
(***************************************************************************)
(* The jobs implement JobLifecycle.  Every step leaves the phases alone or *)
(* moves one of them; Claim takes, the end of a job settles or loses, a    *)
(* retry resubmits and a like submits.                                     *)
(***************************************************************************)
\* A step that changes at most one phase is a move of that job.
LEMMA OneMove ==
  ASSUME NEW j \in Lifecycle!Ids,
         \A i \in Lifecycle!Ids \ {j} : Phase'[i] = Phase[i]
  PROVE  /\ Lifecycle!Move(j, Phase'[j])
         /\ Phase'[j] = Phase[j] => UNCHANGED Phase
<1>1. Phase = [i \in Lifecycle!Ids |-> Phase[i]]
  BY DEF Lifecycle!Ids, Phase
<1>2. Phase' = [i \in Lifecycle!Ids |-> Phase'[i]]
  BY DEF Lifecycle!Ids, Phase
<1>3. Phase' = [Phase EXCEPT ![j] = Phase'[j]]
  BY <1>1, <1>2
<1>4. Phase'[j] = Phase[j] => Phase' = Phase
  BY <1>1, <1>2
<1>5. QED
  BY <1>3, <1>4 DEF Lifecycle!Move

\* The phase of a job depends on its row and on whether the worker holds it.
LEMMA SamePhase ==
  ASSUME TypeInv, NEW j \in Lifecycle!Ids,
         j \in DOMAIN jobs <=> j \in DOMAIN jobs',
         j \in DOMAIN jobs => jobs'[j].status = jobs[j].status,
         wjob = j <=> wjob' = j
  PROVE  Phase'[j] = Phase[j]
BY DEF Lifecycle!Ids, Phase

\* A like submits the next id.
LEMMA EnqueueSubmits ==
  ASSUME TypeInv, NEW h \in Handlers, LikeEnqueue(h)
  PROVE  Lifecycle!Next \/ UNCHANGED Phase
<1> DEFINE n == Len(jobs) + 1
<1>1. handler[h].profile \in Profiles /\ handler[h].paper \in Papers
  BY DEF LikeEnqueue, TypeInv, TypeOK, Idle, Request
<1>2. /\ jobs' \in Seq(Job) /\ Len(jobs') = n
      /\ \A i \in DOMAIN jobs : jobs'[i] = jobs[i]
      /\ jobs'[n].status = "pending"
  <2>1. jobs \in Seq(Job) /\ Enqueue(handler[h].profile, handler[h].paper)
    BY DEF LikeEnqueue, TypeInv, TypeOK
  <2>2. /\ jobs' \in Seq(Job) /\ Len(jobs') = Len(jobs) + 1
        /\ \A i \in DOMAIN jobs : jobs'[i] = jobs[i]
        /\ jobs'[Len(jobs')] = [profile |-> handler[h].profile,
                                paper |-> handler[h].paper, status |-> "pending"]
    BY <1>1, <2>1, EnqueueType
  <2>3. QED
    BY <2>2
<1>3. n \in Nat /\ DOMAIN jobs = 1 .. Len(jobs) /\ DOMAIN jobs' = 1 .. n
  BY <1>2 DEF TypeInv, TypeOK
<1>4. wjob' = wjob /\ wjob \in 0 .. Len(jobs)
  BY DEF LikeEnqueue, workerVars, TypeInv, TypeOK
<1>5. \A i \in Lifecycle!Ids \ {n} : Phase'[i] = Phase[i]
  BY <1>2, <1>3, <1>4, SamePhase DEF Lifecycle!Ids
<1>6. CASE n \in Lifecycle!Ids
  <2>1. Phase[n] = "absent" /\ Phase'[n] = "waiting"
    BY <1>2, <1>3, <1>4, <1>6 DEF Lifecycle!Ids, Phase
  <2>2. \A i \in Lifecycle!Ids : i < n => Phase[i] # "absent"
    BY <1>3 DEF Lifecycle!Ids, Phase
  <2>3. Lifecycle!Submit(n)
    BY <1>5, <1>6, <2>1, <2>2, OneMove DEF Lifecycle!Submit
  <2>4. QED
    BY <1>6, <2>3 DEF Lifecycle!Next
<1>7. CASE n \notin Lifecycle!Ids
  BY <1>5, <1>7 DEF Lifecycle!Ids, Phase
<1>8. QED
  BY <1>6, <1>7

\* A claim takes the oldest job that waits, while none is worked on.
LEMMA ClaimTakes ==
  ASSUME TypeInv, NEW j \in DOMAIN jobs, Claim(j)
  PROVE  Lifecycle!Next \/ UNCHANGED Phase
<1>1. /\ DOMAIN jobs' = DOMAIN jobs
      /\ \A i \in DOMAIN jobs : i # j => jobs'[i] = jobs[i]
      /\ wjob' = j
  BY SetStatusType DEF Claim, ClaimJob, JobStatus, TypeInv, TypeOK
<1>2. wjob = 0 /\ DOMAIN jobs = 1 .. Len(jobs) /\ Len(jobs) \in Nat
  BY DEF Claim, TypeInv, TypeOK, Control, JobSteps
<1>3. \A i \in Lifecycle!Ids \ {j} : Phase'[i] = Phase[i]
  BY <1>1, <1>2, SamePhase DEF Lifecycle!Ids
<1>4. CASE j \in Lifecycle!Ids
  <2>1. Phase[j] = "waiting" /\ Phase'[j] = "working"
    BY <1>1, <1>2, <1>4 DEF Lifecycle!Ids, Phase, Claim, ClaimJob, IsNextPending, Pending
  <2>2. Lifecycle!In("working") = {}
    BY <1>2 DEF Lifecycle!In, Lifecycle!Ids, Phase
  <2>3. \A i \in Lifecycle!In("waiting") : i \in Pending
    BY DEF Lifecycle!In, Lifecycle!Ids, Phase, Pending
  <2>4. Lifecycle!Take(j)
    BY <1>3, <1>4, <2>1, <2>2, <2>3, OneMove
       DEF Lifecycle!Take, Claim, ClaimJob, IsNextPending
  <2>5. QED
    BY <1>4, <2>4 DEF Lifecycle!Next
<1>5. CASE j \notin Lifecycle!Ids
  BY <1>3, <1>5 DEF Lifecycle!Ids, Phase
<1>6. QED
  BY <1>4, <1>5

\* A retry resubmits a job that had ended and is not seen for any other.
LEMMA RetryResubmits ==
  ASSUME TypeInv, NEW j \in DOMAIN jobs, Retry(j)
  PROVE  Lifecycle!Next \/ UNCHANGED Phase
<1>1. /\ DOMAIN jobs' = DOMAIN jobs
      /\ \A i \in DOMAIN jobs : i # j => jobs'[i] = jobs[i]
      /\ jobs'[j].status = "pending"
  BY SetStatusType DEF Retry, RetryJob, JobStatus, TypeInv, TypeOK
<1>2. wjob' = wjob
  BY DEF Retry, workerVars
<1>3. \A i \in Lifecycle!Ids \ {j} : Phase'[i] = Phase[i]
  BY <1>1, <1>2, SamePhase DEF Lifecycle!Ids
<1>4. CASE j \in Lifecycle!Ids
  <2>1. /\ Phase[j] \in {"waiting", "working", "settled", "orphaned"}
        /\ Phase'[j] = IF Phase[j] = "working" THEN "working" ELSE "waiting"
    BY <1>1, <1>2, <1>4 DEF Lifecycle!Ids, Phase
  <2>2. CASE Phase[j] \in {"settled", "orphaned"}
    <3>1. Lifecycle!Resubmit(j)
      BY <1>3, <1>4, <2>1, <2>2, OneMove DEF Lifecycle!Resubmit
    <3>2. QED
      BY <1>4, <3>1 DEF Lifecycle!Next
  <2>3. CASE Phase[j] \in {"waiting", "working"}
    BY <1>3, <1>4, <2>1, <2>3, OneMove
  <2>4. QED
    BY <2>1, <2>2, <2>3
<1>5. CASE j \notin Lifecycle!Ids
  BY <1>3, <1>5 DEF Lifecycle!Ids, Phase
<1>6. QED
  BY <1>4, <1>5
\* When the worker lets go of its job the job is settled, or lost.
LEMMA LetGo ==
  ASSUME TypeInv, wjob # 0, wjob' = 0,
         DOMAIN jobs' = DOMAIN jobs,
         \A i \in DOMAIN jobs : i # wjob => jobs'[i].status = jobs[i].status,
         jobs'[wjob].status \in {"done", "failed"} \/ Faults \cap {"crash", "db"} # {},
         jobs'[wjob].status \in JobStatus
  PROVE  Lifecycle!Next \/ UNCHANGED Phase
<1>1. wjob \in DOMAIN jobs /\ 0 \notin Lifecycle!Ids
  BY DEF TypeInv, TypeOK, Lifecycle!Ids
<1>2. \A i \in Lifecycle!Ids \ {wjob} : Phase'[i] = Phase[i]
  BY <1>1, SamePhase
<1>3. CASE wjob \in Lifecycle!Ids
  <2>1. /\ Phase[wjob] = "working"
        /\ Phase'[wjob] = IF jobs'[wjob].status = "pending" THEN "waiting"
                          ELSE IF jobs'[wjob].status = "running" THEN "orphaned"
                          ELSE "settled"
    BY <1>1, <1>3 DEF Lifecycle!Ids, Phase
  <2>2. Lifecycle!Move(wjob, Phase'[wjob])
    BY <1>2, <1>3, OneMove
  <2>3. CASE jobs'[wjob].status \in {"done", "failed"}
    <3>1. Lifecycle!Settle(wjob)
      BY <2>1, <2>2, <2>3 DEF Lifecycle!Settle
    <3>2. QED
      BY <1>3, <3>1 DEF Lifecycle!Next
  <2>4. CASE jobs'[wjob].status \in {"pending", "running"}
    <3>1. Lifecycle!Lose(wjob)
      BY <2>1, <2>2, <2>4 DEF Lifecycle!Lose
    <3>2. QED
      BY <1>3, <3>1 DEF Lifecycle!Next
  <2>5. QED
    BY <2>3, <2>4 DEF JobStatus
<1>4. CASE wjob \notin Lifecycle!Ids
  BY <1>2, <1>4 DEF Lifecycle!Ids, Phase
<1>5. QED
  BY <1>3, <1>4

\* The end of a job and a crash in the middle of one let go of it.
LEMMA WorkerLetsGo ==
  ASSUME TypeInv, Complete \/ Fail \/ Crash
  PROVE  Lifecycle!Next \/ UNCHANGED Phase
<1> USE DEF TypeInv
<1>0. ASSUME UNCHANGED jobs, wjob # 0, wjob' = 0, Faults \cap {"crash", "db"} # {}
      PROVE  Lifecycle!Next \/ UNCHANGED Phase
  <2>1. wjob \in DOMAIN jobs
    BY <1>0 DEF TypeOK
  <2>2. jobs[wjob] \in Job
    BY <2>1 DEF TypeOK
  <2>3. QED
    BY <1>0, <2>2, LetGo DEF Job
<1>1. CASE Complete
  <2>1. wjob \in DOMAIN jobs /\ wjob # 0 /\ wjob' = 0
    BY <1>1, HeldJob DEF Complete, Finish, JobSteps, Control
  <2>2. CASE CompleteJob(wjob)
    BY <2>1, <2>2, SetStatusType, LetGo DEF CompleteJob, JobStatus, TypeOK
  <2>3. CASE "db" \in Faults /\ UNCHANGED jobs
    BY <1>0, <2>1, <2>3
  <2>4. QED
    BY <1>1, <2>2, <2>3 DEF Complete
<1>2. CASE Fail
  <2>1. wjob \in DOMAIN jobs /\ wjob # 0 /\ wjob' = 0
    BY <1>2, HeldJob DEF Fail, Finish, JobSteps, Control
  <2>2. CASE FailJob(wjob)
    BY <2>1, <2>2, SetStatusType, LetGo DEF FailJob, JobStatus, TypeOK
  <2>3. CASE "db" \in Faults /\ UNCHANGED jobs
    BY <1>0, <2>1, <2>3
  <2>4. QED
    BY <1>2, <2>2, <2>3 DEF Fail
<1>3. CASE Crash
  <2>1. "crash" \in Faults /\ UNCHANGED jobs /\ wjob' = 0
    BY <1>3 DEF Crash, dbVars
  <2>2. CASE wjob # 0
    BY <1>0, <2>1, <2>2
  <2>3. CASE wjob = 0
    BY <2>1, <2>3 DEF Phase
  <2>4. QED
    BY <2>2, <2>3
<1>4. QED
  BY <1>1, <1>2, <1>3

\* Every step of the cache is a step of the lifecycle or leaves it alone.
LEMMA LifecycleStep ==
  ASSUME TypeInv, [Next]_vars
  PROVE  Lifecycle!Next \/ UNCHANGED Phase
<1>0. ASSUME UNCHANGED <<jobs, wjob>> PROVE UNCHANGED Phase
  BY <1>0 DEF Phase
<1>1. ASSUME NEW h \in Handlers,
             \/ \E c \in Profiles, p \in Papers : LikeInsert(h, c, p)
             \/ LikeQueueFile(h) \/ LikeAbort(h)
      PROVE  UNCHANGED Phase
  BY <1>0, <1>1 DEF LikeInsert, LikeQueueFile, LikeAbort, workerVars, dbVars
<1>2. ASSUME NEW c \in Profiles, DeleteProfile(c) \/ \E p \in Papers : Unlike(c, p)
      PROVE  UNCHANGED Phase
  BY <1>0, <1>2 DEF DeleteProfile, Unlike, workerVars
<1>3. ASSUME ReadFile \/ Download \/ MarkReady \/ MarkFailed \/ Cleanup
      PROVE  UNCHANGED Phase
  BY <1>0, <1>3 DEF ReadFile, Download, MarkReady, MarkFailed, Cleanup, CleanupStart,
     CleanupNext, CleanupEnd, CleanupRemove, CleanupMark, Goto, dbVars
<1>4. ASSUME Tick \/ UNCHANGED vars
      PROVE  UNCHANGED Phase
  BY <1>0, <1>4 DEF Tick, vars, workerVars
<1>5. QED
  BY <1>1, <1>2, <1>3, <1>4, EnqueueSubmits, ClaimTakes, RetryResubmits, WorkerLetsGo
     DEF Next, Api, PdfJob

\* The pdf_download jobs are taken one at a time and the oldest first, none is
\* inserted out of order, and a job that was taken is settled or orphaned before
\* the next is taken, whatever likes, retries and faults do meanwhile.
THEOREM LifecycleImplemented == Spec => ImplementsLifecycle
<1>1. Init => Lifecycle!Init
  BY DEF Init, Phase, Lifecycle!Init, Lifecycle!Ids
<1>2. TypeInv /\ [Next]_vars => [Lifecycle!Next]_Phase
  BY LifecycleStep
<1>3. QED
  BY <1>1, <1>2, TypeInit, TypeStep, PTL DEF Spec, ImplementsLifecycle, Lifecycle!Spec
-----------------------------------------------------------------------------
(***************************************************************************)
(* A public request that found the row ready.  The file was there, but for *)
(* the cleanup's instant, when the row was read; the cleanup cannot take   *)
(* it later without the request's history saying so.                       *)
(***************************************************************************)
ReaderInv ==
  /\ reader \in {Nobody} \cup Asked
  /\ reader # Nobody =>
       /\ reader.paper \in Swept => reader.swept
       /\ reader.at \in {"stat", "open"} =>
            reader.swept \/ reader.paper \in hit \/ reader.paper \in disk
       /\ reader.at = "missing" => reader.swept \/ reader.paper \in hit

\* For the cache a request is a stutter.
LEMMA RequestsOnlyLook == [PublicNext]_<<vars, reader>> => [Next]_vars
BY DEF PublicNext, Cache, Serve, Ask, ReadRow, Stat, ServeFile, Answer

\* Moving a request on keeps what it asked for.
LEMMA AskedMoves ==
  ASSUME ReaderInv, reader # Nobody, NEW s \in {"row", "stat", "open", "missing"}
  PROVE  LET moved == [reader EXCEPT !.at = s] IN
         moved \in Asked /\ moved # Nobody /\ moved.at = s
           /\ moved.paper = reader.paper /\ moved.swept = reader.swept
BY DEF ReaderInv, Asked, Nobody

\* The history of the request survives every step.
LEMMA ReaderStep ==
  ASSUME TypeInv, FilesInv, ReaderInv, [PublicNext]_<<vars, reader>>
  PROVE  ReaderInv'
<1>1. ASSUME NEW p \in Papers, Ask(p) PROVE ReaderInv'
  <2>1. reader' = [at |-> "row", paper |-> p, swept |-> p \in Swept] /\ UNCHANGED vars
    BY <1>1 DEF Ask, Answer
  <2>2. reader' \in Asked
    BY <2>1 DEF Asked
  <2>3. Swept' = Swept
    BY <2>1 DEF Swept, vars, workerVars
  <2>4. QED
    BY <2>1, <2>2, <2>3 DEF ReaderInv
<1>2. ASSUME UNCHANGED vars, reader # Nobody,
             NEW s \in {"row", "stat", "open", "missing"},
             reader' = [reader EXCEPT !.at = s],
             s \in {"stat", "open"} =>
               reader.swept \/ reader.paper \in hit \/ reader.paper \in disk,
             s = "missing" => reader.swept \/ reader.paper \in hit
      PROVE  ReaderInv'
  <2>1. /\ reader' \in Asked /\ reader' # Nobody /\ reader'.at = s
        /\ reader'.paper = reader.paper /\ reader'.swept = reader.swept
    BY <1>2, AskedMoves
  <2>2. Swept' = Swept /\ hit' = hit /\ disk' = disk
    BY <1>2 DEF Swept, vars, workerVars
  <2>3. QED
    BY <1>2, <2>1, <2>2 DEF ReaderInv
<1>3. ASSUME reader' = Nobody PROVE ReaderInv'
  BY <1>3 DEF ReaderInv
<1>4. CASE ReadRow
  <2>1. CASE reader' = Nobody
    BY <1>3, <2>1
  <2>2. CASE file[reader.paper].status = "ready" /\ Answer([reader EXCEPT !.at = "stat"])
    <3>1. reader \in Asked /\ reader # Nobody /\ reader.paper \in Papers
      BY <1>4 DEF ReadRow, ReaderInv, Nobody, Asked
    <3>2. reader.paper \in hit \/ reader.paper \in disk \/ reader.paper \in Swept
      BY <2>2, <3>1 DEF FilesInv, ReadyHasFile, Swept
    <3>3. reader.swept \/ reader.paper \in hit \/ reader.paper \in disk
      BY <3>1, <3>2 DEF ReaderInv
    <3>4. QED
      BY <1>2, <2>2, <3>1, <3>3 DEF Answer
  <2>3. QED
    BY <1>4, <2>1, <2>2 DEF ReadRow, Answer
<1>5. CASE Stat \/ ServeFile
  <2>1. /\ reader # Nobody /\ UNCHANGED vars
        /\ reader.swept \/ reader.paper \in hit \/ reader.paper \in disk
    BY <1>5 DEF Stat, ServeFile, Answer, ReaderInv, Nobody
  <2>2. CASE reader' = Nobody
    BY <1>3, <2>2
  <2>3. CASE reader' = [reader EXCEPT !.at = "open"]
    BY <1>2, <2>1, <2>3
  <2>4. CASE reader.paper \notin disk /\ reader' = [reader EXCEPT !.at = "missing"]
    BY <1>2, <2>1, <2>4
  <2>5. QED
    BY <1>5, <2>2, <2>3, <2>4 DEF Stat, ServeFile, Answer
<1>6. CASE Cache
  <2>1. CASE reader = Nobody
    BY <1>3, <1>6, <2>1 DEF Cache
  <2>2. CASE reader # Nobody
    <3>1. reader \in Asked
      BY <2>2 DEF ReaderInv
    <3>2. reader' = [reader EXCEPT !.swept = reader.swept \/ reader.paper \in Swept']
      BY <1>6, <2>2 DEF Cache
    <3>3. /\ reader' \in Asked
          /\ reader'.at = reader.at /\ reader'.paper = reader.paper
      BY <3>1, <3>2 DEF Asked
    <3>4. reader'.swept = (reader.swept \/ reader.paper \in Swept')
      BY <3>1, <3>2 DEF Asked
    <3>5. hit \subseteq hit' /\ reader.paper \in Papers
      BY <1>6, <3>1, HitStep DEF Cache, Asked
    <3>6. reader.paper \in disk => reader.paper \in disk' \/ reader.paper \in Swept'
      BY <1>6, <3>5, DiskStep DEF Cache, Swept
    <3>7. QED
      BY <2>2, <3>3, <3>4, <3>5, <3>6 DEF ReaderInv
  <2>3. QED
    BY <2>1, <2>2
<1>7. CASE UNCHANGED <<vars, reader>>
  BY <1>7 DEF ReaderInv, Swept, vars, workerVars
<1>8. QED
  BY <1>1, <1>4, <1>5, <1>6, <1>7 DEF PublicNext, Serve

\* A public request that found the row ready misses the file only if the cleanup
\* took it during the request or a fault has touched the paper.
THEOREM MissesExplained == PublicSpec => []MissingIsExplained
<1>1. PublicInit => TypeInv /\ FilesInv /\ ReaderInv
  <2>1. Init => FilesInv
    BY DEF Init, FilesInv, ReadyHasFile
  <2>2. QED
    BY <2>1, TypeInit DEF PublicInit, ReaderInv
<1>2. TypeInv /\ FilesInv /\ ReaderInv /\ [PublicNext]_<<vars, reader>>
        => (TypeInv /\ FilesInv /\ ReaderInv)'
  BY RequestsOnlyLook, TypeStep, FilesStep, ReaderStep
<1>3. ReaderInv => MissingIsExplained
  BY DEF ReaderInv, MissingIsExplained, Nobody
<1>4. QED
  BY <1>1, <1>2, <1>3, PTL DEF PublicSpec
=============================================================================
