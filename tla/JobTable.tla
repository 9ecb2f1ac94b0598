------------------------------ MODULE JobTable ------------------------------
(***************************************************************************)
(* The rows of one kind of the Postgres table "jobs" and the statements    *)
(* internal/store runs on them.  jobs[i] is the i-th row of that kind: ids *)
(* are given in insertion order, which is also the order of created_at (a  *)
(* retry changes neither), so the oldest pending row is the one with the   *)
(* smallest index.                                                         *)
(***************************************************************************)
EXTENDS Integers, Sequences

CONSTANTS Profiles,   \* the profiles that may like a paper
          Papers      \* the papers that may be liked

VARIABLE jobs

JobStatus == {"pending", "running", "failed", "done"}

\* The columns that decide anything: the payload and the status.
Job == [profile : Profiles, paper : Papers, status : JobStatus]

Enqueue(c, p) ==
  jobs' = Append(jobs, [profile |-> c, paper |-> p, status |-> "pending"])

Pending == {j \in DOMAIN jobs : jobs[j].status = "pending"}

\* Mutant of IsNextPending: the order is descending.
IsNewestPending(j) == j \in Pending /\ \A i \in Pending : i <= j

\* The row ClaimNextPendingJob selects and locks.
IsNextPending(j) == j \in Pending /\ \A i \in Pending : j <= i

SetStatus(j, status) == jobs' = [jobs EXCEPT ![j].status = status]

\* Mutant of FailJob: the failure is not written.
FailJobUnrecorded(j) == UNCHANGED jobs

ClaimJob(j)    == IsNextPending(j) /\ SetStatus(j, "running")
CompleteJob(j) == SetStatus(j, "done")
FailJob(j)     == SetStatus(j, "failed")

\* RetryJob looks at no status: any row becomes pending.
RetryJob(j)    == SetStatus(j, "pending")
=============================================================================
