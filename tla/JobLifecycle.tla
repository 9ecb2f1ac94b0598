---------------------------- MODULE JobLifecycle ----------------------------
(***************************************************************************)
(* What the table "jobs" promises for one kind of job and one worker: jobs *)
(* are taken one at a time, the oldest first; a job that was taken is      *)
(* settled, as done or failed, before the next is taken; a settled job can *)
(* be submitted again.  With MayOrphan the worker can lose the job it      *)
(* holds: it is then orphaned until somebody submits it again.             *)
(***************************************************************************)
EXTENDS Integers

CONSTANTS MaxJobs,    \* ids are 1 .. MaxJobs
          MayOrphan   \* whether a job can be lost by its worker

VARIABLE phase

Phases == {"absent", "waiting", "working", "settled", "orphaned"}

Ids == 1 .. MaxJobs

In(ph) == {j \in Ids : phase[j] = ph}

Init == phase = [j \in Ids |-> "absent"]

Move(j, ph) == phase' = [phase EXCEPT ![j] = ph]

\* Ids are handed out in order.
Submit(j) == /\ phase[j] = "absent"
             /\ \A i \in Ids : i < j => phase[i] # "absent"
             /\ Move(j, "waiting")

Take(j) == /\ phase[j] = "waiting"
           /\ In("working") = {}
           /\ \A i \in In("waiting") : j <= i
           /\ Move(j, "working")

Settle(j) == phase[j] = "working" /\ Move(j, "settled")

Resubmit(j) == phase[j] \in {"settled", "orphaned"} /\ Move(j, "waiting")

\* A job somebody resubmitted while it was worked on goes back to waiting.
Lose(j) == /\ MayOrphan
           /\ phase[j] = "working"
           /\ Move(j, "orphaned") \/ Move(j, "waiting")

Next == \E j \in Ids :
          Submit(j) \/ Take(j) \/ Settle(j) \/ Resubmit(j) \/ Lose(j)

Spec == Init /\ [][Next]_phase
=============================================================================
