------------------------------ MODULE Scoring ------------------------------
(***************************************************************************)
(* pipeline: Processor.Process scores the papers that keyword sends, each  *)
(* connection in a goroutine of its own, while any service that starts     *)
(* runs all migrations once more.  Ollama is external: it answers, fails   *)
(* or lets the deadline pass.                                              *)
(***************************************************************************)
EXTENDS Integers

CONSTANTS
  Papers,
  MaxAttempts,  \* LLM_MAX_ATTEMPTS
  Faults        \* "start": a service starts; "crash": pipeline dies;
                \* "fail": a statement fails

ASSUME ScoringAssumption ==
  /\ MaxAttempts \in Nat \ {0}
  /\ Faults \subseteq {"start", "crash", "fail"}

VARIABLES
  enableLLM,  \* PIPELINE_ENABLE_LLM
  row,   \* row[p]: the score columns of papers
  work   \* work[p]: Process for p, from the frame of keyword to its return

vars == <<enableLLM, row, work>>

NoVerdict == "NULL"
Verdicts == {"true", "false"}
Fresh == [embedded |-> FALSE, status |-> "pending", relevant |-> NoVerdict,
          error |-> FALSE, stamped |-> FALSE]

NoWork == [at |-> "none", tried |-> 0, pulled |-> FALSE]
Returned == [NoWork EXCEPT !.at = "returned"]
Lost     == [NoWork EXCEPT !.at = "lost"]

TypeOK ==
  /\ enableLLM \in BOOLEAN
  /\ row \in [Papers -> [embedded : BOOLEAN, status : {"ok", "pending"},
                         relevant : Verdicts \cup {NoVerdict},
                         error : BOOLEAN, stamped : BOOLEAN]]
  /\ work \in [Papers -> [at : {"none", "embed", "chat", "returned", "lost"},
                          tried : 0 .. MaxAttempts - 1,
                          pulled : BOOLEAN]]

Init ==
  /\ enableLLM \in BOOLEAN
  /\ row = [p \in Papers |-> Fresh]
  /\ work = [p \in Papers |-> NoWork]

-----------------------------------------------------------------------------
Return(p) == work' = [work EXCEPT ![p] = Returned]

\* Mutant of SetLLMOK: no look at the verdict.
SetLLMOKUnstamped(p, relevant) ==
  row' = [row EXCEPT ![p].status = "ok", ![p].relevant = relevant,
                     ![p].error = FALSE]

SetLLMOK(p, relevant) ==
  row' = [row EXCEPT ![p].status = "ok", ![p].relevant = relevant,
                     ![p].error = FALSE, ![p].stamped = @ \/ relevant = "true"]

SetLLMPending(p) ==
  row' = [row EXCEPT ![p].status = "pending", ![p].relevant = NoVerdict,
                     ![p].error = TRUE]

\* keyword has inserted the paper and sent its id.
Receive(p) ==
  /\ work[p].at = "none"
  /\ work' = [work EXCEPT ![p].at = "embed"]
  /\ UNCHANGED <<enableLLM, row>>

\* With the embedding there or not, on to the chat if it is enabled.
AfterEmbed(p) ==
  IF enableLLM THEN work' = [work EXCEPT ![p].at = "chat"] ELSE Return(p)

\* UpdateShadowResult.
Embed(p) ==
  /\ work[p].at = "embed"
  /\ row' = [row EXCEPT ![p].embedded = TRUE]
  /\ AfterEmbed(p)
  /\ UNCHANGED enableLLM

\* Mutant of EmbedFails: the error is not noted.
EmbedFailsUnnoted(p) ==
  /\ work[p].at = "embed"
  /\ AfterEmbed(p)
  /\ UNCHANGED <<enableLLM, row>>

\* No embedding, not even after the model was pulled.  Without a chat to
\* follow the error is noted now.
EmbedFails(p) ==
  /\ work[p].at = "embed"
  /\ IF enableLLM THEN UNCHANGED row ELSE SetLLMPending(p)
  /\ AfterEmbed(p)
  /\ UNCHANGED enableLLM

\* The model gives a verdict.
Chat(p) ==
  /\ work[p].at = "chat"
  /\ \E relevant \in Verdicts : SetLLMOK(p, relevant)
  /\ Return(p)
  /\ UNCHANGED enableLLM

\* The attempts are used up, or the deadline has passed and it is not the
\* first failure, which only pulls the model.
GivesUp(p, late) == work[p].tried + 1 = MaxAttempts \/ (work[p].pulled /\ late)

ChatFails(p) ==
  /\ work[p].at = "chat"
  /\ \E late \in BOOLEAN :
       IF GivesUp(p, late)
       THEN SetLLMPending(p) /\ Return(p)
       ELSE /\ work' = [work EXCEPT ![p].tried = @ + 1, ![p].pulled = TRUE]
            /\ UNCHANGED row
  /\ UNCHANGED enableLLM

\* A statement of Process fails: logged, and no more.
Fails(p) ==
  /\ "fail" \in Faults
  /\ work[p].at \in {"embed", "chat"}
  /\ work' = [work EXCEPT ![p] = Lost]
  /\ UNCHANGED <<enableLLM, row>>

\* A service starts: migration 003 resets every paper.
Migrate ==
  /\ "start" \in Faults
  /\ row' = [p \in Papers |-> [Fresh EXCEPT !.embedded = row[p].embedded]]
  /\ UNCHANGED <<enableLLM, work>>

\* pipeline dies, and what it was working on is not sent again.
Crash ==
  /\ "crash" \in Faults
  /\ work' = [p \in Papers |-> IF work[p].at \in {"embed", "chat"} THEN Lost ELSE work[p]]
  /\ UNCHANGED <<enableLLM, row>>

\* All papers have been through.
Quiet == (\A p \in Papers : work[p].at \in {"returned", "lost"}) /\ UNCHANGED vars

Process(p) == Embed(p) \/ EmbedFails(p) \/ Chat(p) \/ ChatFails(p)

Next ==
  \/ \E p \in Papers : Receive(p) \/ Process(p) \/ Fails(p)
  \/ Migrate
  \/ Crash
  \/ Quiet

Spec == Init /\ [][Next]_vars

\* Ollama answers or its client times out.
FairSpec == Spec /\ \A p \in Papers : WF_vars(Process(p))

-----------------------------------------------------------------------------
Settled(p) ==
  IF enableLLM THEN row[p].status = "ok" \/ row[p].error
  ELSE row[p].embedded \/ row[p].error

\* The columns agree whenever migrations and goroutines meet: a verdict goes
\* with status ok and no error, a relevant paper is eligible for the digest.
ColumnsAgree ==
  \A p \in Papers :
    /\ (row[p].status = "ok") = (row[p].relevant # NoVerdict)
    /\ row[p].error => row[p].status = "pending"
    /\ row[p].relevant = "true" => row[p].stamped

\* Whatever Ollama does, and whenever services start, every paper sent to
\* pipeline ends with its score or with the error that kept it from one, unless
\* pipeline dies with it or a statement fails.
EveryPaperSettles ==
  \A p \in Papers : (work[p].at = "embed") ~> (Settled(p) \/ work[p].at = "lost")
=============================================================================
