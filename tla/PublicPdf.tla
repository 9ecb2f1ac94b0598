------------------------------ MODULE PublicPdf ------------------------------
(***************************************************************************)
(* GET /api/public/papers/{id}/pdf on top of the PDF cache: the handler    *)
(* asks whether a public profile likes the paper, reads the row of its     *)
(* file, looks at the file and opens it, in four steps between which       *)
(* owners unlike and hide, and the worker downloads and cleans up.         *)
(***************************************************************************)
EXTENDS PdfCache

VARIABLE reader   \* one request for a PDF

\* swept is a history variable: whether the cleanup had removed the file, but
\* not yet marked the row, at any moment since the request was let in.
Nobody == [at |-> "none"]
Asked  == [at : {"row", "stat", "open", "missing"}, paper : Papers, swept : BOOLEAN]

PublicTypeOK == TypeOK /\ reader \in {Nobody} \cup Asked

PublicInit == Init /\ reader = Nobody

\* The paper whose file is gone and whose row still says ready.
Swept == {p \in Papers : wpc = "markMissing" /\ victim = p}

-----------------------------------------------------------------------------
Answer(state) == reader' = state /\ UNCHANGED vars

\* A request that allowRate lets through and for which IsPaperPubliclyLiked
\* says yes.  Whether one of those who like the paper is public is for its
\* owner to say at any moment and decides nothing else, so it is left open.
Ask(p) ==
  /\ reader.at \in {"none", "missing"}
  /\ Likers(p) # {}
  /\ Answer([at |-> "row", paper |-> p, swept |-> p \in Swept])

\* Mutant of ReadRow: neither status nor path is looked at.
ReadRowUnchecked ==
  /\ reader.at = "row"
  /\ Answer([reader EXCEPT !.at = "stat"])

\* GetPaperFile: 404 unless the row is ready and has a path.
ReadRow ==
  /\ reader.at = "row"
  /\ LET ready == file[reader.paper].status = "ready" /\ file[reader.paper].path IN
       \/ ready /\ Answer([reader EXCEPT !.at = "stat"])
       \/ (~ready \/ "db" \in Faults) /\ Answer(Nobody)

\* os.Stat; a file above PDF_MAX_SERVE_BYTES is refused.
Stat ==
  /\ reader.at = "stat"
  /\ IF reader.paper \in disk
     THEN \E state \in {[reader EXCEPT !.at = "open"], Nobody} : Answer(state)
     ELSE Answer([reader EXCEPT !.at = "missing"])

\* http.ServeFile opens the path again.
ServeFile ==
  /\ reader.at = "open"
  /\ Answer(IF reader.paper \in disk THEN Nobody ELSE [reader EXCEPT !.at = "missing"])

Serve == (\E p \in Papers : Ask(p)) \/ ReadRow \/ Stat \/ ServeFile

\* A step of the others, and what the request has been through then.
Cache ==
  /\ Next
  /\ reader' = IF reader = Nobody THEN Nobody
               ELSE [reader EXCEPT !.swept = @ \/ reader.paper \in Swept']

PublicNext == Cache \/ Serve

PublicSpec == PublicInit /\ [][PublicNext]_<<vars, reader>>

-----------------------------------------------------------------------------
\* A request that found the row ready gets the file, unless the cleanup took
\* the file away during the request or a fault has touched the paper: what a
\* row says can be believed.
MissingIsExplained ==
  reader.at = "missing" => reader.swept \/ reader.paper \in hit
=============================================================================
