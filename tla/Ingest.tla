------------------------------- MODULE Ingest -------------------------------
(***************************************************************************)
(* The way of a frame from a watcher to the corpus: cmd/dedup has one      *)
(* goroutine for each watcher's connection, cmd/keyword one for each       *)
(* connection dedup ever dialled.  They share the table papers and dedup's *)
(* outgoing connection (SharedConn).  What keyword does with a row it has  *)
(* inserted concerns the profiles and is the subject of ProfileAnalysis.   *)
(* It never gets as far as the pipeline: a row is forwarded only once a    *)
(* profile_analyze job was queued for it, and the statement that queues    *)
(* one is refused whenever keyword runs it.                                *)
(***************************************************************************)
EXTENDS Integers, Sequences, FiniteSets

CONSTANTS
  Links,       \* the watchers' connections to dedup
  Items,       \* what they may send
  Keys,        \* Keys[i]: arXiv id, DOI and weak key of i, as far as it has them
  Label,       \* Label[i]: the source label of i
  Manual,      \* the items a user types in, which go past dedup and keyword
  Admitted,    \* the items the title gate of keyword lets pass
  Faults,      \* which faults may happen, see FaultKinds
  MaxFrames,   \* bound: frames the watchers send
  MaxFaults,   \* bound: faults
  MaxConns     \* bound: connections a service dials

\* "dedup", "keyword": the service dies, or cannot be dialled because it has;
\* "db": a statement fails.
FaultKinds == {"dedup", "keyword", "db"}

ASSUME ItemsAssumption ==
  /\ Admitted \subseteq Items /\ Manual \subseteq Items
  /\ DOMAIN Keys = Items /\ DOMAIN Label = Items
ASSUME IngestFaultsAssumption == Faults \subseteq FaultKinds
ASSUME IngestBoundsAssumption ==
  MaxFrames \in Nat /\ MaxFaults \in Nat /\ MaxConns \in Nat

VARIABLES
  inbox,       \* frames each watcher has written and dedup has not read
  dedup,       \* the goroutine of each link
  kwOut, kwDialed, kwCut, kwWire,    \* dedup's connections to keyword
  keyword,     \* the goroutine of each of them
  papers,      \* the table papers: papers[r] is the row with id r
  taken,       \* history: items dedup has read
  lost,        \* history: those of them whose last frame a fault has met
  sent,        \* bound: frames sent
  faults       \* bound: faults so far

kwVars == <<kwOut, kwDialed, kwCut, kwWire>>
history == <<taken, lost>>
bounds == <<sent, faults>>
vars == <<inbox, dedup, kwVars, keyword, papers, history, bounds>>

Kw == INSTANCE SharedConn WITH Frames <- Items, out <- kwOut,
        dialed <- kwDialed, cut <- kwCut, wire <- kwWire

Conns  == 1 .. MaxConns
Labels == {Label[i] : i \in Items}

\* kept is history: the labels that were written while no other goroutine held
\* a list of its own to write into the row.
Row    == [item : Items, sources : SUBSET Labels, kept : SUBSET Labels]
Idle   == [at |-> "idle"]

DedupStates ==
  {Idle} \cup [at : {"find", "dial", "send"}, item : Items]
         \cup [at : {"merge"}, item : Items, row : DOMAIN papers]
         \cup [at : {"update"}, item : Items, row : DOMAIN papers,
               list : SUBSET Labels]

KeywordStates == {Idle} \cup [at : {"insert"}, item : Items]

TypeOK ==
  /\ papers \in Seq(Row)
  /\ inbox \in [Links -> Seq(Items)]
  /\ dedup \in [Links -> DedupStates]
  /\ keyword \in [Conns -> KeywordStates]
  /\ Kw!TypeOK
  /\ taken \subseteq Items /\ lost \subseteq taken
  /\ sent \in 0 .. MaxFrames /\ faults \in 0 .. MaxFaults

Init ==
  /\ papers = << >>
  /\ inbox = [l \in Links |-> << >>]
  /\ dedup = [l \in Links |-> Idle]
  /\ keyword = [n \in Conns |-> Idle]
  /\ Kw!Init
  /\ taken = {} /\ lost = {}
  /\ sent = 0 /\ faults = 0

-----------------------------------------------------------------------------
\* A watcher, or an admin's rescan, writes a frame.
Send(l, i) ==
  /\ sent < MaxFrames /\ i \notin Manual
  /\ inbox' = [inbox EXCEPT ![l] = Append(@, i)]
  /\ sent' = sent + 1
  /\ UNCHANGED <<dedup, kwVars, keyword, papers, history, faults>>

Fault(kind) ==
  /\ kind \in Faults /\ faults < MaxFaults
  /\ faults' = faults + 1

\* Mutant of Matching: only the first row is looked at.
MatchingFirst(i) == {r \in DOMAIN papers : r = 1}

\* The rows FindIDByIdentity may return, and the unique indexes object to.
Matching(i) == {r \in DOMAIN papers : Keys[i] \cap Keys[papers[r].item] # {}}

NewRow(i) == [item |-> i, sources |-> {Label[i]}, kept |-> {Label[i]}]

\* handleAddManualLikePaper, up to the like: FindIDByIdentity, and a row of its
\* own unless the unique index on the arXiv id objects.
AddManual(i) ==
  /\ sent < MaxFrames /\ i \in Manual
  /\ Matching(i) = {}
  /\ papers' = Append(papers, NewRow(i))
  /\ sent' = sent + 1
  /\ UNCHANGED <<inbox, dedup, kwVars, keyword, history, faults>>

-----------------------------------------------------------------------------
(***************************************************************************)
(* cmd/dedup: acceptLoop.                                                  *)
(***************************************************************************)
DedupGoto(l, state) ==
  /\ dedup' = [dedup EXCEPT ![l] = state]
  /\ UNCHANGED <<keyword, sent>>

DedupRead(l) ==
  /\ dedup[l] = Idle /\ inbox[l] # << >>
  /\ inbox' = [inbox EXCEPT ![l] = Tail(@)]
  /\ taken' = taken \cup {Head(inbox[l])}
  /\ lost' = lost \ {Head(inbox[l])}
  /\ DedupGoto(l, [at |-> "find", item |-> Head(inbox[l])])
  /\ UNCHANGED <<kwVars, papers, faults>>

DedupFind(l) ==
  /\ dedup[l].at = "find"
  /\ LET i == dedup[l].item IN
       \/ Matching(i) = {} /\ DedupGoto(l, [at |-> "dial", item |-> i])
       \/ \E r \in Matching(i) :
            DedupGoto(l, [at |-> "merge", item |-> i, row |-> r])
  /\ UNCHANGED <<inbox, kwVars, papers, history, faults>>

\* Mutant of DedupMerge: the list starts again from the row's first label.
DedupMergeOrigin(l) ==
  /\ dedup[l].at = "merge"
  /\ LET d == dedup[l]
         list == papers[d.row].sources IN
       \/ Label[d.item] \in list /\ DedupGoto(l, Idle)
       \/ Label[d.item] \notin list
          /\ DedupGoto(l, [at |-> "update", item |-> d.item, row |-> d.row,
                           list |-> {Label[papers[d.row].item], Label[d.item]}])
  /\ UNCHANGED <<inbox, kwVars, papers, history, faults>>

\* mergeSource reads the list of labels ...
DedupMerge(l) ==
  /\ dedup[l].at = "merge"
  /\ LET d == dedup[l]
         list == papers[d.row].sources IN
       \/ Label[d.item] \in list /\ DedupGoto(l, Idle)
       \/ Label[d.item] \notin list
          /\ DedupGoto(l, [at |-> "update", item |-> d.item, row |-> d.row,
                           list |-> list \cup {Label[d.item]}])
  /\ UNCHANGED <<inbox, kwVars, papers, history, faults>>

\* Whether another goroutine is about to write its own list into the row.
Overlaps(l) ==
  \E m \in Links \ {l} : dedup[m].at = "update" /\ dedup[m].row = dedup[l].row

\* ... and writes it back as a whole.
DedupUpdate(l) ==
  /\ dedup[l].at = "update"
  /\ papers' = [papers EXCEPT ![dedup[l].row] =
                  [item |-> @.item, sources |-> dedup[l].list,
                   kept |-> IF Overlaps(l) THEN @.kept
                            ELSE @.kept \cup {Label[dedup[l].item]}]]
  /\ DedupGoto(l, Idle)
  /\ UNCHANGED <<inbox, kwVars, history, faults>>

\* Frames that a fault meets and nobody tries again.
Lose(items) == lost' = lost \cup items /\ UNCHANGED taken

\* What a goroutine of dedup is lost with: the others have found their row.
InHands(l) ==
  IF dedup[l].at \in {"find", "dial", "send"} THEN {dedup[l].item} ELSE {}

\* A statement fails: the frame is given up.
DedupFails(l) ==
  /\ dedup[l].at \in {"find", "merge", "update"}
  /\ Fault("db")
  /\ Lose(InHands(l))
  /\ DedupGoto(l, Idle)
  /\ UNCHANGED <<inbox, kwVars, papers>>

\* Mutant of DedupDial: the new connection goes into a variable of its own.
DedupDialShadowed(l) ==
  /\ dedup[l].at = "dial"
  /\ DedupGoto(l, [at |-> "send", item |-> dedup[l].item])
  /\ UNCHANGED <<inbox, kwVars, papers, history, faults>>

DedupDial(l) ==
  /\ dedup[l].at = "dial"
  /\ \/ /\ Kw!Dial
        /\ DedupGoto(l, [at |-> "send", item |-> dedup[l].item])
        /\ UNCHANGED <<history, faults>>
     \/ /\ kwOut = 0 /\ Fault("keyword")
        /\ Lose({dedup[l].item})
        /\ DedupGoto(l, Idle) /\ UNCHANGED kwVars
  /\ UNCHANGED <<inbox, papers>>

\* A frame written to a connection whose other end is gone is lost whether the
\* write fails or not.
DedupSend(l) ==
  /\ dedup[l].at = "send"
  /\ Kw!Write(dedup[l].item) \/ Kw!WriteFails
  /\ Lose(IF kwOut \in kwCut THEN {dedup[l].item} ELSE {})
  /\ DedupGoto(l, Idle)
  /\ UNCHANGED <<inbox, papers, faults>>

\* The process is gone: its goroutines, and what it had received.
DedupRestarts ==
  /\ dedup' = [l \in Links |-> Idle]
  /\ inbox' = [l \in Links |-> << >>]
  /\ Lose(UNION {InHands(l) : l \in Links})
  /\ Kw!OwnerDies
  /\ UNCHANGED <<keyword, papers, sent>>

\* A write to the nil that another goroutine left behind.
DedupPanic(l) ==
  /\ dedup[l].at = "send" /\ kwOut = 0
  /\ DedupRestarts
  /\ UNCHANGED faults

DedupCrash ==
  /\ Fault("dedup")
  /\ DedupRestarts

-----------------------------------------------------------------------------
(***************************************************************************)
(* cmd/keyword: reader, one for each connection from dedup.                *)
(***************************************************************************)
KeywordGoto(n, state) ==
  /\ keyword' = [keyword EXCEPT ![n] = state]
  /\ UNCHANGED <<inbox, dedup, sent>>

\* The next frame; the title gate may drop it.
KeywordRead(n) ==
  /\ keyword[n] = Idle
  /\ Kw!Read(n)
  /\ LET i == Head(kwWire[n]) IN
       \/ i \in Admitted /\ KeywordGoto(n, [at |-> "insert", item |-> i])
       \/ i \notin Admitted /\ KeywordGoto(n, Idle)
  /\ UNCHANGED <<papers, history, faults>>

\* InsertAfterKeyword: refused when the identity has come in meanwhile.  What
\* follows changes no state of this module.
KeywordInsert(n) ==
  /\ keyword[n].at = "insert"
  /\ LET i == keyword[n].item IN
       \/ /\ Matching(i) = {}
          /\ papers' = Append(papers, NewRow(i))
          /\ UNCHANGED <<history, faults>>
       \/ /\ Matching(i) # {}
          /\ UNCHANGED <<papers, history, faults>>
       \/ /\ Fault("db")
          /\ Lose({i})
          /\ UNCHANGED papers
  /\ KeywordGoto(n, Idle)
  /\ UNCHANGED kwVars

\* The process is gone with the frames it had read and those on the wire.
KeywordCrash ==
  /\ Fault("keyword")
  /\ Lose({keyword[n].item : n \in {m \in Conns : keyword[m].at = "insert"}}
            \cup UNION {{kwWire[n][k] : k \in DOMAIN kwWire[n]} : n \in Conns})
  /\ keyword' = [n \in Conns |-> Idle]
  /\ Kw!PeerDies
  /\ UNCHANGED <<inbox, dedup, papers, sent>>

-----------------------------------------------------------------------------
Dedup(l) == \/ DedupRead(l) \/ DedupFind(l) \/ DedupMerge(l) \/ DedupUpdate(l)
            \/ DedupFails(l) \/ DedupDial(l) \/ DedupSend(l) \/ DedupPanic(l)

Keyword(n) == KeywordRead(n) \/ KeywordInsert(n)

Next ==
  \/ \E l \in Links : (\E i \in Items : Send(l, i)) \/ Dedup(l)
  \/ \E i \in Items : AddManual(i)
  \/ \E n \in Conns : Keyword(n)
  \/ DedupCrash \/ KeywordCrash

Spec == Init /\ [][Next]_vars

\* Every goroutine that can run runs on.
Fairness ==
  /\ \A l \in Links : WF_vars(Dedup(l))
  /\ \A n \in Conns : WF_vars(Keyword(n))

FairSpec == Spec /\ Fairness

-----------------------------------------------------------------------------
Stored(i) ==
  \E r \in DOMAIN papers :
    papers[r].item = i \/ Keys[papers[r].item] \cap Keys[i] # {}

\* A frame of i that dedup has read and nobody has finished with.
UnderWay(i) ==
  \/ \E l \in Links : dedup[l] # Idle /\ dedup[l].item = i
  \/ \E n \in Conns :
       \/ \E k \in DOMAIN kwWire[n] : kwWire[n][k] = i
       \/ keyword[n].at = "insert" /\ keyword[n].item = i

\* Every item dedup has read and the title gate lets pass is stored, under its
\* own identity or a matching one, or still under way, unless a fault has met
\* its frame: no interleaving of the lookup in dedup with the inserts of keyword
\* and the API loses an item, and a failure loses no frame but those it meets.
NothingLost ==
  \A i \in (taken \cap Admitted) \ lost : Stored(i) \/ UnderWay(i)

\* A row keeps every label that was written into it, whatever is merged into it
\* later by whichever goroutine and whatever dies meanwhile.  The labels of two
\* merges that overlap are the exception: the second writes back a list it read
\* before the first, and the first label is gone.
LabelsKept == \A r \in DOMAIN papers : papers[r].kept \subseteq papers[r].sources

\* Only the death of keyword, noticed by another goroutine, takes away the
\* connection a goroutine of dedup has just dialled.
NilOnlyAfterCut ==
  \A l \in Links : dedup[l].at = "send" /\ kwOut = 0 => kwCut # {}

\* Every item dedup has read and the title gate lets pass is stored in the end,
\* unless a fault has met its frame.
EveryItemStored ==
  \A i \in Admitted : i \in taken ~> (Stored(i) \/ i \in lost)
=============================================================================
