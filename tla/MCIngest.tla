------------------------------ MODULE MCIngest ------------------------------
(***************************************************************************)
(* Instances of Ingest for TLC.  The preprint, its revision and the paper  *)
(* a user types in share an arXiv id, the preprint and the entries of two  *)
(* feeds the weak key of title, year and surname; the note has no identity *)
(* at all.                                                                 *)
(***************************************************************************)
EXTENDS Ingest

Six == {"preprint", "revision", "entry1", "entry2", "typed", "note"}

SixKeys == [preprint |-> {"arxiv", "weak"}, revision |-> {"arxiv", "weak2"},
            entry1 |-> {"weak"}, entry2 |-> {"weak"}, typed |-> {"arxiv"},
            note |-> {}]

SixLabel == [preprint |-> "arxiv", revision |-> "arxiv",
             entry1 |-> "rss:feed-1", entry2 |-> "rss:feed-2",
             typed |-> "manual", note |-> "rss:feed-1"]
=============================================================================
