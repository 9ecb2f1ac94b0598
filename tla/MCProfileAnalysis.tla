-------------------------- MODULE MCProfileAnalysis --------------------------
(***************************************************************************)
(* Instances of ProfileAnalysis for TLC: an arXiv paper and one of a feed, *)
(* both about the keyword "ml".                                            *)
(***************************************************************************)
EXTENDS ProfileAnalysis

CONSTANTS preprint, post

SourceOf  == [p \in Papers |-> IF p = preprint THEN "arxiv" ELSE "journal"]
PhrasesOf == [p \in Papers |-> IF p = preprint THEN {"ml", "vision"} ELSE {"ml"}]

Saved(keywords, sources, disabled) ==
  [keywords |-> keywords, sources |-> sources, disabled |-> disabled]

\* Users change the sources and the keywords together: from all sources to the
\* feed of the post and one that is served by arXiv, or switch that feed off ...
SourceConfigs == {Saved({"ml"}, {}, {}), Saved({"vision"}, {"cs.rss", "journal"}, {}),
                  Saved({"ml"}, {}, {"journal"})}

\* ... or the keywords only.
KeywordConfigs == {Saved({"ml"}, {"arxiv", "journal"}, {}),
                   Saved({"logic"}, {"arxiv", "journal"}, {})}

\* A profile that subscribes to arXiv.
ArxivConfigs == {Saved({"ml"}, {"arxiv"}, {})}
=============================================================================
