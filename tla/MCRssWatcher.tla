---------------------------- MODULE MCRssWatcher ----------------------------
(***************************************************************************)
(* Instances of RssWatcher for TLC.                                        *)
(***************************************************************************)
EXTENDS RssWatcher

\* Items without a date, and of two dates.
SomeUndated == {NoTime, 0, 1}
=============================================================================
