----------------------------- MODULE MCHelpers -----------------------------
(***************************************************************************)
(* Instances of Helpers and Scoring for TLC: four entries of the seeds     *)
(* file, one with an at sign in it, and feeds of a host without a path,    *)
(* with one and with a doubled slash in it.  Every input of Helpers is     *)
(* looked at, and for one of them, the empty text, Scoring runs.           *)
(***************************************************************************)
EXTENDS Helpers, Scoring

FourKeys == <<"k1", "k2", "@", "k4">>

Hosts == {<<"host">>, <<"host", "/", "feed">>, <<"host", "/", "/", "feed">>}

EmptyText == input = [kind |-> "text", length |-> 0, size |-> 0, overlap |-> 0]

BothInit == HelpersInit /\ Init

BothNext ==
  \/ HelpersNext /\ UNCHANGED vars
  \/ EmptyText /\ Next /\ UNCHANGED input

HelpersAndScoring ==
  /\ BothInit /\ [][BothNext]_<<input, vars>>
  /\ \A p \in Papers : WF_vars(Process(p))
=============================================================================
