--------------------------- MODULE MCArxivLimiter ---------------------------
(***************************************************************************)
(* Instances of ArxivLimiter for TLC: three callers at a time.  Either the *)
(* watcher and two rescans of the API take part, or three rescans that     *)
(* share the two connections of their pool.                                *)
(***************************************************************************)
EXTENDS ArxivLimiter

CONSTANTS watcher, rescan1, rescan2, rescan3

Homes == [c \in Callers |-> IF c = watcher THEN "arxiv-watcher" ELSE "api"]

VARIABLE absent  \* the caller that never calls

ThreeInit == Init /\ absent \in {watcher, rescan3}

ThreeNext == Next /\ caller'[absent] = caller[absent] /\ UNCHANGED absent

ThreeOfFour == ThreeInit /\ [][ThreeNext]_<<vars, absent>> /\ Fairness
=============================================================================
