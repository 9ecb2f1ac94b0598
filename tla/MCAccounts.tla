----------------------------- MODULE MCAccounts -----------------------------
(***************************************************************************)
(* Instances of Accounts for TLC.                                          *)
(***************************************************************************)
EXTENDS Accounts, TLC

\* No action and no property names a user name, a slug or a request slot.
Symmetry == Permutations(Names) \cup Permutations(Slugs) \cup Permutations(Handlers)
=============================================================================
