---------------------------- MODULE MCPublicPdf ----------------------------
(***************************************************************************)
(* Instances of PublicPdf for TLC.                                         *)
(***************************************************************************)
EXTENDS PublicPdf, TLC

\* No action and no property names a profile, a paper or a request slot.
Symmetry ==
  Permutations(Profiles) \cup Permutations(Papers) \cup Permutations(Handlers)
=============================================================================
