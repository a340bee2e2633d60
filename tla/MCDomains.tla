----------------------------- MODULE MCDomains -----------------------------
(***************************************************************************)
(* Small instances of Domains for TLC.                                     *)
(***************************************************************************)
EXTENDS Domains, TLC

Symmetry == Permutations(Ids) \cup Permutations(Requests)
=============================================================================
