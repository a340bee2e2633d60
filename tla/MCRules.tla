------------------------------ MODULE MCRules ------------------------------
(***************************************************************************)
(* Small instances of Rules for TLC.                                       *)
(***************************************************************************)
EXTENDS Rules, TLC

Symmetry == Permutations(Mailboxes) \cup Permutations(Requests)
=============================================================================
