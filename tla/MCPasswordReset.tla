-------------------------- MODULE MCPasswordReset --------------------------
(***************************************************************************)
(* Small instances of PasswordReset for TLC.                               *)
(***************************************************************************)
EXTENDS PasswordReset, TLC

Symmetry ==
  Permutations(Ids) \cup Permutations(Requests) \cup Permutations(Tokens) \cup Permutations(Resets)
=============================================================================
