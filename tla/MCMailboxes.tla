---------------------------- MODULE MCMailboxes ----------------------------
(***************************************************************************)
(* Small instances of Mailboxes for TLC.                                   *)
(***************************************************************************)
EXTENDS Mailboxes, TLC

Symmetry == Permutations(Ids) \cup Permutations(Requests)
=============================================================================
