----------------------------- MODULE MCOutages -----------------------------
(***************************************************************************)
(* Outages for TLC: three retries of the session check, as in              *)
(* RETRY_DELAYS_MS.                                                        *)
(***************************************************************************)
EXTENDS Outages, TLC

\* For the safety of the shared mailbox: no name, mailbox or save is told apart.
Symmetry == Permutations(Boxes) \cup Permutations(Names) \cup Permutations(Saves)
=============================================================================
