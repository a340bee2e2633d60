--------------------------- MODULE MCInvitations ---------------------------
(***************************************************************************)
(* Small instances of Invitations for TLC: two organizations, of one       *)
(* inviter each or two in one.                                             *)
(***************************************************************************)
EXTENDS Invitations, TLC

CONSTANTS rival    \* the inviter of the second organization
CONSTANTS home, other

InviterOrgs == [c \in Inviters |-> IF c = rival THEN other ELSE home]

Symmetry == Permutations(Invites) \cup Permutations(Requests)
=============================================================================
