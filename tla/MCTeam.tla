------------------------------- MODULE MCTeam -------------------------------
(***************************************************************************)
(* Small instances of Team for TLC.                                        *)
(***************************************************************************)
EXTENDS Team, TLC

\* Every customer in the only organization.
OneOrg == [c \in Customers |-> CHOOSE o \in Orgs : TRUE]

\* One customer in an organization of its own, for the others to leave alone.
CONSTANTS outsider, home, elsewhere
TwoOrgs == [c \in Customers |-> IF c = outsider THEN elsewhere ELSE home]

Symmetry == Permutations(Customers) \cup Permutations(Requests)
=============================================================================
