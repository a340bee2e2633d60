---------------------------- MODULE MCDashboard ----------------------------
(***************************************************************************)
(* Dashboard over the pages of both dashboards, for TLC.                   *)
(***************************************************************************)
EXTENDS Dashboard

Beta == INSTANCE BetaPages
Frontend == INSTANCE FrontendPages

AllPages == Beta!Pages \cup Frontend!Pages

Symmetry == Permutations(Ids) \cup Permutations(Calls)
=============================================================================
