---------------------------- MODULE OneTimeToken ----------------------------
(***************************************************************************)
(* What an e-mailed link promises: "This link expires ... and can only be  *)
(* used once."  A token is issued, then used once or withdrawn (expired,   *)
(* revoked, superseded, deleted), and never comes back from either.        *)
(***************************************************************************)
EXTENDS Naturals

CONSTANT Tokens

VARIABLES
  status,   \* where each token is in its life
  uses      \* how many times its effect took place

vars == <<status, uses>>

Statuses == {"unissued", "open", "used", "withdrawn"}

Init ==
  /\ status = [t \in Tokens |-> "unissued"]
  /\ uses = [t \in Tokens |-> 0]

Use(t) ==
  /\ status[t] = "open"
  /\ status' = [status EXCEPT ![t] = "used"]
  /\ uses' = [uses EXCEPT ![t] = @ + 1]

Issued(t) == status[t] = "unissued" /\ status'[t] = "open"
Withdrawn(t) == status[t] = "open" /\ status'[t] = "withdrawn"

\* One step may withdraw several tokens (a cascade) and issue another in place
\* of one it withdraws.
IssueOrWithdraw ==
  /\ status' \in [Tokens -> Statuses]
  /\ \A t \in Tokens : status'[t] = status[t] \/ Issued(t) \/ Withdrawn(t)
  /\ UNCHANGED uses

Next == IssueOrWithdraw \/ \E t \in Tokens : Use(t)

Spec == Init /\ [][Next]_vars
=============================================================================
