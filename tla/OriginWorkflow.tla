--------------------------- MODULE OriginWorkflow ---------------------------
(***************************************************************************)
(* The durable workflows of cloudflare/workflows.  The expiration          *)
(* workflow, an instance of which a cron trigger creates, has one step: a  *)
(* call that has the origin sweep.  The step gives the call 30 seconds and *)
(* then calls again, while the origin may go on sweeping for the first     *)
(* call; what two sweeps at a time do to the mailboxes is in Mailboxes.    *)
(*                                                                         *)
(* The provisioning workflow is a design (docs/cloudflare/WORKFLOWS.md):   *)
(* the origin has none of the four endpoints its steps call.  So the call  *)
(* of its first step is answered 404, which it does not retry, and its     *)
(* other steps are never reached.                                          *)
(***************************************************************************)
EXTENDS Naturals

CONSTANTS
  Runs,          \* instances of the workflows
  RetryLimit     \* retries.limit of a step

ASSUME RetryLimitAssumption == RetryLimit \in Nat

VARIABLES
  run,       \* the workflow of each instance, the attempts at its step, how it ended
  sweeping   \* the attempts of each instance for which the origin is sweeping

workflowVars == <<run, sweeping>>

Active(r) == run[r].ended = "no"

NotStarted == [workflow |-> "none", attempts |-> 0, waiting |-> FALSE, ended |-> "unstarted"]

WorkflowInit ==
  /\ run = [r \in Runs |-> NotStarted]
  /\ sweeping = [r \in Runs |-> {}]

\* The cron trigger creates an expiration, an operator may create a provisioning.
Create(r) ==
  /\ run[r] = NotStarted
  /\ \E w \in {"expiration", "provisioning"} :
       run' = [run EXCEPT ![r] = [NotStarted EXCEPT !.workflow = w, !.ended = "no"]]
  /\ UNCHANGED sweeping

\* An attempt calls the origin; a call that gets there and asks for a sweep starts one.
CallInternal(r) ==
  /\ Active(r) /\ ~ run[r].waiting
  /\ run' = [run EXCEPT ![r].waiting = TRUE, ![r].attempts = @ + 1]
  /\ \/ UNCHANGED sweeping
     \/ /\ run[r].workflow = "expiration"
        /\ sweeping' = [sweeping EXCEPT ![r] = @ \cup {run[r].attempts + 1}]

\* RunExpirationSweepJob answers 200 when its sweep is over, whatever came of it.
SweepAnswered(r) ==
  /\ Active(r) /\ run[r].waiting /\ run[r].attempts \in sweeping[r]
  /\ sweeping' = [sweeping EXCEPT ![r] = @ \ {run[r].attempts}]
  /\ run' = [run EXCEPT ![r].waiting = FALSE, ![r].ended = "complete"]

\* There is no such endpoint.
ProvisioningRefused(r) ==
  /\ Active(r) /\ run[r].waiting /\ run[r].workflow = "provisioning"
  /\ run' = [run EXCEPT ![r].waiting = FALSE, ![r].ended = "failed"]
  /\ UNCHANGED sweeping

\* (fault) a step is tried again without end.
AttemptFailed_ForEver(r) == run' = [run EXCEPT ![r].waiting = FALSE, ![r].attempts = 0]

\* The attempt failed: the step is tried again, or the workflow fails.
AttemptFailed(r) ==
  run' = [run EXCEPT ![r].waiting = FALSE,
                     ![r].ended = IF run[r].attempts > RetryLimit THEN "failed" ELSE @]

\* No answer in time, or the answer of an origin that is down: a sweep goes on, or
\* ends with the request it was for.
NoAnswerInTime(r) ==
  /\ Active(r) /\ run[r].waiting
  /\ sweeping' \in {sweeping, [sweeping EXCEPT ![r] = @ \ {run[r].attempts}]}
  /\ AttemptFailed(r)

\* A sweep ends for which nobody waits any more.
LateSweepEnds(r) ==
  /\ \E k \in sweeping[r] :
       /\ ~ (run[r].waiting /\ k = run[r].attempts)
       /\ sweeping' = [sweeping EXCEPT ![r] = @ \ {k}]
  /\ UNCHANGED run

RunStep(r) == CallInternal(r) \/ SweepAnswered(r) \/ ProvisioningRefused(r) \/ NoAnswerInTime(r)

WorkflowNext == \E r \in Runs : Create(r) \/ RunStep(r) \/ LateSweepEnds(r)

\* The platform keeps running an instance, and an attempt times out.
WorkflowFairness == \A r \in Runs : WF_workflowVars(RunStep(r))

-----------------------------------------------------------------------------
\* Every instance ends: a step that cannot be done fails it after its retries, and
\* an origin that never answers does not keep it.
WorkflowEnds == \A r \in Runs : Active(r) ~> ~ Active(r)
=============================================================================
