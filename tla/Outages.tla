------------------------------ MODULE Outages ------------------------------
(***************************************************************************)
(* The clients of the origin that live outside it, while its container     *)
(* stops, starts and answers again: the session check of a dashboard tab,  *)
(* the domain list a tab edits before the server has it, the mailbox the   *)
(* pages of a tab share, the consumer of the verification queue and the    *)
(* durable workflows.  They share nothing but the origin, so a behaviour   *)
(* follows one of them; to all but the session check an outage is a        *)
(* request that fails.                                                     *)
(***************************************************************************)
EXTENDS Session, DomainList, MailboxContext, VerificationQueue, OriginWorkflow

CONSTANT Parts   \* the clients that are followed

VARIABLE part

vars == <<part, api, trouble, sessionVars, listVars, contextVars, queueVars, workflowVars>>

\* The container stops when nothing has come in for a while, or is down; a
\* request starts it; it is up after a time.
Stop == api = "up" /\ api' = "down"
Start == api = "down" /\ api' = "waking"
Started == api = "waking" /\ api' = "up"

\* Something else goes wrong, or is put right.
Changes == trouble' \in Troubles \ {trouble}

Origin ==
  /\ part = "session"
  /\ \/ (Stop \/ Start \/ Started) /\ UNCHANGED trouble
     \/ Changes /\ UNCHANGED api
  /\ UNCHANGED <<part, sessionVars, listVars, contextVars, queueVars, workflowVars>>

Init ==
  /\ part \in Parts
  /\ api = "up" /\ trouble = "none"
  /\ IF part = "session" THEN SessionInit ELSE SessionAtRest
  /\ IF part = "context" THEN ContextInit ELSE ContextAtRest
  /\ ListInit /\ QueueInit /\ WorkflowInit

SessionPart ==
  /\ part = "session"
  /\ SessionNext
  /\ UNCHANGED <<part, api, trouble, listVars, contextVars, queueVars, workflowVars>>

ListPart ==
  /\ part = "list"
  /\ ListNext
  /\ UNCHANGED <<part, api, trouble, sessionVars, contextVars, queueVars, workflowVars>>

ContextPart ==
  /\ part = "context"
  /\ ContextNext
  /\ UNCHANGED <<part, api, trouble, sessionVars, listVars, queueVars, workflowVars>>

QueuePart ==
  /\ part = "queue"
  /\ QueueNext
  /\ UNCHANGED <<part, api, trouble, sessionVars, listVars, contextVars, workflowVars>>

WorkflowPart ==
  /\ part = "workflow"
  /\ WorkflowNext
  /\ UNCHANGED <<part, api, trouble, sessionVars, listVars, contextVars, queueVars>>

Next == Origin \/ SessionPart \/ ListPart \/ ContextPart \/ QueuePart \/ WorkflowPart

\* A request under way ends, by an answer or a timeout, and a pause runs out.
Fairness ==
  /\ WF_sessionVars(CheckStep /\ UNCHANGED <<api, trouble>>)
  /\ QueueFairness
  /\ WorkflowFairness

Spec == Init /\ [][Next]_vars /\ Fairness
=============================================================================
