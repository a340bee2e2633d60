-------------------------- MODULE VerificationQueue --------------------------
(***************************************************************************)
(* The consumer of the domain verification queue                           *)
(* (cloudflare/queues/domain-verification).  A message asks whether a      *)
(* domain's TXT record is there; the consumer looks, or remembers the      *)
(* outcome of an earlier look in the same isolate, tells the origin, and   *)
(* acknowledges the message or has it delivered again, up to max_retries   *)
(* times, before it goes to the dead-letter queue.                         *)
(*                                                                         *)
(* Nothing sends messages yet (docs/cloudflare/QUEUES.md): what a sender   *)
(* may do is modelled from the type of a message.  The messages are those  *)
(* of one domain, which may be deleted meanwhile; they carry one           *)
(* idempotency key.                                                        *)
(* Delivery is at least once: a message can be delivered while an earlier  *)
(* delivery of it is being handled.                                        *)
(***************************************************************************)
EXTENDS Naturals, FiniteSets

CONSTANTS
  Messages,
  Isolates,        \* instances of the consumer, each with its memory
  MaxRetries,      \* max_retries of the queue
  MaxDeliveries    \* bound: deliveries that are handled together

ASSUME QueueAssumption == MaxRetries \in Nat /\ MaxDeliveries \in Nat \ {0}

VARIABLES
  record,     \* the TXT record is published
  there,      \* the domain has a row
  verified,   \* the row is marked verified
  seen,       \* memory of each isolate: "nothing", "found" or "missing"
  message,    \* where each message is, and how often it was delivered
  delivery    \* the handling of each delivery of a message

queueVars == <<record, there, verified, seen, message, delivery>>

\* early: the record was there when the message was sent.  failed: history, a
\* lookup of its own or another part of an attempt failed.
Unsent == [at |-> "producer", attempts |-> 0, early |-> FALSE, failed |-> FALSE]

NoDelivery == [stage |-> "none", in |-> "none"]
Attempts == 1..MaxRetries + 1

Handled == {ma \in Messages \X Attempts : delivery[ma] # NoDelivery}

QueueInit ==
  /\ record = FALSE
  /\ there = TRUE
  /\ verified = FALSE
  /\ seen = [i \in Isolates |-> "nothing"]
  /\ message = [m \in Messages |-> Unsent]
  /\ delivery = [ma \in Messages \X Attempts |-> NoDelivery]

Enqueue(m) ==
  /\ message[m].at = "producer"
  /\ message' = [message EXCEPT ![m].at = "queue", ![m].early = record]
  /\ UNCHANGED <<record, there, verified, seen, delivery>>

Publish ==
  /\ ~ record
  /\ record' = TRUE
  /\ UNCHANGED <<there, verified, seen, message, delivery>>

\* The domain is deleted, its row and what is marked there.
DeleteDomain ==
  /\ there
  /\ there' = FALSE
  /\ verified' = FALSE
  /\ UNCHANGED <<record, seen, message, delivery>>

\* To an isolate, which knows the answer or starts looking.
Deliver(m, i) ==
  /\ message[m].at = "queue"
  /\ message[m].attempts <= MaxRetries
  /\ Cardinality(Handled) < MaxDeliveries
  /\ message' = [message EXCEPT ![m].attempts = @ + 1]
  /\ delivery' = [delivery EXCEPT ![<<m, message[m].attempts + 1>>] =
       [in |-> i, stage |-> IF seen[i] = "nothing" THEN "looking" ELSE seen[i]]]
  /\ UNCHANGED <<record, there, verified, seen>>

\* The lookup ends; a lookup that failed is remembered as a missing record.
Look(m, a) ==
  /\ delivery[<<m, a>>].stage = "looking"
  /\ \E outcome \in {"missing"} \cup (IF record THEN {"found"} ELSE {}) :
       /\ delivery' = [delivery EXCEPT ![<<m, a>>].stage = outcome]
       /\ seen' = [seen EXCEPT ![delivery[<<m, a>>].in] = outcome]
       /\ message' = [message EXCEPT ![m].failed = @ \/ outcome = "missing"]
  /\ UNCHANGED <<record, there, verified>>

\* The delivery ends: the message is acknowledged, or kept for another attempt,
\* or dead.  A message that has left the queue stays where it went.
Settle(m, a, to, failed) ==
  /\ delivery' = [delivery EXCEPT ![<<m, a>>] = NoDelivery]
  /\ message' = IF message[m].at = "queue"
                  THEN [message EXCEPT ![m].at = to, ![m].failed = @ \/ failed]
                  ELSE message

Again(m, a, failed) == Settle(m, a, IF a > MaxRetries THEN "dead" ELSE "queue", failed)

\* (fault) the consumer keeps the message and looks again until the record is there.
NotYet_LooksAgain(m, a) ==
  /\ delivery[<<m, a>>].stage = "missing"
  /\ delivery' = [delivery EXCEPT ![<<m, a>>].stage = "looking"]
  /\ UNCHANGED <<record, there, verified, seen, message>>

NotYet(m, a) ==
  /\ delivery[<<m, a>>].stage = "missing"
  /\ Again(m, a, FALSE)
  /\ UNCHANGED <<record, there, verified, seen>>

\* (fault) the message is acknowledged whatever the origin answers.
Persist_AckAnyway(m, a) ==
  /\ delivery[<<m, a>>].stage = "found"
  /\ verified' \in {verified, there}
  /\ Settle(m, a, "acked", FALSE)
  /\ UNCHANGED <<record, there, seen>>

\* The origin marks the domain verified, if there still is one, and answers alike
\* whether or not there was; or the answer does not arrive, whether or not the origin
\* has done it.
Persist(m, a) ==
  /\ delivery[<<m, a>>].stage = "found"
  /\ \/ verified' = there /\ Settle(m, a, "acked", FALSE)
     \/ verified' \in {verified, there} /\ Again(m, a, TRUE)
  /\ UNCHANGED <<record, there, seen>>

\* An idle isolate is recycled and its memory is gone, or its memory is given up
\* to other keys.
Recycle(i) ==
  /\ seen[i] # "nothing"
  /\ \A ma \in Handled : delivery[ma].in # i
  /\ seen' = [seen EXCEPT ![i] = "nothing"]
  /\ UNCHANGED <<record, there, verified, message, delivery>>

\* The handling of a delivery is cut off.
Crash(m, a) ==
  /\ delivery[<<m, a>>] # NoDelivery
  /\ Again(m, a, TRUE)
  /\ UNCHANGED <<record, there, verified, seen>>

QueueStep(m, a) == Look(m, a) \/ NotYet(m, a) \/ Persist(m, a)

QueueNext ==
  \/ Publish
  \/ DeleteDomain
  \/ \E m \in Messages : Enqueue(m)
  \/ \E m \in Messages, i \in Isolates : Deliver(m, i)
  \/ \E m \in Messages, a \in Attempts : QueueStep(m, a) \/ Crash(m, a)
  \/ \E i \in Isolates : Recycle(i)

\* The queue delivers, and what a delivery awaits ends.
QueueFairness ==
  /\ \A m \in Messages : WF_queueVars(\E i \in Isolates : Deliver(m, i))
  /\ \A m \in Messages, a \in Attempts : WF_queueVars(QueueStep(m, a))

-----------------------------------------------------------------------------
\* A message is given up as done only when the origin has the domain verified, or
\* has no such domain any more, across deliveries of one message in two isolates,
\* lost answers and crashes.
AckedIsVerified == \A m \in Messages : message[m].at = "acked" /\ there => verified

\* Every message that was sent ends, acknowledged or dead; none is forgotten
\* and none is delivered for ever.
MessagesEnd ==
  \A m \in Messages :
    message[m].at = "queue" ~> message[m].at \in {"acked", "dead"}

\* docs/cloudflare/QUEUES.md: a dead message means that "DNS still didn't verify
\* after roughly 15+ minutes of retries".  So a message that was sent when the
\* record was there already is dead only after an attempt of its own failed.
DeadMeansUnverified ==
  \A m \in Messages :
    message[m].at = "dead" /\ message[m].early => message[m].failed

-----------------------------------------------------------------------------
(* The inductive invariant behind AckedIsVerified. *)

MessageType == [at : {"producer", "queue", "acked", "dead"}, attempts : Nat,
                early : BOOLEAN, failed : BOOLEAN]

DeliveryType == [stage : {"none", "looking", "missing", "found"}, in : Isolates \cup {"none"}]

\* What was found was there: in a delivery, in an isolate's memory, at the origin.
FoundIsPublished ==
  (\/ \E ma \in Messages \X Attempts : delivery[ma].stage = "found"
   \/ \E i \in Isolates : seen[i] = "found"
   \/ verified) => record

QueueInv ==
  /\ record \in BOOLEAN /\ there \in BOOLEAN /\ verified \in BOOLEAN
  /\ verified => there
  /\ seen \in [Isolates -> {"nothing", "missing", "found"}]
  /\ message \in [Messages -> MessageType]
  /\ delivery \in [Messages \X Attempts -> DeliveryType]
  /\ FoundIsPublished
  /\ AckedIsVerified

\* The origin has a domain verified only when its record was published, whatever
\* an isolate remembers of it.
VerifiedIsPublished == verified => record
=============================================================================
