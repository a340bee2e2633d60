------------------------------ MODULE Billing ------------------------------
(***************************************************************************)
(* What an organization pays for, in the two systems that keep it: the     *)
(* billing columns of its paying customer's row, and the subscriptions at  *)
(* Stripe, which reports on them with events                               *)
(* (backend/internal/handlers/billing.go, admin_billing.go and             *)
(* backend/internal/db/billing.go).                                        *)
(*                                                                         *)
(* A request is a sequence of statements and calls, each a step; what the  *)
(* webhook does with an event is one UPDATE.  Prices are plans: a plan's   *)
(* two intervals are not told apart.  Stripe is modelled from what the     *)
(* code asks of it and from the events it takes.                           *)
(***************************************************************************)
EXTENDS Naturals, FiniteSets

CONSTANTS
  Customers,  \* customers rows
  Plans,      \* plan tiers Stripe sells
  Free,       \* the plan of those who pay nothing
  Payers,     \* identifiers of Stripe customers
  Subs,       \* identifiers of Stripe subscriptions
  Requests,   \* requests in flight at the same time
  Given,      \* plans operators assign in this instance
  Ops,        \* what clients and operators ask for in this instance
  Faults,     \* what goes wrong in this instance
  MaxEvents,  \* (bound) events Stripe sends
  MaxSessions, \* (bound) checkout sessions open at the same time
  None        \* no Stripe customer, no subscription

ASSUME BoundsAssumption == MaxEvents \in Nat /\ MaxSessions \in Nat
ASSUME OpsAssumption == Ops \subseteq {"checkout", "admin"}
ASSUME FaultsAssumption ==
  Faults \subseteq {"record", "lookup", "answer", "reorder", "duplicate"}
ASSUME GivenAssumption == Given \subseteq Plans \cup {Free}
ASSUME NoneAssumption == None \notin Customers \cup Payers \cup Subs /\ Free \notin Plans

VARIABLES
  row,       \* customers: plan, Stripe customer, subscription and its status
  payer,     \* Stripe customers: the customer each was made for
  forgotten, \* Stripe customers this key does not know
  sub,       \* Stripe subscriptions
  session,   \* checkout sessions not paid yet
  events,    \* events on their way to the webhook
  clock,     \* how many events Stripe has sent
  pc,        \* where each request is
  job,       \* what it is doing
  seen,      \* history: the latest event that reached the webhook
  bought,    \* history: plans each customer's subscriptions have had
  given,     \* history: plans operators assigned to each customer
  blurred    \* history: customers of whom statements and events were mixed up

vars == <<row, payer, forgotten, sub, session, events, clock, pc, job, seen, bought, given, blurred>>
stripe == <<payer, forgotten, sub, session, events, clock>>

-----------------------------------------------------------------------------
Statuses == {"active", "past_due"}
RowType == [plan : Plans \cup {Free}, payer : Payers \cup {None}, sub : Subs \cup {None},
            status : Statuses \cup {"none"}]
SubType == [status : Statuses \cup {"absent", "ended"}, payer : Payers \cup {None},
            owner : Customers \cup {None}, plan : Plans \cup {Free}]
EventType == [type : {"completed", "updated", "deleted"}, payer : Payers, sub : Subs,
              owner : Customers, plan : Plans, status : Statuses, at : 1..MaxEvents]
JobType == [customer : Customers \cup {None},
            plan : Plans \cup {Free}, payer : Payers \cup {None}, sub : Subs \cup {None},
            again : BOOLEAN, at : 0..MaxEvents]

JobFor(c, k, s) == [customer |-> c, plan |-> Free, payer |-> k, sub |-> s,
                    again |-> FALSE, at |-> 0]
NoJob == JobFor(None, None, None)
NoRow == [plan |-> Free, payer |-> None, sub |-> None, status |-> "none"]
NoSub == [status |-> "absent", payer |-> None, owner |-> None, plan |-> Free]

Alive(s) == s \in Subs /\ sub[s].status \in Statuses
SubsOf(c) == {s \in Subs : Alive(s) /\ sub[s].owner = c}

\* Customers with a Stripe customer, k, and those with a subscription, s.  A
\* Stripe customer made with another key is unknown to this one.
Before(asked, paying, k, s, plan) ==
  /\ \A c, d \in asked : c # d => k[c] # k[d]
  /\ \A c, d \in paying : c # d => s[c] # s[d]
  /\ row = [c \in Customers |->
              IF c \in paying
                THEN [plan |-> plan[c], payer |-> k[c], sub |-> s[c], status |-> "active"]
                ELSE IF c \in asked THEN [NoRow EXCEPT !.payer = k[c]] ELSE NoRow]
  /\ payer = [x \in Payers |-> IF \E c \in asked : k[c] = x
                               THEN CHOOSE c \in asked : k[c] = x ELSE None]
  /\ sub = [x \in Subs |->
              IF \E c \in paying : s[c] = x
                THEN LET c == CHOOSE c \in paying : s[c] = x
                     IN  [status |-> "active", payer |-> k[c], owner |-> c, plan |-> plan[c]]
                ELSE NoSub]
  /\ bought = [c \in Customers |-> IF c \in paying THEN {plan[c]} ELSE {}]
  /\ forgotten \in SUBSET {k[c] : c \in asked \ paying}

Init ==
  /\ \E asked \in SUBSET Customers : \E paying \in SUBSET asked :
       \E k \in [asked -> Payers], s \in [paying -> Subs], plan \in [paying -> Plans] :
         Before(asked, paying, k, s, plan)
  /\ session = {} /\ events = {} /\ clock = 0
  /\ pc = [p \in Requests |-> "idle"]
  /\ job = [p \in Requests |-> NoJob]
  /\ seen = [c \in Customers |-> 0]
  /\ given = [c \in Customers |-> {}]
  /\ blurred = {}

-----------------------------------------------------------------------------
Goto(p, l) == pc' = [pc EXCEPT ![p] = l]

Start(p, op, l, j) ==
  /\ pc[p] = "idle" /\ op \in Ops
  /\ pc' = [pc EXCEPT ![p] = l]
  /\ job' = [job EXCEPT ![p] = j]

Stop(p) ==
  /\ pc' = [pc EXCEPT ![p] = "idle"]
  /\ job' = [job EXCEPT ![p] = NoJob]

Blur(c, condition) == blurred' = IF condition THEN blurred \cup {c} ELSE blurred

\* Stripe reports that subscription s has become t.
Send(type, s, t) ==
  /\ clock < MaxEvents
  /\ clock' = clock + 1
  /\ events' = events \cup {[type |-> type, payer |-> t.payer, sub |-> s, owner |-> t.owner,
                             plan |-> t.plan, status |-> t.status, at |-> clock + 1]}

-----------------------------------------------------------------------------
(* Checkout.                                                               *)

\* CreateCheckoutSession, getOrCreateStripeCustomer: the row is read.
BeginCheckout(p, c) ==
  /\ Start(p, "checkout", IF row[c].payer = None THEN "customer" ELSE "session",
           JobFor(c, row[c].payer, None))
  /\ UNCHANGED <<row, stripe, seen, bought, given, blurred>>

\* createStripeCustomer: the call.
CreateStripeCustomer(p) ==
  /\ pc[p] = "customer"
  /\ \E k \in Payers :
       /\ payer[k] = None
       /\ payer' = [payer EXCEPT ![k] = job[p].customer]
       /\ job' = [job EXCEPT ![p].payer = k]
  /\ Goto(p, "save")
  /\ UNCHANGED <<row, forgotten, sub, session, events, clock, seen, bought, given, blurred>>

\* createStripeCustomer: the row takes it, whatever it held.
SaveStripeCustomer(p) ==
  LET c == job[p].customer
  IN  /\ pc[p] = "save"
      /\ row' = [row EXCEPT ![c].payer = job[p].payer]
      /\ Goto(p, "session")
      /\ Blur(c, row[c].sub # None)
      /\ UNCHANGED <<stripe, job, seen, bought, given>>

\* (fault) the session is marked with another customer of the organization.
OpenSession_MarksAnother(p) ==
  /\ pc[p] = "session" /\ job[p].payer \notin forgotten
  /\ Cardinality(session) < MaxSessions
  /\ \E c \in Customers, plan \in Plans :
       session' = session \cup {[payer |-> job[p].payer, owner |-> c, plan |-> plan]}
  /\ Stop(p)
  /\ UNCHANGED <<row, payer, forgotten, sub, events, clock, seen, bought, given, blurred>>

\* The session is marked with the customer who pays and the plan asked for.
OpenSession(p) ==
  /\ pc[p] = "session" /\ job[p].payer \notin forgotten
  /\ Cardinality(session) < MaxSessions
  /\ \E plan \in Plans :
       session' = session \cup {[payer |-> job[p].payer, owner |-> job[p].customer,
                                 plan |-> plan]}
  /\ Stop(p)
  /\ UNCHANGED <<row, payer, forgotten, sub, events, clock, seen, bought, given, blurred>>

\* Stripe does not know the customer: another is made, once.
Unknown(p) ==
  /\ pc[p] = "session" /\ job[p].payer \in forgotten
  /\ IF job[p].again
       THEN Stop(p)
       ELSE Goto(p, "customer") /\ job' = [job EXCEPT ![p].again = TRUE]
  /\ UNCHANGED <<row, stripe, seen, bought, given, blurred>>

-----------------------------------------------------------------------------
(* Operators.                                                              *)

\* AdminUpdateSubscription: the row is read.
BeginAdmin(p, c) ==
  /\ Start(p, "admin", IF row[c].sub = None THEN "assign" ELSE "change",
           JobFor(c, row[c].payer, row[c].sub))
  /\ UNCHANGED <<row, stripe, seen, bought, given, blurred>>

\* SetCustomerPlanTier: the plan alone.
Assign(p) ==
  LET c == job[p].customer
  IN  /\ pc[p] = "assign"
      /\ \E plan \in Given :
           /\ row' = [row EXCEPT ![c].plan = plan]
           /\ given' = [given EXCEPT ![c] = @ \cup ({plan} \ {Free})]
      /\ Blur(c, row[c].sub # None)
      /\ Stop(p)
      /\ UNCHANGED <<stripe, seen, bought>>

\* Subscription s at Stripe gets this plan and status.
Alter(s, plan, status) ==
  /\ Alive(s)
  /\ sub' = [sub EXCEPT ![s].plan = plan, ![s].status = status]
  /\ Send("updated", s, [sub[s] EXCEPT !.plan = plan, !.status = status])
  /\ bought' = [bought EXCEPT ![sub[s].owner] = @ \cup {plan}]

GoOn(p, plan) ==
  /\ Goto(p, "write")
  /\ job' = [job EXCEPT ![p].plan = plan, ![p].at = clock']

\* (fault) a refusal is taken for an answer.
ChangeAtStripe_IgnoresRefusal(p) ==
  /\ pc[p] = "change"
  /\ \E plan \in Plans :
       /\ IF Alive(job[p].sub)
            THEN Alter(job[p].sub, plan, sub[job[p].sub].status)
            ELSE UNCHANGED <<sub, events, clock, bought>>
       /\ GoOn(p, plan)
  /\ UNCHANGED <<row, payer, forgotten, session, seen, given, blurred>>

\* subscription.Update: one that has ended is refused; an answer may be lost.
ChangeAtStripe(p) ==
  /\ pc[p] = "change"
  /\ \/ /\ ~Alive(job[p].sub) /\ Stop(p)
        /\ UNCHANGED <<sub, events, clock, bought>>
     \/ \E plan \in Plans :
          /\ Alter(job[p].sub, plan, sub[job[p].sub].status)
          /\ GoOn(p, plan) \/ ("answer" \in Faults /\ Stop(p))
  /\ UNCHANGED <<row, payer, forgotten, session, seen, given, blurred>>

\* UpdateCustomerSubscriptionByCustomerID with what was read at the start.
WriteBack(p) ==
  LET c == job[p].customer
      new == [plan |-> job[p].plan, payer |-> job[p].payer, sub |-> job[p].sub,
              status |-> "active"]
  IN  /\ pc[p] = "write"
      /\ row' = [row EXCEPT ![c] = new]
      /\ Blur(c, seen[c] >= job[p].at /\ row[c] # new)
      /\ Stop(p)
      /\ UNCHANGED <<stripe, seen, bought, given>>

\* A statement or a call fails without effect, or the request ends before it.
StepFails(p) ==
  /\ pc[p] # "idle" /\ "record" \in Faults
  /\ Stop(p)
  /\ UNCHANGED <<row, stripe, seen, bought, given, blurred>>

-----------------------------------------------------------------------------
(* Stripe.                                                                 *)

\* Somebody pays for an open session.
Pay(x, s) ==
  /\ x \in session /\ sub[s].status = "absent"
  /\ session' = session \ {x}
  /\ LET new == [status |-> "active", payer |-> x.payer, owner |-> x.owner, plan |-> x.plan]
     IN  sub' = [sub EXCEPT ![s] = new] /\ Send("completed", s, new)
  /\ bought' = [bought EXCEPT ![x.owner] = @ \cup {x.plan}]
  /\ Blur(x.owner, SubsOf(x.owner) # {})
  /\ UNCHANGED <<row, payer, forgotten, pc, job, seen, given>>

\* The billing portal changes the plan; payments fail, and succeed again; an
\* operator sets it to end with its period, or takes that back.
Change(s, plan, status) ==
  /\ Alter(s, plan, status)
  /\ UNCHANGED <<row, payer, forgotten, session, pc, job, seen, given, blurred>>

\* Cancelled in the portal, at the end of its period, or unpaid for too long.
End(s) ==
  /\ Alive(s)
  /\ sub' = [sub EXCEPT ![s].status = "ended"]
  /\ Send("deleted", s, sub[s])
  /\ UNCHANGED <<row, payer, forgotten, session, pc, job, seen, bought, given, blurred>>

-----------------------------------------------------------------------------
(* The webhook.                                                            *)

\* What each event makes of the rows it names: the one its session was marked
\* with, or those of its Stripe customer.  A price no plan has, or a look-up of
\* the plan that fails, leaves the plan.
Completed(e) ==
  [c \in Customers |->
     IF c = e.owner
       THEN [plan |-> e.plan, payer |-> e.payer, sub |-> e.sub, status |-> "active"]
       ELSE row[c]]

Updated(e, known) ==
  [c \in Customers |->
     IF row[c].payer = e.payer
       THEN [row[c] EXCEPT !.plan = IF known THEN e.plan ELSE @, !.sub = e.sub,
                           !.status = e.status]
       ELSE row[c]]

\* (fault) the plan is left as it is.
Deleted_KeepsPlan(e) ==
  [c \in Customers |->
     IF row[c].payer = e.payer
       THEN [row[c] EXCEPT !.sub = None, !.status = "none"] ELSE row[c]]

Deleted(e) ==
  [c \in Customers |->
     IF row[c].payer = e.payer
       THEN [row[c] EXCEPT !.plan = Free, !.sub = None, !.status = "none"] ELSE row[c]]

\* Stripe sends in order, unless "reorder"; an event may come again.
Due(e) == "reorder" \in Faults \/ \A f \in events : f.at >= e.at

\* StripeWebhook answers that it received the event, also when its statement
\* failed: it does not come again.
Deliver(e, again, known, done) ==
  /\ e \in events /\ Due(e)
  /\ again => "duplicate" \in Faults
  /\ known \/ ("lookup" \in Faults /\ e.type = "updated" /\ done)
  /\ done \/ "record" \in Faults
  /\ row' = IF ~done THEN row
            ELSE CASE e.type = "completed" -> Completed(e)
                   [] e.type = "updated" -> Updated(e, known)
                   [] e.type = "deleted" -> Deleted(e)
  /\ events' = IF again THEN events ELSE events \ {e}
  /\ seen' = [seen EXCEPT ![e.owner] = IF @ < e.at THEN e.at ELSE @]
  /\ Blur(e.owner, ~done \/ ~known \/ e.at < seen[e.owner])
  /\ UNCHANGED <<payer, forgotten, sub, session, clock, pc, job, bought, given>>

Webhook == \E e \in events, again, known, done \in BOOLEAN : Deliver(e, again, known, done)

-----------------------------------------------------------------------------
Begin(p) ==
  \E c \in Customers : BeginCheckout(p, c) \/ BeginAdmin(p, c)

Step(p) ==
  \/ CreateStripeCustomer(p) \/ SaveStripeCustomer(p) \/ OpenSession(p) \/ Unknown(p)
  \/ Assign(p) \/ ChangeAtStripe(p) \/ WriteBack(p) \/ StepFails(p)

Stripe ==
  \/ \E x \in session, s \in Subs : Pay(x, s)
  \/ \E s \in Subs : End(s) \/ \E plan \in Plans, status \in Statuses : Change(s, plan, status)

Next ==
  \/ \E p \in Requests : Begin(p) \/ Step(p)
  \/ Stripe
  \/ Webhook

Spec == Init /\ [][Next]_vars

-----------------------------------------------------------------------------
TypeOK ==
  /\ row \in [Customers -> RowType]
  /\ payer \in [Payers -> Customers \cup {None}] /\ forgotten \subseteq Payers
  /\ sub \in [Subs -> SubType]
  /\ session \subseteq [payer : Payers, owner : Customers, plan : Plans]
  /\ events \subseteq EventType /\ clock \in 0..MaxEvents
  /\ pc \in [Requests -> {"idle", "customer", "save", "session", "assign", "change", "write"}]
  /\ job \in [Requests -> JobType]
  /\ seen \in [Customers -> 0..MaxEvents]
  /\ bought \in [Customers -> SUBSET Plans] /\ given \in [Customers -> SUBSET Plans]
  /\ blurred \subseteq Customers

(* A customer's row refers to what Stripe made for that customer: whoever  *)
(* pays, pays for his own organization, however requests and events mix.   *)
(* (The webhook goes by the session's mark for the first event and by the  *)
(* Stripe customer for the others, and an operator's change writes back    *)
(* the identifiers it read.)                                               *)
OwnSubscription ==
  \A c \in Customers :
    /\ row[c].payer # None => payer[row[c].payer] = c
    /\ row[c].sub # None => sub[row[c].sub].owner = c

(* Nobody is on a plan that was not bought by, or given to, him: an event, *)
(* or a plan change Stripe refuses, moves no one to another's plan.        *)
PlanExplained == \A c \in Customers : row[c].plan \in bought[c] \cup given[c] \cup {Free}

\* The row says what Stripe would say of the customer.
Follows(c) ==
  IF SubsOf(c) = {} THEN row[c].sub = None /\ row[c].plan \in given[c] \cup {Free}
  ELSE \A s \in SubsOf(c) :
         row[c] = [plan |-> sub[s].plan, payer |-> sub[s].payer, sub |-> s,
                   status |-> sub[s].status]

\* Nothing about customer c is under way.
Settled(c) ==
  /\ \A e \in events : e.owner # c
  /\ \A p \in Requests : job[p].customer # c

(* Once its events are dealt with and no request is running, what keeps a  *)
(* row from following Stripe is one of these and nothing else: an event    *)
(* that was lost, that came after a later one or whose plan was not found; *)
(* a second subscription; another Stripe customer saved, or a plan         *)
(* assigned, over a subscription; an operator's change written over what   *)
(* an event had recorded.                                                  *)
DriftExplained == \A c \in Customers : Settled(c) => c \in blurred \/ Follows(c)

(* A subscription that has ended is not left on record once its events     *)
(* are dealt with and no request is running (false of the code).           *)
NotLeftPointing ==
  \A c \in Customers : Settled(c) /\ row[c].sub # None => Alive(row[c].sub)

-----------------------------------------------------------------------------
(* What makes OwnSubscription and PlanExplained inductive: everything that *)
(* may be written into a row belongs to the customer it will be written    *)
(* for.                                                                    *)
SubsSound ==
  \A s \in Subs :
    IF sub[s].status = "absent"
      THEN sub[s].owner = None
      ELSE /\ sub[s].owner \in Customers /\ sub[s].payer \in Payers
           /\ payer[sub[s].payer] = sub[s].owner
           /\ sub[s].plan \in bought[sub[s].owner]

SessionsSound == \A x \in session : payer[x.payer] = x.owner

EventsSound ==
  \A e \in events :
    /\ payer[e.payer] = e.owner
    /\ sub[e.sub].owner = e.owner
    /\ e.plan \in bought[e.owner]

JobsSound ==
  \A p \in Requests :
    /\ IF pc[p] = "idle" THEN job[p] = NoJob ELSE job[p].customer \in Customers
    /\ pc[p] \in {"save", "session"} => job[p].payer \in Payers
    /\ job[p].payer # None => payer[job[p].payer] = job[p].customer
    /\ job[p].sub # None => sub[job[p].sub].owner = job[p].customer
    /\ pc[p] = "write" => job[p].plan \in bought[job[p].customer]

\* The inductive invariant.
IndInv ==
  /\ TypeOK /\ OwnSubscription /\ PlanExplained
  /\ SubsSound /\ SessionsSound /\ EventsSound /\ JobsSound

-----------------------------------------------------------------------------
(* The inductive invariant behind DriftExplained, beside IndInv.  It        *)
(* follows the events about a customer who is not blurred from the moment   *)
(* they are sent until they are delivered.                                  *)
Pending(c) == {e \in events : e.owner = c}
Ahead(c) == {e \in Pending(c) : e.at > seen[c]}

\* No event of c will come after a later one, unless it is to be blurred.
InOrder(c) == c \notin blurred /\ \A e \in Pending(c) : e.at >= seen[c]

Points(c, e) == row[c].sub = e.sub /\ row[c].payer = e.payer

\* The payments that are to be recorded before event e.
Starts(e) == {f \in Ahead(e.owner) : f.type = "completed" /\ f.at < e.at}

\* By the time e comes, in order, the row will be found by e's Stripe customer.
Led(e) ==
  \/ Starts(e) = {} /\ Points(e.owner, e)
  \/ \E f \in Starts(e) : f.sub = e.sub /\ \A g \in Starts(e) : g.at <= f.at

\* What e reports is how it still is.
Matches(e) ==
  IF e.type = "deleted" THEN SubsOf(e.owner) = {}
  ELSE /\ SubsOf(e.owner) = {e.sub}
       /\ sub[e.sub].plan = e.plan /\ sub[e.sub].status = e.status

TimesSound ==
  /\ \A e \in events : e.at <= clock /\ \A f \in events : e.at = f.at => e = f
  /\ \A c \in Customers : seen[c] <= clock
  /\ \A p \in Requests : job[p].at <= clock

ReportsSound ==
  \A e \in events :
    /\ e.payer = sub[e.sub].payer
    /\ e.type = "completed" =>
         e.status = "active" /\ \A f \in events : f.type = "completed" /\ f.sub = e.sub => f = e
    /\ e.type = "deleted" =>
         sub[e.sub].status = "ended" /\ \A f \in events : f.sub = e.sub => f.at <= e.at

\* What an operator's change is about to write is on its way as an event, too,
\* or has come.
WritesReported ==
  \A p \in Requests :
    /\ pc[p] \in {"customer", "save", "session", "assign"} => job[p].sub = None
    /\ pc[p] = "write" /\ job[p].at > seen[job[p].customer] =>
         \E e \in Ahead(job[p].customer) :
           e.at = job[p].at /\ e.type = "updated" /\ e.sub = job[p].sub

\* A row, and a request, have a subscription together with its Stripe customer,
\* and only once its payment is recorded.
Paired(c) ==
  /\ row[c].sub # None => row[c].payer = sub[row[c].sub].payer
  /\ \A p \in Requests : job[p].customer = c /\ job[p].sub # None =>
       job[p].payer = sub[job[p].sub].payer
  /\ \A f \in Ahead(c) : f.type = "completed" =>
       row[c].sub # f.sub /\ \A p \in Requests : job[p].sub # f.sub

\* An event that came and comes again changes nothing but the plan.
Repeats(c) ==
  \A e \in Pending(c) : e.at = seen[c] =>
    IF e.type = "deleted" THEN row[c].sub = None ELSE Points(c, e)

\* The row follows Stripe, or will with the last event on its way.
WillFollow(c) ==
  \/ Ahead(c) = {} /\ Follows(c) /\ \A e \in Pending(c) : Matches(e)
  \/ \E e \in Ahead(c) : Matches(e) /\ \A f \in Pending(c) : f.at <= e.at

OnCourse(c) ==
  /\ \A s, t \in SubsOf(c) : s = t
  /\ Paired(c) /\ Repeats(c) /\ WillFollow(c)
  /\ \A e \in Ahead(c) : e.type # "completed" => Led(e)

DriftInv ==
  /\ TimesSound /\ ReportsSound /\ WritesReported
  /\ \A c \in Customers : InOrder(c) => OnCourse(c)
=============================================================================
