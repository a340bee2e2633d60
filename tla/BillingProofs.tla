---------------------------- MODULE BillingProofs ----------------------------
(***************************************************************************)
(* A row refers to its own customer's subscription and shows a plan bought *)
(* by or given to that customer, for any numbers of customers,             *)
(* subscriptions and requests, and whatever is lost, repeated or late; and *)
(* what keeps a row from following Stripe is what DriftExplained lists.    *)
(***************************************************************************)
EXTENDS Billing, TLAPS

LEMMA InitIndInv == Init => IndInv
<1> SUFFICES ASSUME Init PROVE IndInv
  OBVIOUS
<1>0. PICK asked \in SUBSET Customers, paying \in SUBSET Customers :
        /\ paying \subseteq asked
        /\ \E k \in [asked -> Payers], s \in [paying -> Subs], plan \in [paying -> Plans] :
             Before(asked, paying, k, s, plan)
  BY DEF Init
<1>1. PICK k \in [asked -> Payers], s \in [paying -> Subs], plan \in [paying -> Plans] :
        Before(asked, paying, k, s, plan)
  BY <1>0
<1>2. \A c \in asked : payer[k[c]] = c
  <2> TAKE c \in asked
  <2>1. (CHOOSE d \in asked : k[d] = k[c]) \in asked
        /\ k[CHOOSE d \in asked : k[d] = k[c]] = k[c]
    OBVIOUS
  <2>2. (CHOOSE d \in asked : k[d] = k[c]) = c
    BY <1>0, <1>1, <2>1 DEF Before
  <2> QED
    BY <1>0, <1>1, <2>2 DEF Before
<1>3. \A c \in paying : sub[s[c]] = [status |-> "active", payer |-> k[c], owner |-> c,
                                     plan |-> plan[c]]
  <2> TAKE c \in paying
  <2>1. (CHOOSE d \in paying : s[d] = s[c]) \in paying
        /\ s[CHOOSE d \in paying : s[d] = s[c]] = s[c]
    OBVIOUS
  <2>2. (CHOOSE d \in paying : s[d] = s[c]) = c
    BY <1>0, <1>1, <2>1 DEF Before
  <2> QED
    BY <1>0, <1>1, <2>2 DEF Before
<1>4. \A x \in Subs : (\E c \in paying : s[c] = x) \/ sub[x] = NoSub
  BY <1>0, <1>1 DEF Before
<1>5. payer \in [Payers -> Customers \cup {None}]
  <2>1. \A x \in Payers : payer[x] \in Customers \cup {None}
    <3> TAKE x \in Payers
    <3>1. CASE \E c \in asked : k[c] = x
      BY <1>2, <3>1
    <3>2. CASE ~\E c \in asked : k[c] = x
      BY <1>0, <1>1, <3>2 DEF Before
    <3> QED
      BY <3>1, <3>2
  <2> QED
    BY <1>0, <1>1, <2>1 DEF Before
<1>6. row \in [Customers -> RowType]
  <2>1. \A c \in Customers : row[c] \in RowType
    <3> TAKE c \in Customers
    <3>1. CASE c \in paying
      <4>1. row[c] = [plan |-> plan[c], payer |-> k[c], sub |-> s[c], status |-> "active"]
        BY <1>1, <3>1 DEF Before
      <4>2. plan[c] \in Plans /\ k[c] \in Payers /\ s[c] \in Subs
        BY <1>0, <3>1
      <4> QED
        BY <4>1, <4>2 DEF RowType, Statuses
    <3>2. CASE c \in asked \ paying
      <4>1. row[c] = [plan |-> Free, payer |-> k[c], sub |-> None, status |-> "none"]
        BY <1>1, <3>2 DEF Before, NoRow
      <4> QED
        BY <4>1, <3>2 DEF RowType
    <3>3. CASE c \notin asked
      <4>1. row[c] = NoRow
        BY <1>0, <1>1, <3>3 DEF Before
      <4> QED
        BY <4>1 DEF RowType, NoRow
    <3> QED
      BY <3>1, <3>2, <3>3
  <2> QED
    BY <1>0, <1>1, <2>1 DEF Before
<1>7. sub \in [Subs -> SubType]
  <2>1. \A x \in Subs : sub[x] \in SubType
    <3> TAKE x \in Subs
    <3>1. ASSUME NEW c \in paying, s[c] = x
          PROVE  sub[x] \in SubType
      <4>1. sub[x] = [status |-> "active", payer |-> k[c], owner |-> c, plan |-> plan[c]]
        BY <1>3, <3>1
      <4>2. plan[c] \in Plans /\ k[c] \in Payers /\ c \in Customers
        BY <1>0, <3>1
      <4> QED
        BY <4>1, <4>2 DEF SubType, Statuses
    <3>2. CASE sub[x] = NoSub
      BY <3>2 DEF SubType, NoSub
    <3> QED
      BY <1>4, <3>1, <3>2
  <2> QED
    BY <1>0, <1>1, <2>1 DEF Before
<1>8. job \in [Requests -> JobType] /\ 0 \in 0..MaxEvents
  BY BoundsAssumption DEF Init, JobType, NoJob, JobFor
<1>9. TypeOK
  BY <1>0, <1>1, <1>5, <1>6, <1>7, <1>8 DEF TypeOK, Init, Before
<1>10. OwnSubscription
  <2> SUFFICES ASSUME NEW c \in Customers
               PROVE  /\ row[c].payer # None => payer[row[c].payer] = c
                      /\ row[c].sub # None => sub[row[c].sub].owner = c
    BY DEF OwnSubscription
  <2>1. CASE c \in paying
    BY <1>0, <1>1, <1>2, <1>3, <2>1 DEF Before
  <2>2. CASE c \notin paying
    BY <1>0, <1>1, <1>2, <2>2 DEF NoRow, Before
  <2> QED
    BY <2>1, <2>2
<1>11. PlanExplained
  BY <1>0, <1>1 DEF PlanExplained, NoRow, Init, Before
<1>12. SubsSound
  <2> SUFFICES ASSUME NEW x \in Subs
               PROVE  IF sub[x].status = "absent" THEN sub[x].owner = None
                      ELSE /\ sub[x].owner \in Customers /\ sub[x].payer \in Payers
                           /\ payer[sub[x].payer] = sub[x].owner
                           /\ sub[x].plan \in bought[sub[x].owner]
    BY DEF SubsSound
  <2>1. ASSUME NEW c \in paying, s[c] = x
        PROVE  /\ sub[x].status = "active" /\ sub[x].owner = c /\ sub[x].payer = k[c]
               /\ sub[x].plan = plan[c] /\ payer[k[c]] = c /\ k[c] \in Payers
               /\ plan[c] \in bought[c]
    BY <1>0, <1>1, <1>2, <1>3, <2>1 DEF Before
  <2> QED
    BY <1>4, <2>1 DEF NoSub
<1>13. SessionsSound /\ EventsSound /\ JobsSound
  BY DEF SessionsSound, EventsSound, JobsSound, Init, NoJob, JobFor
<1> QED
  BY <1>9, <1>10, <1>11, <1>12, <1>13 DEF IndInv

-----------------------------------------------------------------------------
\* What Stripe knows of a customer or subscription stays, and histories grow.
Grows ==
  /\ \A k \in Payers : payer[k] \in Customers => payer'[k] = payer[k]
  /\ \A s \in Subs : sub[s].owner \in Customers => sub'[s].owner = sub[s].owner
  /\ \A c \in Customers : bought[c] \subseteq bought'[c] /\ given[c] \subseteq given'[c]

\* A step preserves the invariant if everything it makes new is sound.
LEMMA Kept ==
  ASSUME IndInv, TypeOK', Grows,
         \A c \in Customers :
           \/ row'[c] = row[c]
           \/ /\ row'[c].payer # None => payer'[row'[c].payer] = c
              /\ row'[c].sub # None => sub'[row'[c].sub].owner = c
              /\ row'[c].plan \in bought'[c] \cup given'[c] \cup {Free},
         \A s \in Subs :
           \/ sub'[s] = sub[s]
           \/ /\ sub'[s].status # "absent"
              /\ sub'[s].owner \in Customers /\ sub'[s].payer \in Payers
              /\ payer'[sub'[s].payer] = sub'[s].owner
              /\ sub'[s].plan \in bought'[sub'[s].owner],
         \A x \in session' : x \in session \/ payer'[x.payer] = x.owner,
         \A e \in events' :
           \/ e \in events
           \/ /\ payer'[e.payer] = e.owner
              /\ sub'[e.sub].owner = e.owner
              /\ e.plan \in bought'[e.owner],
         \A p \in Requests :
           \/ job'[p] = job[p] /\ pc'[p] = pc[p]
           \/ /\ IF pc'[p] = "idle" THEN job'[p] = NoJob ELSE job'[p].customer \in Customers
              /\ pc'[p] \in {"save", "session"} => job'[p].payer \in Payers
              /\ job'[p].payer # None => payer'[job'[p].payer] = job'[p].customer
              /\ job'[p].sub # None => sub'[job'[p].sub].owner = job'[p].customer
              /\ pc'[p] = "write" => job'[p].plan \in bought'[job'[p].customer]
  PROVE  IndInv'
<1>1. /\ row \in [Customers -> RowType] /\ job \in [Requests -> JobType]
      /\ sub \in [Subs -> SubType] /\ events \subseteq EventType
      /\ session \subseteq [payer : Payers, owner : Customers, plan : Plans]
      /\ pc \in [Requests -> {"idle", "customer", "save", "session", "assign", "change", "write"}]
  BY DEF IndInv, TypeOK
<1>2. OwnSubscription' /\ PlanExplained'
  <2> SUFFICES ASSUME NEW c \in Customers
               PROVE  /\ row'[c].payer # None => payer'[row'[c].payer] = c
                      /\ row'[c].sub # None => sub'[row'[c].sub].owner = c
                      /\ row'[c].plan \in bought'[c] \cup given'[c] \cup {Free}
    BY DEF OwnSubscription, PlanExplained
  <2>1. CASE row'[c] = row[c]
    <3>1. /\ row[c].payer \in Payers \cup {None} /\ row[c].sub \in Subs \cup {None}
          /\ row[c].payer # None => payer[row[c].payer] = c
          /\ row[c].sub # None => sub[row[c].sub].owner = c
          /\ row[c].plan \in bought[c] \cup given[c] \cup {Free}
      BY <1>1 DEF IndInv, OwnSubscription, PlanExplained, RowType
    <3> QED
      BY <2>1, <3>1 DEF Grows
  <2> QED
    BY <2>1
<1>3. SubsSound'
  <2> SUFFICES ASSUME NEW s \in Subs
               PROVE  IF sub'[s].status = "absent" THEN sub'[s].owner = None
                      ELSE /\ sub'[s].owner \in Customers /\ sub'[s].payer \in Payers
                           /\ payer'[sub'[s].payer] = sub'[s].owner
                           /\ sub'[s].plan \in bought'[sub'[s].owner]
    BY DEF SubsSound
  <2>1. CASE sub'[s] = sub[s]
    BY <2>1 DEF Grows, IndInv, SubsSound
  <2> QED
    BY <2>1
<1>4. SessionsSound'
  <2> SUFFICES ASSUME NEW x \in session' PROVE payer'[x.payer] = x.owner
    BY DEF SessionsSound
  <2>1. CASE x \in session
    <3>1. x.payer \in Payers /\ x.owner \in Customers /\ payer[x.payer] = x.owner
      BY <1>1, <2>1 DEF IndInv, SessionsSound
    <3> QED
      BY <3>1 DEF Grows
  <2> QED
    BY <2>1
<1>5. EventsSound'
  <2> SUFFICES ASSUME NEW e \in events'
               PROVE  /\ payer'[e.payer] = e.owner
                      /\ sub'[e.sub].owner = e.owner
                      /\ e.plan \in bought'[e.owner]
    BY DEF EventsSound
  <2>1. CASE e \in events
    <3>1. /\ e.payer \in Payers /\ e.owner \in Customers /\ e.sub \in Subs
          /\ payer[e.payer] = e.owner /\ sub[e.sub].owner = e.owner
          /\ e.plan \in bought[e.owner]
      BY <1>1, <2>1 DEF IndInv, EventsSound, EventType
    <3> QED
      BY <3>1 DEF Grows
  <2> QED
    BY <2>1
<1>6. JobsSound'
  <2> SUFFICES ASSUME NEW p \in Requests
               PROVE  /\ IF pc'[p] = "idle" THEN job'[p] = NoJob ELSE job'[p].customer \in Customers
                      /\ pc'[p] \in {"save", "session"} => job'[p].payer \in Payers
                      /\ job'[p].payer # None => payer'[job'[p].payer] = job'[p].customer
                      /\ job'[p].sub # None => sub'[job'[p].sub].owner = job'[p].customer
                      /\ pc'[p] = "write" => job'[p].plan \in bought'[job'[p].customer]
    BY DEF JobsSound
  <2>1. CASE job'[p] = job[p] /\ pc'[p] = pc[p]
    <3>1. /\ job[p].payer \in Payers \cup {None} /\ job[p].sub \in Subs \cup {None}
          /\ job[p].customer \in Customers \cup {None}
      BY <1>1 DEF JobType
    <3>2. /\ IF pc[p] = "idle" THEN job[p] = NoJob ELSE job[p].customer \in Customers
          /\ pc[p] \in {"save", "session"} => job[p].payer \in Payers
          /\ job[p].payer # None => payer[job[p].payer] = job[p].customer
          /\ job[p].sub # None => sub[job[p].sub].owner = job[p].customer
          /\ pc[p] = "write" => job[p].plan \in bought[job[p].customer]
      BY DEF IndInv, JobsSound
    <3>3. CASE pc[p] # "idle"
      BY <2>1, <3>1, <3>2, <3>3 DEF Grows
    <3>4. CASE pc[p] = "idle"
      BY <2>1, <3>2, <3>4 DEF NoJob, JobFor
    <3> QED
      BY <3>3, <3>4
  <2> QED
    BY <2>1
<1> QED
  BY <1>2, <1>3, <1>4, <1>5, <1>6 DEF IndInv

-----------------------------------------------------------------------------
\* A request starts, moves or stops, and nothing else changes.
LEMMA RequestOnly ==
  ASSUME IndInv, NEW p \in Requests,
         NEW l \in {"idle", "customer", "save", "session", "assign", "change", "write"},
         NEW j \in JobType,
         pc' = [pc EXCEPT ![p] = l], job' = [job EXCEPT ![p] = j],
         IF l = "idle" THEN j = NoJob ELSE j.customer \in Customers,
         l \in {"save", "session"} => j.payer \in Payers,
         j.payer # None => payer[j.payer] = j.customer,
         j.sub # None => sub[j.sub].owner = j.customer,
         l # "write",
         UNCHANGED <<row, stripe, seen, bought, given, blurred>>
  PROVE  IndInv'
<1>1. TypeOK'
  BY DEF IndInv, TypeOK, stripe
<1>2. Grows
  BY DEF Grows, stripe
<1>3. \A q \in Requests : IF q = p THEN job'[q] = j /\ pc'[q] = l
                          ELSE job'[q] = job[q] /\ pc'[q] = pc[q]
  BY DEF IndInv, TypeOK
<1>4. row' = row /\ sub' = sub /\ payer' = payer /\ session' = session /\ events' = events
  BY DEF stripe
<1> QED
  BY <1>1, <1>2, <1>3, <1>4, Kept

LEMMA NoJobIsJob == NoJob \in JobType
BY BoundsAssumption DEF NoJob, JobFor, JobType

\* What the invariant says of a customer's row and of a request.
LEMMA RowFacts ==
  ASSUME IndInv, NEW c \in Customers
  PROVE  /\ row[c] \in RowType
         /\ row[c].payer \in Payers \cup {None} /\ row[c].sub \in Subs \cup {None}
         /\ row[c].payer # None => payer[row[c].payer] = c
         /\ row[c].sub # None => sub[row[c].sub].owner = c
         /\ row[c].plan \in bought[c] \cup given[c] \cup {Free}
BY DEF IndInv, TypeOK, RowType, OwnSubscription, PlanExplained

LEMMA JobFacts ==
  ASSUME IndInv, NEW p \in Requests
  PROVE  /\ job[p] \in JobType
         /\ IF pc[p] = "idle" THEN job[p] = NoJob ELSE job[p].customer \in Customers
         /\ pc[p] \in {"save", "session"} => job[p].payer \in Payers
         /\ job[p].payer # None => payer[job[p].payer] = job[p].customer
         /\ job[p].sub # None => sub[job[p].sub].owner = job[p].customer
         /\ pc[p] = "write" => job[p].plan \in bought[job[p].customer]
BY DEF IndInv, TypeOK, JobsSound

LEMMA BeginCheckoutStep ==
  ASSUME IndInv, NEW p \in Requests, NEW c \in Customers, BeginCheckout(p, c)
  PROVE  IndInv'
<1> DEFINE l == IF row[c].payer = None THEN "customer" ELSE "session"
           j == JobFor(c, row[c].payer, None)
<1>0. j = [customer |-> c, plan |-> Free, payer |-> row[c].payer, sub |-> None,
           again |-> FALSE, at |-> 0]
  BY DEF JobFor
<1>1. j.customer = c /\ j.payer = row[c].payer /\ j.sub = None
  BY <1>0
<1>2. j \in JobType
  <2>1. row[c].payer \in Payers \cup {None} /\ 0 \in 0..MaxEvents
    BY RowFacts, BoundsAssumption
  <2> QED
    BY <1>0, <2>1 DEF JobType
<1>3. /\ pc' = [pc EXCEPT ![p] = l] /\ job' = [job EXCEPT ![p] = j]
      /\ UNCHANGED <<row, stripe, seen, bought, given, blurred>>
  BY DEF BeginCheckout, Start
<1>4. l \in {"customer", "session"} /\ (l = "session" => row[c].payer # None)
  OBVIOUS
<1> HIDE DEF l, j
<1> QED
  BY <1>1, <1>2, <1>3, <1>4, RowFacts, RequestOnly

LEMMA BeginAdminStep ==
  ASSUME IndInv, NEW p \in Requests, NEW c \in Customers, BeginAdmin(p, c)
  PROVE  IndInv'
<1> DEFINE l == IF row[c].sub = None THEN "assign" ELSE "change"
           j == JobFor(c, row[c].payer, row[c].sub)
<1>0. j = [customer |-> c, plan |-> Free, payer |-> row[c].payer, sub |-> row[c].sub,
           again |-> FALSE, at |-> 0]
  BY DEF JobFor
<1>1. j.customer = c /\ j.payer = row[c].payer /\ j.sub = row[c].sub
  BY <1>0
<1>2. j \in JobType
  <2>1. /\ row[c].payer \in Payers \cup {None} /\ row[c].sub \in Subs \cup {None}
        /\ 0 \in 0..MaxEvents
    BY RowFacts, BoundsAssumption
  <2> QED
    BY <1>0, <2>1 DEF JobType
<1>3. /\ pc' = [pc EXCEPT ![p] = l] /\ job' = [job EXCEPT ![p] = j]
      /\ UNCHANGED <<row, stripe, seen, bought, given, blurred>>
  BY DEF BeginAdmin, Start
<1>4. l \in {"assign", "change"}
  OBVIOUS
<1> HIDE DEF l, j
<1> QED
  BY <1>1, <1>2, <1>3, <1>4, RowFacts, RequestOnly

LEMMA StopStep ==
  ASSUME IndInv, NEW p \in Requests, Stop(p),
         UNCHANGED <<row, stripe, seen, bought, given, blurred>>
  PROVE  IndInv'
<1>1. NoJob.payer = None /\ NoJob.sub = None
  BY DEF NoJob, JobFor
<1> QED
  BY <1>1, NoJobIsJob, RequestOnly DEF Stop

LEMMA UnknownStep ==
  ASSUME IndInv, NEW p \in Requests, Unknown(p)
  PROVE  IndInv'
<1>1. CASE job[p].again
  BY <1>1, StopStep DEF Unknown
<1>2. CASE ~job[p].again
  <2> DEFINE j == [job[p] EXCEPT !.again = TRUE]
  <2>1. /\ pc' = [pc EXCEPT ![p] = "customer"] /\ job' = [job EXCEPT ![p] = j]
        /\ UNCHANGED <<row, stripe, seen, bought, given, blurred>> /\ pc[p] = "session"
    BY <1>2 DEF Unknown, Goto
  <2>2. /\ j.customer = job[p].customer /\ j.payer = job[p].payer /\ j.sub = job[p].sub
        /\ j \in JobType
    BY JobFacts DEF JobType
  <2> HIDE DEF j
  <2> QED
    BY <2>1, <2>2, JobFacts, RequestOnly
<1> QED
  BY <1>1, <1>2

LEMMA CreateStripeCustomerStep ==
  ASSUME IndInv, NEW p \in Requests, CreateStripeCustomer(p)
  PROVE  IndInv'
<1>1. PICK k \in Payers :
        /\ payer[k] = None
        /\ payer' = [payer EXCEPT ![k] = job[p].customer]
        /\ job' = [job EXCEPT ![p].payer = k]
  BY DEF CreateStripeCustomer
<1>2. /\ pc[p] = "customer" /\ pc' = [pc EXCEPT ![p] = "save"]
      /\ UNCHANGED <<row, forgotten, sub, session, events, clock, seen, bought, given, blurred>>
  BY DEF CreateStripeCustomer, Goto
<1>3. job[p].customer \in Customers /\ job[p] \in JobType
  BY <1>2, JobFacts
<1>4. TypeOK'
  BY <1>1, <1>2, <1>3 DEF IndInv, TypeOK, JobType
<1>5. Grows /\ payer'[k] = job[p].customer
  BY <1>1, <1>2, NoneAssumption DEF Grows, IndInv, TypeOK
<1>6. /\ \A q \in Requests \ {p} : job'[q] = job[q] /\ pc'[q] = pc[q]
      /\ pc'[p] = "save" /\ job'[p].customer = job[p].customer
      /\ job'[p].payer = k /\ job'[p].sub = job[p].sub
  BY <1>1, <1>2, <1>3 DEF IndInv, TypeOK, JobType
<1>7. \A q \in Requests :
        \/ job'[q] = job[q] /\ pc'[q] = pc[q]
        \/ /\ IF pc'[q] = "idle" THEN job'[q] = NoJob ELSE job'[q].customer \in Customers
           /\ pc'[q] \in {"save", "session"} => job'[q].payer \in Payers
           /\ job'[q].payer # None => payer'[job'[q].payer] = job'[q].customer
           /\ job'[q].sub # None => sub'[job'[q].sub].owner = job'[q].customer
           /\ pc'[q] = "write" => job'[q].plan \in bought'[job'[q].customer]
  BY <1>2, <1>3, <1>5, <1>6, JobFacts
<1> QED
  BY <1>2, <1>4, <1>5, <1>7, Kept

LEMMA SaveStripeCustomerStep ==
  ASSUME IndInv, NEW p \in Requests, SaveStripeCustomer(p)
  PROVE  IndInv'
<1> DEFINE c == job[p].customer
<1>1. /\ pc[p] = "save" /\ row' = [row EXCEPT ![c].payer = job[p].payer]
      /\ pc' = [pc EXCEPT ![p] = "session"]
      /\ blurred' \in {blurred, blurred \cup {c}}
      /\ UNCHANGED <<stripe, job, seen, bought, given>>
  BY DEF SaveStripeCustomer, Goto, Blur
<1>2. /\ c \in Customers /\ job[p].payer \in Payers /\ payer[job[p].payer] = c
      /\ job[p] \in JobType
  BY <1>1, JobFacts, NoneAssumption
<1>3. /\ row'[c].payer = job[p].payer /\ row'[c].sub = row[c].sub /\ row'[c].plan = row[c].plan
      /\ row' \in [Customers -> RowType] /\ \A d \in Customers \ {c} : row'[d] = row[d]
  BY <1>1, <1>2 DEF IndInv, TypeOK, RowType
<1>4. TypeOK'
  BY <1>1, <1>2, <1>3 DEF IndInv, TypeOK, stripe
<1>5. Grows
  BY <1>1 DEF Grows, stripe
<1>6. \A d \in Customers :
        \/ row'[d] = row[d]
        \/ /\ row'[d].payer # None => payer'[row'[d].payer] = d
           /\ row'[d].sub # None => sub'[row'[d].sub].owner = d
           /\ row'[d].plan \in bought'[d] \cup given'[d] \cup {Free}
  BY <1>1, <1>2, <1>3, RowFacts DEF stripe
<1>7. \A q \in Requests :
        \/ job'[q] = job[q] /\ pc'[q] = pc[q]
        \/ /\ IF pc'[q] = "idle" THEN job'[q] = NoJob ELSE job'[q].customer \in Customers
           /\ pc'[q] \in {"save", "session"} => job'[q].payer \in Payers
           /\ job'[q].payer # None => payer'[job'[q].payer] = job'[q].customer
           /\ job'[q].sub # None => sub'[job'[q].sub].owner = job'[q].customer
           /\ pc'[q] = "write" => job'[q].plan \in bought'[job'[q].customer]
  <2> TAKE q \in Requests
  <2>1. CASE q = p
    <3>1. pc'[p] = "session" /\ job'[p] = job[p]
      BY <1>1 DEF IndInv, TypeOK
    <3> QED
      BY <1>1, <1>2, <2>1, <3>1, JobFacts DEF stripe
  <2>2. CASE q # p
    BY <1>1, <2>2 DEF IndInv, TypeOK
  <2> QED
    BY <2>1, <2>2
<1>8. sub' = sub /\ session' = session /\ events' = events
  BY <1>1 DEF stripe
<1> QED
  BY <1>4, <1>5, <1>6, <1>7, <1>8, Kept

\* A request that stops leaves nothing to be sound about.
LEMMA Stopped ==
  ASSUME IndInv, NEW p \in Requests, Stop(p)
  PROVE  /\ pc' \in [Requests -> {"idle", "customer", "save", "session", "assign", "change", "write"}]
         /\ job' \in [Requests -> JobType]
         /\ \A q \in Requests :
              \/ job'[q] = job[q] /\ pc'[q] = pc[q]
              \/ /\ IF pc'[q] = "idle" THEN job'[q] = NoJob ELSE job'[q].customer \in Customers
                 /\ pc'[q] \in {"save", "session"} => job'[q].payer \in Payers
                 /\ job'[q].payer # None => payer'[job'[q].payer] = job'[q].customer
                 /\ job'[q].sub # None => sub'[job'[q].sub].owner = job'[q].customer
                 /\ pc'[q] = "write" => job'[q].plan \in bought'[job'[q].customer]
<1>1. \A q \in Requests : IF q = p THEN pc'[q] = "idle" /\ job'[q] = NoJob
                          ELSE job'[q] = job[q] /\ pc'[q] = pc[q]
  BY DEF Stop, IndInv, TypeOK
<1>2. NoJob.payer = None /\ NoJob.sub = None
  BY DEF NoJob, JobFor
<1>3. /\ pc' \in [Requests -> {"idle", "customer", "save", "session", "assign", "change", "write"}]
      /\ job' \in [Requests -> JobType]
  BY NoJobIsJob DEF Stop, IndInv, TypeOK
<1> QED
  BY <1>1, <1>2, <1>3

\* What is added to the events when one is sent.
LEMMA Sent ==
  ASSUME IndInv, NEW type \in {"completed", "updated", "deleted"}, NEW s \in Subs, NEW t,
         t.payer \in Payers, t.owner \in Customers, t.plan \in Plans, t.status \in Statuses,
         Send(type, s, t)
  PROVE  /\ events' \subseteq EventType /\ clock' \in 0..MaxEvents
         /\ \A e \in events' :
              \/ e \in events
              \/ e.payer = t.payer /\ e.sub = s /\ e.owner = t.owner /\ e.plan = t.plan
<1> DEFINE new == [type |-> type, payer |-> t.payer, sub |-> s, owner |-> t.owner,
                   plan |-> t.plan, status |-> t.status, at |-> clock + 1]
<1>1. /\ clock' = clock + 1 /\ clock + 1 \in 1..MaxEvents
      /\ clock' \in 0..MaxEvents
  BY BoundsAssumption DEF Send, IndInv, TypeOK
<1>2. new \in EventType
  BY <1>1 DEF EventType
<1>3. events' = events \cup {new} /\ events \subseteq EventType
  BY DEF Send, IndInv, TypeOK
<1>4. new.payer = t.payer /\ new.sub = s /\ new.owner = t.owner /\ new.plan = t.plan
  OBVIOUS
<1> HIDE DEF new
<1> QED
  BY <1>1, <1>2, <1>3, <1>4

LEMMA OpenSessionStep ==
  ASSUME IndInv, NEW p \in Requests, OpenSession(p)
  PROVE  IndInv'
<1>1. PICK plan \in Plans :
        session' = session \cup {[payer |-> job[p].payer, owner |-> job[p].customer, plan |-> plan]}
  BY DEF OpenSession
<1>2. /\ pc[p] = "session" /\ Stop(p)
      /\ UNCHANGED <<row, payer, forgotten, sub, events, clock, seen, bought, given, blurred>>
  BY DEF OpenSession
<1>3. /\ job[p].customer \in Customers /\ job[p].payer \in Payers
      /\ payer[job[p].payer] = job[p].customer
  BY <1>2, JobFacts, NoneAssumption
<1>4. TypeOK'
  BY <1>1, <1>2, <1>3, Stopped DEF IndInv, TypeOK
<1>5. Grows
  BY <1>2 DEF Grows
<1>6. \A x \in session' : x \in session \/ payer'[x.payer] = x.owner
  BY <1>1, <1>2, <1>3
<1>7. \A q \in Requests :
        \/ job'[q] = job[q] /\ pc'[q] = pc[q]
        \/ /\ IF pc'[q] = "idle" THEN job'[q] = NoJob ELSE job'[q].customer \in Customers
           /\ pc'[q] \in {"save", "session"} => job'[q].payer \in Payers
           /\ job'[q].payer # None => payer'[job'[q].payer] = job'[q].customer
           /\ job'[q].sub # None => sub'[job'[q].sub].owner = job'[q].customer
           /\ pc'[q] = "write" => job'[q].plan \in bought'[job'[q].customer]
  BY <1>2, Stopped
<1> QED
  BY <1>2, <1>4, <1>5, <1>6, <1>7, Kept

LEMMA AssignStep ==
  ASSUME IndInv, NEW p \in Requests, Assign(p)
  PROVE  IndInv'
<1> DEFINE c == job[p].customer
<1>1. PICK plan \in Plans \cup {Free} :
        /\ row' = [row EXCEPT ![c].plan = plan]
        /\ given' = [given EXCEPT ![c] = given[c] \cup ({plan} \ {Free})]
  BY GivenAssumption DEF Assign
<1>2. /\ pc[p] = "assign" /\ Stop(p) /\ blurred' \in {blurred, blurred \cup {c}}
      /\ UNCHANGED <<stripe, seen, bought>>
  BY DEF Assign, Blur
<1>3. c \in Customers
  BY <1>2, JobFacts
<1>4. /\ row'[c].payer = row[c].payer /\ row'[c].sub = row[c].sub /\ row'[c].plan = plan
      /\ row' \in [Customers -> RowType] /\ \A d \in Customers \ {c} : row'[d] = row[d]
      /\ given' \in [Customers -> SUBSET Plans] /\ plan \in given'[c] \cup {Free}
      /\ \A d \in Customers : given[d] \subseteq given'[d]
  BY <1>1, <1>3 DEF IndInv, TypeOK, RowType
<1>5. TypeOK'
  BY <1>2, <1>3, <1>4, Stopped DEF IndInv, TypeOK, stripe
<1>6. Grows
  BY <1>2, <1>4 DEF Grows, stripe
<1>7. \A d \in Customers :
        \/ row'[d] = row[d]
        \/ /\ row'[d].payer # None => payer'[row'[d].payer] = d
           /\ row'[d].sub # None => sub'[row'[d].sub].owner = d
           /\ row'[d].plan \in bought'[d] \cup given'[d] \cup {Free}
  BY <1>2, <1>3, <1>4, RowFacts DEF stripe
<1>8. \A q \in Requests :
        \/ job'[q] = job[q] /\ pc'[q] = pc[q]
        \/ /\ IF pc'[q] = "idle" THEN job'[q] = NoJob ELSE job'[q].customer \in Customers
           /\ pc'[q] \in {"save", "session"} => job'[q].payer \in Payers
           /\ job'[q].payer # None => payer'[job'[q].payer] = job'[q].customer
           /\ job'[q].sub # None => sub'[job'[q].sub].owner = job'[q].customer
           /\ pc'[q] = "write" => job'[q].plan \in bought'[job'[q].customer]
  BY <1>2, Stopped
<1>9. sub' = sub /\ session' = session /\ events' = events
  BY <1>2 DEF stripe
<1> QED
  BY <1>5, <1>6, <1>7, <1>8, <1>9, Kept

LEMMA WriteBackStep ==
  ASSUME IndInv, NEW p \in Requests, WriteBack(p)
  PROVE  IndInv'
<1> DEFINE c == job[p].customer
           new == [plan |-> job[p].plan, payer |-> job[p].payer, sub |-> job[p].sub,
                   status |-> "active"]
<1>1. /\ pc[p] = "write" /\ Stop(p) /\ blurred' \in {blurred, blurred \cup {c}}
      /\ row' = [row EXCEPT ![c] = new]
      /\ UNCHANGED <<stripe, seen, bought, given>>
  BY DEF WriteBack, Blur
<1>2. /\ c \in Customers /\ job[p] \in JobType /\ job[p].plan \in bought[c]
      /\ job[p].payer # None => payer[job[p].payer] = c
      /\ job[p].sub # None => sub[job[p].sub].owner = c
  BY <1>1, JobFacts
<1>3. new \in RowType
  BY <1>2 DEF JobType, RowType, Statuses
<1>4. new.plan = job[p].plan /\ new.payer = job[p].payer /\ new.sub = job[p].sub
  OBVIOUS
<1> HIDE DEF new
<1>5. row' \in [Customers -> RowType] /\ \A d \in Customers : row'[d] = IF d = c THEN new ELSE row[d]
  BY <1>1, <1>2, <1>3 DEF IndInv, TypeOK
<1>6. TypeOK'
  BY <1>1, <1>2, <1>5, Stopped DEF IndInv, TypeOK, stripe
<1>7. Grows
  BY <1>1 DEF Grows, stripe
<1>8. \A d \in Customers :
        \/ row'[d] = row[d]
        \/ /\ row'[d].payer # None => payer'[row'[d].payer] = d
           /\ row'[d].sub # None => sub'[row'[d].sub].owner = d
           /\ row'[d].plan \in bought'[d] \cup given'[d] \cup {Free}
  BY <1>1, <1>2, <1>4, <1>5 DEF stripe
<1>9. \A q \in Requests :
        \/ job'[q] = job[q] /\ pc'[q] = pc[q]
        \/ /\ IF pc'[q] = "idle" THEN job'[q] = NoJob ELSE job'[q].customer \in Customers
           /\ pc'[q] \in {"save", "session"} => job'[q].payer \in Payers
           /\ job'[q].payer # None => payer'[job'[q].payer] = job'[q].customer
           /\ job'[q].sub # None => sub'[job'[q].sub].owner = job'[q].customer
           /\ pc'[q] = "write" => job'[q].plan \in bought'[job'[q].customer]
  BY <1>1, Stopped
<1>10. sub' = sub /\ session' = session /\ events' = events
  BY <1>1 DEF stripe
<1> QED
  BY <1>6, <1>7, <1>8, <1>9, <1>10, Kept

LEMMA SubFacts ==
  ASSUME IndInv, NEW s \in Subs, Alive(s)
  PROVE  /\ sub[s] \in SubType /\ sub[s].status \in Statuses
         /\ sub[s].owner \in Customers /\ sub[s].payer \in Payers
         /\ payer[sub[s].payer] = sub[s].owner
         /\ sub[s].plan \in bought[sub[s].owner] /\ sub[s].plan \in Plans
<1>1. sub[s] \in SubType /\ sub[s].status \in Statuses /\ sub[s].status # "absent"
  BY DEF IndInv, TypeOK, Alive, Statuses
<1>2. /\ sub[s].owner \in Customers /\ sub[s].payer \in Payers
      /\ payer[sub[s].payer] = sub[s].owner /\ sub[s].plan \in bought[sub[s].owner]
  BY <1>1 DEF IndInv, SubsSound
<1> QED
  BY <1>1, <1>2 DEF IndInv, TypeOK

\* What changing a subscription does to everything but the requests.
LEMMA Altered ==
  ASSUME IndInv, NEW s, NEW plan \in Plans, NEW status \in Statuses,
         Alter(s, plan, status), payer' = payer, given' = given
  PROVE  /\ s \in Subs /\ sub' \in [Subs -> SubType] /\ events' \subseteq EventType
         /\ clock' \in 0..MaxEvents
         /\ bought' \in [Customers -> SUBSET Plans] /\ plan \in bought'[sub[s].owner]
         /\ Grows
         /\ \A x \in Subs :
             \/ sub'[x] = sub[x]
             \/ /\ sub'[x].status # "absent"
                /\ sub'[x].owner \in Customers /\ sub'[x].payer \in Payers
                /\ payer'[sub'[x].payer] = sub'[x].owner
                /\ sub'[x].plan \in bought'[sub'[x].owner]
         /\ \A e \in events' :
             \/ e \in events
             \/ /\ payer'[e.payer] = e.owner
                /\ sub'[e.sub].owner = e.owner
                /\ e.plan \in bought'[e.owner]
<1> DEFINE t == [sub[s] EXCEPT !.plan = plan, !.status = status]
<1>1. s \in Subs /\ Alive(s)
  BY DEF Alter, Alive
<1>2. /\ sub' = [sub EXCEPT ![s] = t] /\ Send("updated", s, t)
      /\ bought' = [bought EXCEPT ![sub[s].owner] = bought[sub[s].owner] \cup {plan}]
  <2>1. [sub EXCEPT ![s].plan = plan, ![s].status = status] = [sub EXCEPT ![s] = t]
    BY <1>1 DEF IndInv, TypeOK
  <2> QED
    BY <2>1 DEF Alter
<1>3. /\ t \in SubType /\ t.owner = sub[s].owner /\ t.payer = sub[s].payer
      /\ t.plan = plan /\ t.status = status
  BY <1>1, SubFacts DEF SubType
<1> HIDE DEF t
<1>4. /\ sub' \in [Subs -> SubType] /\ \A x \in Subs : sub'[x] = IF x = s THEN t ELSE sub[x]
      /\ bought' \in [Customers -> SUBSET Plans] /\ plan \in bought'[sub[s].owner]
      /\ \A c \in Customers : bought[c] \subseteq bought'[c]
  BY <1>1, <1>2, <1>3, SubFacts DEF IndInv, TypeOK
<1>5. Grows
  BY <1>3, <1>4 DEF Grows
<1>6. /\ events' \subseteq EventType /\ clock' \in 0..MaxEvents
      /\ \A e \in events' :
           e \in events \/ (e.payer = t.payer /\ e.sub = s /\ e.owner = t.owner /\ e.plan = t.plan)
  BY <1>1, <1>2, <1>3, SubFacts, Sent
<1>7. \A e \in events' :
        \/ e \in events
        \/ /\ payer'[e.payer] = e.owner
           /\ sub'[e.sub].owner = e.owner
           /\ e.plan \in bought'[e.owner]
  BY <1>1, <1>3, <1>4, <1>6, SubFacts
<1>8. \A x \in Subs :
        \/ sub'[x] = sub[x]
        \/ /\ sub'[x].status # "absent"
           /\ sub'[x].owner \in Customers /\ sub'[x].payer \in Payers
           /\ payer'[sub'[x].payer] = sub'[x].owner
           /\ sub'[x].plan \in bought'[sub'[x].owner]
  BY <1>1, <1>3, <1>4, SubFacts DEF Statuses
<1> QED
  BY <1>1, <1>4, <1>5, <1>6, <1>7, <1>8

LEMMA ChangeStep ==
  ASSUME IndInv, NEW s \in Subs, NEW plan \in Plans, NEW status \in Statuses,
         Change(s, plan, status)
  PROVE  IndInv'
<1>1. /\ Alter(s, plan, status)
      /\ UNCHANGED <<row, payer, forgotten, session, pc, job, seen, given, blurred>>
  BY DEF Change
<1>2. TypeOK'
  BY <1>1, Altered DEF IndInv, TypeOK
<1> QED
  BY <1>1, <1>2, Altered, Kept

LEMMA ChangeAtStripeStep ==
  ASSUME IndInv, NEW p \in Requests, ChangeAtStripe(p)
  PROVE  IndInv'
<1>1. pc[p] = "change" /\ UNCHANGED <<row, payer, forgotten, session, seen, given, blurred>>
  BY DEF ChangeAtStripe
<1>2. CASE Stop(p) /\ UNCHANGED <<sub, events, clock, bought>>
  BY <1>1, <1>2, StopStep DEF stripe
<1>3. ASSUME NEW plan \in Plans, Alter(job[p].sub, plan, sub[job[p].sub].status), Stop(p)
      PROVE  IndInv'
  <2>1. sub[job[p].sub].status \in Statuses
    BY <1>3 DEF Alter, Alive
  <2>2. TypeOK'
    BY <1>1, <1>3, <2>1, Altered, Stopped DEF IndInv, TypeOK
  <2>3. \A q \in Requests :
          \/ job'[q] = job[q] /\ pc'[q] = pc[q]
          \/ /\ IF pc'[q] = "idle" THEN job'[q] = NoJob ELSE job'[q].customer \in Customers
             /\ pc'[q] \in {"save", "session"} => job'[q].payer \in Payers
             /\ job'[q].payer # None => payer'[job'[q].payer] = job'[q].customer
             /\ job'[q].sub # None => sub'[job'[q].sub].owner = job'[q].customer
             /\ pc'[q] = "write" => job'[q].plan \in bought'[job'[q].customer]
    BY <1>3, Stopped
  <2> QED
    BY <1>1, <1>3, <2>1, <2>2, <2>3, Altered, Kept
<1>4. ASSUME NEW plan \in Plans, Alter(job[p].sub, plan, sub[job[p].sub].status), GoOn(p, plan)
      PROVE  IndInv'
  <2>1. sub[job[p].sub].status \in Statuses /\ job[p].sub \in Subs
    BY <1>4 DEF Alter, Alive
  <2>2. /\ pc' = [pc EXCEPT ![p] = "write"]
        /\ job' = [job EXCEPT ![p].plan = plan, ![p].at = clock']
    BY <1>4 DEF GoOn, Goto
  <2>3. clock' \in 0..MaxEvents /\ plan \in bought'[sub[job[p].sub].owner] /\ Grows
    BY <1>1, <1>4, <2>1, BoundsAssumption, Altered
  <2>4. /\ job[p] \in JobType /\ job[p].customer \in Customers
        /\ job[p].payer # None => payer[job[p].payer] = job[p].customer
        /\ sub[job[p].sub].owner = job[p].customer
    BY <1>1, <2>1, NoneAssumption, JobFacts
  <2>5. /\ pc'[p] = "write" /\ job'[p].customer = job[p].customer /\ job'[p].sub = job[p].sub
        /\ job'[p].payer = job[p].payer /\ job'[p].plan = plan
        /\ job' \in [Requests -> JobType]
        /\ \A q \in Requests \ {p} : job'[q] = job[q] /\ pc'[q] = pc[q]
    BY <2>2, <2>3, <2>4 DEF IndInv, TypeOK, JobType
  <2>6. TypeOK'
    BY <1>1, <1>4, <2>1, <2>2, <2>5, Altered DEF IndInv, TypeOK
  <2>7. sub'[job[p].sub].owner = job[p].customer
    BY <2>1, <2>3, <2>4 DEF Grows
  <2>8. \A q \in Requests :
          \/ job'[q] = job[q] /\ pc'[q] = pc[q]
          \/ /\ IF pc'[q] = "idle" THEN job'[q] = NoJob ELSE job'[q].customer \in Customers
             /\ pc'[q] \in {"save", "session"} => job'[q].payer \in Payers
             /\ job'[q].payer # None => payer'[job'[q].payer] = job'[q].customer
             /\ job'[q].sub # None => sub'[job'[q].sub].owner = job'[q].customer
             /\ pc'[q] = "write" => job'[q].plan \in bought'[job'[q].customer]
    BY <1>1, <2>3, <2>4, <2>5, <2>7
  <2> QED
    BY <1>1, <1>4, <2>1, <2>6, <2>8, Altered, Kept
<1> QED
  BY <1>2, <1>3, <1>4 DEF ChangeAtStripe

LEMMA PayStep ==
  ASSUME IndInv, NEW x \in session, NEW s \in Subs, Pay(x, s)
  PROVE  IndInv'
<1> DEFINE new == [status |-> "active", payer |-> x.payer, owner |-> x.owner, plan |-> x.plan]
<1>1. /\ sub[s].status = "absent" /\ session' = session \ {x}
      /\ sub' = [sub EXCEPT ![s] = new] /\ Send("completed", s, new)
      /\ bought' = [bought EXCEPT ![x.owner] = bought[x.owner] \cup {x.plan}]
      /\ blurred' \in {blurred, blurred \cup {x.owner}}
      /\ UNCHANGED <<row, payer, forgotten, pc, job, seen, given>>
  BY DEF Pay, Blur
<1>2. /\ x.payer \in Payers /\ x.owner \in Customers /\ x.plan \in Plans
      /\ payer[x.payer] = x.owner /\ sub[s].owner = None
  BY <1>1 DEF IndInv, TypeOK, SessionsSound, SubsSound
<1>3. /\ new \in SubType /\ new.status = "active" /\ new.payer = x.payer
      /\ new.owner = x.owner /\ new.plan = x.plan
  BY <1>2 DEF SubType, Statuses
<1> HIDE DEF new
<1>4. /\ sub' \in [Subs -> SubType] /\ \A y \in Subs : sub'[y] = IF y = s THEN new ELSE sub[y]
      /\ bought' \in [Customers -> SUBSET Plans] /\ x.plan \in bought'[x.owner]
      /\ \A c \in Customers : bought[c] \subseteq bought'[c]
  BY <1>1, <1>2, <1>3 DEF IndInv, TypeOK
<1>5. Grows
  BY <1>1, <1>2, <1>4, NoneAssumption DEF Grows
<1>6. /\ events' \subseteq EventType /\ clock' \in 0..MaxEvents
      /\ \A e \in events' : \/ e \in events
                           \/ /\ e.payer = new.payer /\ e.sub = s
                              /\ e.owner = new.owner /\ e.plan = new.plan
  BY <1>1, <1>2, <1>3, Sent DEF Statuses
<1>7. TypeOK'
  BY <1>1, <1>2, <1>4, <1>6 DEF IndInv, TypeOK
<1>8. \A e \in events' :
        \/ e \in events
        \/ /\ payer'[e.payer] = e.owner
           /\ sub'[e.sub].owner = e.owner
           /\ e.plan \in bought'[e.owner]
  BY <1>1, <1>2, <1>3, <1>4, <1>6
<1>9. \A y \in Subs :
        \/ sub'[y] = sub[y]
        \/ /\ sub'[y].status # "absent"
           /\ sub'[y].owner \in Customers /\ sub'[y].payer \in Payers
           /\ payer'[sub'[y].payer] = sub'[y].owner
           /\ sub'[y].plan \in bought'[sub'[y].owner]
  BY <1>1, <1>2, <1>3, <1>4
<1> QED
  BY <1>1, <1>5, <1>7, <1>8, <1>9, Kept

LEMMA EndStep ==
  ASSUME IndInv, NEW s \in Subs, End(s)
  PROVE  IndInv'
<1>1. /\ Alive(s) /\ sub' = [sub EXCEPT ![s].status = "ended"] /\ Send("deleted", s, sub[s])
      /\ UNCHANGED <<row, payer, forgotten, session, pc, job, seen, bought, given, blurred>>
  BY DEF End
<1>2. /\ sub' \in [Subs -> SubType] /\ \A x \in Subs \ {s} : sub'[x] = sub[x]
      /\ sub'[s].status = "ended" /\ sub'[s].owner = sub[s].owner
      /\ sub'[s].payer = sub[s].payer /\ sub'[s].plan = sub[s].plan
  BY <1>1, SubFacts DEF IndInv, TypeOK, SubType
<1>3. Grows
  BY <1>1, <1>2 DEF Grows
<1>4. /\ events' \subseteq EventType /\ clock' \in 0..MaxEvents
      /\ \A e \in events' : \/ e \in events
                           \/ /\ e.payer = sub[s].payer /\ e.sub = s
                              /\ e.owner = sub[s].owner /\ e.plan = sub[s].plan
  BY <1>1, SubFacts, Sent
<1>5. TypeOK'
  BY <1>1, <1>2, <1>4 DEF IndInv, TypeOK
<1>6. \A e \in events' :
        \/ e \in events
        \/ /\ payer'[e.payer] = e.owner
           /\ sub'[e.sub].owner = e.owner
           /\ e.plan \in bought'[e.owner]
  BY <1>1, <1>2, <1>4, SubFacts
<1>7. \A x \in Subs :
        \/ sub'[x] = sub[x]
        \/ /\ sub'[x].status # "absent"
           /\ sub'[x].owner \in Customers /\ sub'[x].payer \in Payers
           /\ payer'[sub'[x].payer] = sub'[x].owner
           /\ sub'[x].plan \in bought'[sub'[x].owner]
  BY <1>1, <1>2, SubFacts
<1> QED
  BY <1>1, <1>3, <1>5, <1>6, <1>7, Kept

LEMMA DeliverStep ==
  ASSUME IndInv, NEW e \in events, NEW again \in BOOLEAN, NEW known \in BOOLEAN,
         NEW done \in BOOLEAN, Deliver(e, again, known, done)
  PROVE  IndInv'
<1>1. /\ events' \subseteq events /\ blurred' \in {blurred, blurred \cup {e.owner}}
      /\ seen' = [seen EXCEPT ![e.owner] = IF seen[e.owner] < e.at THEN e.at ELSE seen[e.owner]]
      /\ UNCHANGED <<payer, forgotten, sub, session, clock, pc, job, bought, given>>
  BY DEF Deliver, Blur
<1>2. /\ e.type \in {"completed", "updated", "deleted"} /\ e.status \in Statuses
      /\ e.payer \in Payers /\ e.sub \in Subs /\ e.owner \in Customers /\ e.plan \in Plans
      /\ e.at \in 1..MaxEvents
      /\ payer[e.payer] = e.owner /\ sub[e.sub].owner = e.owner /\ e.plan \in bought[e.owner]
  BY DEF IndInv, TypeOK, EventType, EventsSound
<1>3. seen' \in [Customers -> 0..MaxEvents]
  <2>1. e.at \in 0..MaxEvents
    BY <1>2, BoundsAssumption
  <2> QED
    BY <1>1, <1>2, <2>1 DEF IndInv, TypeOK
<1>4. \/ row' = row
      \/ e.type = "completed" /\ row' = Completed(e)
      \/ e.type = "updated" /\ row' = Updated(e, known)
      \/ e.type = "deleted" /\ row' = Deleted(e)
  BY <1>2 DEF Deliver
<1>5. \A c \in Customers :
        /\ row'[c] \in RowType
        /\ \/ row'[c] = row[c]
           \/ /\ row'[c].payer # None => payer[row'[c].payer] = c
              /\ row'[c].sub # None => sub[row'[c].sub].owner = c
              /\ row'[c].plan \in bought[c] \cup given[c] \cup {Free}
  <2> TAKE c \in Customers
  <2>1. CASE row' = row
    BY <2>1, RowFacts
  <2>2. CASE row' = Completed(e)
    <3>1. CASE c = e.owner
      <4>1. row'[c] = [plan |-> e.plan, payer |-> e.payer, sub |-> e.sub, status |-> "active"]
        BY <2>2, <3>1 DEF Completed
      <4> QED
        BY <1>2, <3>1, <4>1 DEF RowType, Statuses
    <3>2. CASE c # e.owner
      BY <2>2, <3>2, RowFacts DEF Completed
    <3> QED
      BY <3>1, <3>2
  <2>3. CASE row' = Updated(e, known)
    <3>1. CASE row[c].payer = e.payer
      <4>1. /\ row'[c] \in RowType /\ row'[c].payer = row[c].payer /\ row'[c].sub = e.sub
            /\ row'[c].plan \in {row[c].plan, e.plan}
        <5>1. row'[c] = [row[c] EXCEPT !.plan = IF known THEN e.plan ELSE row[c].plan,
                                       !.sub = e.sub, !.status = e.status]
          BY <2>3, <3>1 DEF Updated
        <5> QED
          BY <1>2, <5>1, RowFacts DEF RowType
      <4>2. c = e.owner
        BY <1>2, <3>1, RowFacts, NoneAssumption
      <4> QED
        BY <1>2, <4>1, <4>2, RowFacts
    <3>2. CASE row[c].payer # e.payer
      BY <2>3, <3>2, RowFacts DEF Updated
    <3> QED
      BY <3>1, <3>2
  <2>4. CASE row' = Deleted(e)
    <3>1. CASE row[c].payer = e.payer
      <4>1. /\ row'[c] \in RowType /\ row'[c].payer = row[c].payer /\ row'[c].sub = None
            /\ row'[c].plan = Free
        <5>1. row'[c] = [row[c] EXCEPT !.plan = Free, !.sub = None, !.status = "none"]
          BY <2>4, <3>1 DEF Deleted
        <5> QED
          BY <5>1, RowFacts DEF RowType
      <4> QED
        BY <4>1, RowFacts
    <3>2. CASE row[c].payer # e.payer
      BY <2>4, <3>2, RowFacts DEF Deleted
    <3> QED
      BY <3>1, <3>2
  <2> QED
    BY <1>4, <2>1, <2>2, <2>3, <2>4
<1>6. row' \in [Customers -> RowType]
  BY <1>4, <1>5 DEF IndInv, TypeOK, Completed, Updated, Deleted
<1>7. TypeOK'
  BY <1>1, <1>2, <1>3, <1>6 DEF IndInv, TypeOK
<1>8. Grows
  BY <1>1 DEF Grows
<1> QED
  BY <1>1, <1>5, <1>7, <1>8, Kept

-----------------------------------------------------------------------------
LEMMA NextStep == IndInv /\ [Next]_vars => IndInv'
<1> SUFFICES ASSUME IndInv, [Next]_vars PROVE IndInv'
  OBVIOUS
<1>1. CASE UNCHANGED vars
  BY <1>1 DEF vars, IndInv, TypeOK, OwnSubscription, PlanExplained, SubsSound,
              SessionsSound, EventsSound, JobsSound
<1>2. ASSUME NEW p \in Requests, Begin(p)
      PROVE  IndInv'
  BY <1>2, BeginCheckoutStep, BeginAdminStep DEF Begin
<1>3. ASSUME NEW p \in Requests, Step(p)
      PROVE  IndInv'
  <2>1. CASE StepFails(p)
    BY <2>1, StopStep DEF StepFails
  <2> QED
    BY <1>3, <2>1, CreateStripeCustomerStep, SaveStripeCustomerStep, OpenSessionStep, UnknownStep,
       AssignStep, ChangeAtStripeStep, WriteBackStep DEF Step
<1>4. CASE Stripe
  BY <1>4, PayStep, EndStep, ChangeStep DEF Stripe
<1>5. CASE Webhook
  BY <1>5, DeliverStep DEF Webhook
<1> QED
  BY <1>1, <1>2, <1>3, <1>4, <1>5 DEF Next

(* Everything in flight belongs to the customer it will be written for     *)
(* (billing.go, admin_billing.go: sessions, events and what requests read).*)
THEOREM IndInvCorrect == Spec => []IndInv
BY InitIndInv, NextStep, PTL DEF Spec

(* A customer's row refers to his own Stripe customer and subscription,    *)
(* whichever events are lost, repeated or late and whatever operators do.  *)
THEOREM OwnSubscriptionCorrect == Spec => []OwnSubscription
<1>1. IndInv => OwnSubscription
  BY DEF IndInv
<1> QED
  BY <1>1, IndInvCorrect, PTL

(* Nobody is on a plan that was neither bought by nor given to him.        *)
THEOREM PlanExplainedCorrect == Spec => []PlanExplained
<1>1. IndInv => PlanExplained
  BY DEF IndInv
<1> QED
  BY <1>1, IndInvCorrect, PTL

-----------------------------------------------------------------------------
(* The events about a customer, from Stripe to the row.                    *)

LEMMA EventFacts ==
  ASSUME IndInv, NEW e \in events
  PROVE  /\ e.type \in {"completed", "updated", "deleted"} /\ e.status \in Statuses
         /\ e.payer \in Payers /\ e.sub \in Subs /\ e.owner \in Customers /\ e.plan \in Plans
         /\ e.at \in Nat /\ e.sub # None
         /\ payer[e.payer] = e.owner /\ sub[e.sub].owner = e.owner
BY NoneAssumption DEF IndInv, TypeOK, EventType, EventsSound

LEMMA CounterFacts ==
  ASSUME IndInv
  PROVE  /\ clock \in Nat
         /\ \A c \in Customers : seen[c] \in Nat
         /\ \A p \in Requests : job[p].at \in Nat
BY BoundsAssumption DEF IndInv, TypeOK, JobType

\* A request's subscription, once it has one, is one that row[d] had when it began.
JobsKept ==
  \A p \in Requests : job'[p].sub # None =>
    \/ job'[p].sub = job[p].sub /\ job'[p].payer = job[p].payer
       /\ job'[p].customer = job[p].customer
    \/ \E d \in Customers : job'[p].sub = row[d].sub /\ job'[p].payer = row[d].payer
                            /\ job'[p].customer = d

\* A step that sends nothing about c, delivers nothing about it and leaves its row's
\* subscription keeps c on course.
LEMMA Undisturbed ==
  ASSUME IndInv, DriftInv, NEW c \in Customers, OnCourse(c),
         Pending(c)' = Pending(c), seen'[c] = seen[c], SubsOf(c)' = SubsOf(c),
         \A s \in SubsOf(c) : sub'[s] = sub[s],
         \A s \in Subs : sub[s].owner = c => sub'[s].payer = sub[s].payer,
         row'[c].sub = row[c].sub, row[c].sub # None => row'[c].payer = row[c].payer,
         Ahead(c) = {} /\ Follows(c) => Follows(c)',
         JobsKept
  PROVE  OnCourse(c)'
<1>1. Ahead(c)' = Ahead(c) /\ Ahead(c) \subseteq Pending(c) /\ Pending(c) \subseteq events
  BY DEF Ahead, Pending
<1>2. \A s, t \in SubsOf(c)' : s = t
  BY DEF OnCourse
<1>3. Paired(c)'
  <2>1. row'[c].sub # None => row'[c].payer = sub'[row'[c].sub].payer
    BY RowFacts DEF OnCourse, Paired
  <2>2. ASSUME NEW p \in Requests, job'[p].customer = c, job'[p].sub # None
        PROVE  job'[p].payer = sub'[job'[p].sub].payer
    <3>1. CASE job'[p].sub = job[p].sub /\ job'[p].payer = job[p].payer
               /\ job'[p].customer = job[p].customer
      <4>1. job[p].sub \in Subs /\ sub[job[p].sub].owner = c
        BY <2>2, <3>1, JobFacts DEF JobType
      <4> QED
        BY <2>2, <3>1, <4>1 DEF OnCourse, Paired
    <3>2. CASE job'[p].sub = row[c].sub /\ job'[p].payer = row[c].payer
      <4>1. row[c].sub \in Subs /\ sub[row[c].sub].owner = c
        BY <2>2, <3>2, RowFacts
      <4> QED
        BY <2>2, <3>2, <4>1 DEF OnCourse, Paired
    <3> QED
      BY <2>2, <3>1, <3>2 DEF JobsKept
  <2>3. ASSUME NEW f \in Ahead(c), f.type = "completed", NEW p \in Requests
        PROVE  row'[c].sub # f.sub /\ job'[p].sub # f.sub
    <3>1. f.sub # None /\ sub[f.sub].owner = c
      BY <1>1, EventFacts DEF Pending
    <3>2. row[c].sub # f.sub /\ job[p].sub # f.sub
      BY <2>3 DEF OnCourse, Paired
    <3>3. \A d \in Customers : row[d].sub = f.sub => d = c
      BY <3>1, RowFacts
    <3> QED
      BY <3>1, <3>2, <3>3 DEF JobsKept
  <2>4. \A f \in Ahead(c) : f.type = "completed" => row'[c].sub # f.sub
    BY <1>1, EventFacts DEF OnCourse, Paired
  <2> QED
    BY <1>1, <2>1, <2>2, <2>3, <2>4 DEF Paired
<1>4. ASSUME NEW e \in Pending(c), Points(c, e)
      PROVE  Points(c, e)'
  BY <1>1, <1>4, EventFacts DEF Points
<1>5. Repeats(c)'
  <2>1. ASSUME NEW e \in Pending(c), e.at = seen[c]
        PROVE  IF e.type = "deleted" THEN row'[c].sub = None ELSE Points(c, e)'
    BY <1>4, <2>1 DEF OnCourse, Repeats
  <2> QED
    BY <2>1 DEF Repeats
<1>6. ASSUME NEW e \in Pending(c), Matches(e)
      PROVE  Matches(e)'
  <2>1. e.owner = c
    BY DEF Pending
  <2>2. CASE e.type = "deleted"
    BY <1>6, <2>1, <2>2 DEF Matches
  <2>3. CASE e.type # "deleted"
    <3>1. SubsOf(c) = {e.sub} /\ sub'[e.sub] = sub[e.sub]
      BY <1>6, <2>1, <2>3 DEF Matches
    <3> QED
      BY <1>6, <2>1, <2>3, <3>1 DEF Matches
  <2> QED
    BY <2>2, <2>3
<1>7. WillFollow(c)'
  <2>1. CASE Ahead(c) = {} /\ Follows(c) /\ \A e \in Pending(c) : Matches(e)
    BY <1>1, <1>6, <2>1 DEF WillFollow
  <2>2. CASE \E e \in Ahead(c) : Matches(e) /\ \A f \in Pending(c) : f.at <= e.at
    BY <1>1, <1>6, <2>2 DEF WillFollow
  <2> QED
    BY <2>1, <2>2 DEF OnCourse, WillFollow
<1>8. ASSUME NEW e \in Ahead(c), e.type # "completed"
      PROVE  Led(e)'
  <2>1. e.owner = c /\ Led(e)
    BY <1>1, <1>8 DEF Pending, OnCourse
  <2>2. Starts(e)' = Starts(e)
    BY <1>1, <2>1 DEF Starts
  <2>3. CASE Starts(e) = {} /\ Points(c, e)
    BY <1>1, <1>4, <2>1, <2>2, <2>3 DEF Led
  <2>4. CASE \E f \in Starts(e) : f.sub = e.sub /\ \A g \in Starts(e) : g.at <= f.at
    BY <2>2, <2>4 DEF Led
  <2> QED
    BY <2>1, <2>3, <2>4 DEF Led
<1> QED
  BY <1>1, <1>2, <1>3, <1>5, <1>7, <1>8 DEF OnCourse

\* A step of a request that tells Stripe nothing.
LEMMA RequestsKeepCourse ==
  ASSUME IndInv, DriftInv, UNCHANGED <<sub, events, clock, seen>>, blurred \subseteq blurred',
         JobsKept,
         \A p \in Requests : job'[p].at <= clock,
         \A p \in Requests :
           /\ pc'[p] \in {"customer", "save", "session", "assign"} => job'[p].sub = None
           /\ pc'[p] = "write" => pc[p] = "write" /\ job'[p] = job[p],
         \A c \in Customers \ blurred' : InOrder(c) =>
           /\ row'[c].sub = row[c].sub
           /\ row[c].sub # None => row'[c].payer = row[c].payer
           /\ Ahead(c) = {} /\ Follows(c) => Follows(c)'
  PROVE  DriftInv'
<1>1. TimesSound' /\ ReportsSound'
  BY DEF DriftInv, TimesSound, ReportsSound
<1>2. \A c \in Customers : Pending(c)' = Pending(c) /\ Ahead(c)' = Ahead(c) /\ SubsOf(c)' = SubsOf(c)
  BY DEF Pending, Ahead, SubsOf, Alive
<1>3. WritesReported'
  <2>1. ASSUME NEW p \in Requests, pc'[p] = "write", job'[p].at > seen'[job'[p].customer]
        PROVE  \E e \in events' : /\ e.owner = job'[p].customer /\ e.at > seen'[job'[p].customer]
                                  /\ e.at = job'[p].at /\ e.type = "updated" /\ e.sub = job'[p].sub
    <3>1. pc[p] = "write" /\ job'[p] = job[p]
      BY <2>1
    <3> QED
      BY <2>1, <3>1 DEF DriftInv, WritesReported, Ahead, Pending
  <2> QED
    BY <2>1 DEF WritesReported, Ahead, Pending
<1>4. ASSUME NEW c \in Customers, InOrder(c)' PROVE OnCourse(c)'
  <2>1. InOrder(c) /\ c \notin blurred'
    BY <1>2, <1>4 DEF InOrder
  <2> QED
    BY <1>2, <2>1, Undisturbed DEF DriftInv
<1> QED
  BY <1>1, <1>3, <1>4 DEF DriftInv

LEMMA NoJobFacts == NoJob.sub = None /\ NoJob.at = 0 /\ NoJob.customer = None
BY DEF NoJob, JobFor

\* What a request that stops has under way.
LEMMA StoppedOnCourse ==
  ASSUME IndInv, DriftInv, NEW p \in Requests, Stop(p)
  PROVE  /\ JobsKept
         /\ \A q \in Requests :
              /\ job'[q].at <= clock
              /\ pc'[q] \in {"customer", "save", "session", "assign"} => job'[q].sub = None
              /\ pc'[q] = "write" => pc[q] = "write" /\ job'[q] = job[q]
<1>1. /\ pc'[p] = "idle" /\ job'[p] = NoJob
      /\ \A q \in Requests \ {p} : job'[q] = job[q] /\ pc'[q] = pc[q]
  BY DEF Stop, IndInv, TypeOK
<1>2. \A q \in Requests :
        /\ job[q].at <= clock
        /\ pc[q] \in {"customer", "save", "session", "assign"} => job[q].sub = None
  BY DEF DriftInv, TimesSound, WritesReported
<1>3. 0 <= clock
  BY CounterFacts
<1> QED
  BY <1>1, <1>2, <1>3, NoJobFacts DEF JobsKept

\* A request goes on, with a job that has no subscription yet or the one it had.
LEMMA MovedOnCourse ==
  ASSUME IndInv, DriftInv, NEW p \in Requests, NEW l, NEW j,
         pc' = [pc EXCEPT ![p] = l], job' = [job EXCEPT ![p] = j],
         l # "write", l \in {"customer", "save", "session", "assign"} => j.sub = None,
         j.at <= clock,
         j.sub # None => \E c \in Customers : j.customer = c /\ j.sub = row[c].sub
                                             /\ j.payer = row[c].payer
  PROVE  /\ JobsKept
         /\ \A q \in Requests :
              /\ job'[q].at <= clock
              /\ pc'[q] \in {"customer", "save", "session", "assign"} => job'[q].sub = None
              /\ pc'[q] = "write" => pc[q] = "write" /\ job'[q] = job[q]
<1>1. /\ pc'[p] = l /\ job'[p] = j
      /\ \A q \in Requests \ {p} : job'[q] = job[q] /\ pc'[q] = pc[q]
  BY DEF IndInv, TypeOK
<1>2. \A q \in Requests :
        /\ job[q].at <= clock
        /\ pc[q] \in {"customer", "save", "session", "assign"} => job[q].sub = None
  BY DEF DriftInv, TimesSound, WritesReported
<1> QED
  BY <1>1, <1>2 DEF JobsKept

\* Nothing but requests changes.
LEMMA SameRows ==
  ASSUME UNCHANGED <<row, sub, given>>
  PROVE  \A c \in Customers : Follows(c)' <=> Follows(c)
BY DEF Follows, SubsOf, Alive

LEMMA BeginOnCourse ==
  ASSUME IndInv, DriftInv, NEW p \in Requests, Begin(p)
  PROVE  DriftInv'
<1>1. PICK c \in Customers : BeginCheckout(p, c) \/ BeginAdmin(p, c)
  BY DEF Begin
<1>2. UNCHANGED <<row, sub, events, clock, seen, given, blurred>>
  BY <1>1 DEF BeginCheckout, BeginAdmin, stripe
<1>3. 0 <= clock
  BY CounterFacts
<1>4. CASE BeginCheckout(p, c)
  <2> DEFINE l == IF row[c].payer = None THEN "customer" ELSE "session"
             j == JobFor(c, row[c].payer, None)
  <2>1. pc' = [pc EXCEPT ![p] = l] /\ job' = [job EXCEPT ![p] = j]
    BY <1>4 DEF BeginCheckout, Start
  <2>2. j.sub = None /\ j.at = 0 /\ l # "write"
    BY DEF JobFor
  <2> HIDE DEF l, j
  <2>3. /\ JobsKept
        /\ \A q \in Requests :
             /\ job'[q].at <= clock
             /\ pc'[q] \in {"customer", "save", "session", "assign"} => job'[q].sub = None
             /\ pc'[q] = "write" => pc[q] = "write" /\ job'[q] = job[q]
    BY <1>3, <2>1, <2>2, MovedOnCourse
  <2> QED
    BY <1>2, <2>3, SameRows, RequestsKeepCourse
<1>5. CASE BeginAdmin(p, c)
  <2> DEFINE l == IF row[c].sub = None THEN "assign" ELSE "change"
             j == JobFor(c, row[c].payer, row[c].sub)
  <2>1. pc' = [pc EXCEPT ![p] = l] /\ job' = [job EXCEPT ![p] = j]
    BY <1>5 DEF BeginAdmin, Start
  <2>2. /\ j.customer = c /\ j.payer = row[c].payer /\ j.sub = row[c].sub /\ j.at = 0
        /\ l # "write" /\ (l \in {"customer", "save", "session", "assign"} => j.sub = None)
    BY DEF JobFor
  <2> HIDE DEF l, j
  <2>3. /\ JobsKept
        /\ \A q \in Requests :
             /\ job'[q].at <= clock
             /\ pc'[q] \in {"customer", "save", "session", "assign"} => job'[q].sub = None
             /\ pc'[q] = "write" => pc[q] = "write" /\ job'[q] = job[q]
    BY <1>3, <2>1, <2>2, MovedOnCourse
  <2> QED
    BY <1>2, <2>3, SameRows, RequestsKeepCourse
<1> QED
  BY <1>1, <1>4, <1>5

LEMMA CreateOnCourse ==
  ASSUME IndInv, DriftInv, NEW p \in Requests, CreateStripeCustomer(p)
  PROVE  DriftInv'
<1>1. PICK k \in Payers : job' = [job EXCEPT ![p].payer = k]
  BY DEF CreateStripeCustomer
<1>2. /\ pc[p] = "customer" /\ pc' = [pc EXCEPT ![p] = "save"]
      /\ UNCHANGED <<row, sub, events, clock, seen, given, blurred>>
  BY DEF CreateStripeCustomer, Goto
<1> DEFINE j == [job[p] EXCEPT !.payer = k]
<1>3. job' = [job EXCEPT ![p] = j]
  BY <1>1
<1>4. j.sub = None /\ j.at <= clock
  BY <1>2, JobFacts DEF JobType, DriftInv, WritesReported, TimesSound
<1> HIDE DEF j
<1>5. /\ JobsKept
      /\ \A q \in Requests :
           /\ job'[q].at <= clock
           /\ pc'[q] \in {"customer", "save", "session", "assign"} => job'[q].sub = None
           /\ pc'[q] = "write" => pc[q] = "write" /\ job'[q] = job[q]
  BY <1>2, <1>3, <1>4, MovedOnCourse
<1> QED
  BY <1>2, <1>5, SameRows, RequestsKeepCourse

LEMMA UnknownOnCourse ==
  ASSUME IndInv, DriftInv, NEW p \in Requests, Unknown(p)
  PROVE  DriftInv'
<1>1. pc[p] = "session" /\ UNCHANGED <<row, sub, events, clock, seen, given, blurred>>
  BY DEF Unknown, stripe
<1>2. CASE Stop(p)
  BY <1>1, <1>2, SameRows, StoppedOnCourse, RequestsKeepCourse
<1>3. CASE Goto(p, "customer") /\ job' = [job EXCEPT ![p].again = TRUE]
  <2> DEFINE j == [job[p] EXCEPT !.again = TRUE]
  <2>1. job' = [job EXCEPT ![p] = j] /\ pc' = [pc EXCEPT ![p] = "customer"]
    BY <1>3 DEF Goto
  <2>2. j.sub = None /\ j.at <= clock
    BY <1>1, JobFacts DEF JobType, DriftInv, WritesReported, TimesSound
  <2> HIDE DEF j
  <2>3. /\ JobsKept
        /\ \A q \in Requests :
             /\ job'[q].at <= clock
             /\ pc'[q] \in {"customer", "save", "session", "assign"} => job'[q].sub = None
             /\ pc'[q] = "write" => pc[q] = "write" /\ job'[q] = job[q]
    BY <2>1, <2>2, MovedOnCourse
  <2> QED
    BY <1>1, <2>3, SameRows, RequestsKeepCourse
<1> QED
  BY <1>2, <1>3 DEF Unknown

LEMMA OpenSessionOnCourse ==
  ASSUME IndInv, DriftInv, NEW p \in Requests, OpenSession(p) \/ StepFails(p)
  PROVE  DriftInv'
<1>1. Stop(p) /\ UNCHANGED <<row, sub, events, clock, seen, given, blurred>>
  BY DEF OpenSession, StepFails, stripe
<1> QED
  BY <1>1, SameRows, StoppedOnCourse, RequestsKeepCourse

\* A row without a subscription that follows Stripe has none to follow.
LEMMA NothingToFollow ==
  ASSUME IndInv, NEW c \in Customers, Follows(c), row[c].sub = None
  PROVE  SubsOf(c) = {}
<1> SUFFICES ASSUME NEW s \in SubsOf(c) PROVE FALSE
  OBVIOUS
<1>1. row[c] = [plan |-> sub[s].plan, payer |-> sub[s].payer, sub |-> s, status |-> sub[s].status]
  BY DEF Follows
<1>2. row[c].sub = s /\ s \in Subs
  BY <1>1 DEF SubsOf
<1> QED
  BY <1>2, NoneAssumption

LEMMA SaveOnCourse ==
  ASSUME IndInv, DriftInv, NEW p \in Requests, SaveStripeCustomer(p)
  PROVE  DriftInv'
<1>1. PICK c \in Customers : c = job[p].customer
  BY JobFacts DEF SaveStripeCustomer
<1>2. /\ pc[p] = "save" /\ pc' = [pc EXCEPT ![p] = "session"] /\ job' = job
      /\ row' = [row EXCEPT ![c].payer = job[p].payer]
      /\ UNCHANGED <<sub, events, clock, seen, given>>
      /\ blurred \subseteq blurred' /\ (row[c].sub # None => c \in blurred')
  BY <1>1 DEF SaveStripeCustomer, Goto, Blur, stripe
<1>3. /\ row'[c].sub = row[c].sub /\ row'[c].plan = row[c].plan
      /\ \A d \in Customers \ {c} : row'[d] = row[d]
  BY <1>2, RowFacts DEF IndInv, TypeOK, RowType
<1>4. job[p].sub = None /\ job[p].at <= clock /\ job' = [job EXCEPT ![p] = job[p]]
  BY <1>2 DEF DriftInv, WritesReported, TimesSound, IndInv, TypeOK
<1>5. /\ JobsKept
      /\ \A q \in Requests :
           /\ job'[q].at <= clock
           /\ pc'[q] \in {"customer", "save", "session", "assign"} => job'[q].sub = None
           /\ pc'[q] = "write" => pc[q] = "write" /\ job'[q] = job[q]
  BY <1>2, <1>4, MovedOnCourse
<1>6. ASSUME NEW d \in Customers \ blurred'
      PROVE  /\ row'[d].sub = row[d].sub
             /\ row[d].sub # None => row'[d].payer = row[d].payer
             /\ Follows(d) => Follows(d)'
  <2>1. CASE d # c
    BY <1>2, <1>3, <2>1 DEF Follows, SubsOf, Alive
  <2>2. CASE d = c
    <3>1. row[c].sub = None
      BY <1>2, <1>6, <2>2
    <3>2. ASSUME Follows(c) PROVE Follows(c)'
      <4>1. SubsOf(c) = {}
        BY <3>1, <3>2, NothingToFollow
      <4>2. SubsOf(c)' = {}
        BY <1>2, <4>1 DEF SubsOf, Alive
      <4> QED
        BY <1>2, <1>3, <3>2, <4>1, <4>2 DEF Follows
    <3> QED
      BY <1>3, <2>2, <3>1, <3>2
  <2> QED
    BY <2>1, <2>2
<1> QED
  BY <1>2, <1>5, <1>6, RequestsKeepCourse

LEMMA AssignOnCourse ==
  ASSUME IndInv, DriftInv, NEW p \in Requests, Assign(p)
  PROVE  DriftInv'
<1>1. PICK c \in Customers : c = job[p].customer
  BY JobFacts DEF Assign
<1>2. PICK plan \in Plans \cup {Free} :
        /\ row' = [row EXCEPT ![c].plan = plan]
        /\ given' = [given EXCEPT ![c] = given[c] \cup ({plan} \ {Free})]
  BY <1>1, GivenAssumption DEF Assign
<1>3. /\ Stop(p) /\ UNCHANGED <<sub, events, clock, seen>>
      /\ blurred \subseteq blurred' /\ (row[c].sub # None => c \in blurred')
  BY <1>1 DEF Assign, Blur, stripe
<1>4. /\ row'[c].sub = row[c].sub /\ row'[c].payer = row[c].payer
      /\ row'[c].plan = plan /\ plan \in given'[c] \cup {Free}
      /\ \A d \in Customers \ {c} : row'[d] = row[d] /\ given'[d] = given[d]
  BY <1>2, RowFacts DEF IndInv, TypeOK, RowType
<1>5. ASSUME NEW d \in Customers \ blurred'
      PROVE  /\ row'[d].sub = row[d].sub
             /\ row[d].sub # None => row'[d].payer = row[d].payer
             /\ Follows(d) => Follows(d)'
  <2>1. CASE d # c
    BY <1>3, <1>4, <2>1 DEF Follows, SubsOf, Alive
  <2>2. CASE d = c
    <3>1. row[c].sub = None
      BY <1>3, <1>5, <2>2
    <3>2. ASSUME Follows(c) PROVE Follows(c)'
      <4>1. SubsOf(c) = {}
        BY <3>1, <3>2, NothingToFollow
      <4>2. SubsOf(c)' = {}
        BY <1>3, <4>1 DEF SubsOf, Alive
      <4> QED
        BY <1>4, <3>1, <4>2 DEF Follows
    <3> QED
      BY <1>4, <2>2, <3>1, <3>2
  <2> QED
    BY <2>1, <2>2
<1> QED
  BY <1>3, <1>5, StoppedOnCourse, RequestsKeepCourse

\* An operator's change that is written before its event has come finds the row with
\* the subscription it read.
LEMMA WriteFindsRow ==
  ASSUME IndInv, DriftInv, NEW p \in Requests, pc[p] = "write",
         NEW c \in Customers, c = job[p].customer, InOrder(c), job[p].at > seen[c]
  PROVE  /\ row[c].sub = job[p].sub /\ row[c].payer = job[p].payer
         /\ Ahead(c) # {}
<1>1. PICK e \in Ahead(c) : e.type = "updated" /\ e.sub = job[p].sub
  BY DEF DriftInv, WritesReported
<1>2. OnCourse(c) /\ Led(e) /\ e.owner = c /\ e \in events
  BY <1>1 DEF DriftInv, OnCourse, Ahead, Pending
<1>3. \A f \in Starts(e) : f.sub # e.sub
  BY <1>1, <1>2 DEF OnCourse, Paired, Starts
<1>4. Points(c, e)
  BY <1>2, <1>3 DEF Led
<1>5. e.payer = job[p].payer
  <2>1. e.payer = sub[e.sub].payer /\ e.sub # None
    BY <1>2, EventFacts DEF DriftInv, ReportsSound
  <2> QED
    BY <1>1, <1>2, <2>1 DEF OnCourse, Paired
<1> QED
  BY <1>1, <1>4, <1>5 DEF Points

LEMMA WriteBackOnCourse ==
  ASSUME IndInv, DriftInv, NEW p \in Requests, WriteBack(p)
  PROVE  DriftInv'
<1>1. PICK c \in Customers : c = job[p].customer
  BY JobFacts DEF WriteBack
<1> DEFINE new == [plan |-> job[p].plan, payer |-> job[p].payer, sub |-> job[p].sub,
                   status |-> "active"]
<1>2. /\ pc[p] = "write" /\ row' = [row EXCEPT ![c] = new] /\ Stop(p)
      /\ UNCHANGED <<sub, events, clock, seen, given>>
      /\ blurred \subseteq blurred'
      /\ seen[c] >= job[p].at /\ row[c] # new => c \in blurred'
  BY <1>1 DEF WriteBack, Blur, stripe
<1>3. new.sub = job[p].sub /\ new.payer = job[p].payer
  OBVIOUS
<1> HIDE DEF new
<1>4. row'[c] = new /\ \A d \in Customers \ {c} : row'[d] = row[d]
  BY <1>2 DEF IndInv, TypeOK
<1>5. ASSUME NEW d \in Customers \ blurred', InOrder(d)
      PROVE  /\ row'[d].sub = row[d].sub
             /\ row[d].sub # None => row'[d].payer = row[d].payer
             /\ Ahead(d) = {} /\ Follows(d) => Follows(d)'
  <2>1. CASE row'[d] = row[d]
    BY <1>2, <2>1 DEF Follows, SubsOf, Alive
  <2>2. CASE d = c /\ job[p].at > seen[c]
    BY <1>1, <1>2, <1>3, <1>4, <1>5, <2>2, WriteFindsRow
  <2>3. CASE d = c /\ ~(job[p].at > seen[c])
    <3>1. row[c] = new
      BY <1>2, <1>5, <2>3, CounterFacts
    <3> QED
      BY <1>4, <2>1, <2>3, <3>1
  <2> QED
    BY <1>4, <2>1, <2>2, <2>3
<1> QED
  BY <1>2, <1>5, StoppedOnCourse, RequestsKeepCourse

-----------------------------------------------------------------------------
(* What Stripe reports.                                                    *)

\* Subscription s has become what event n says of it.
Reports(n, s) ==
  /\ events' = events \cup {n} /\ clock' = clock + 1 /\ n.at = clock + 1
  /\ s \in Subs /\ n.sub = s /\ n.owner \in Customers
  /\ sub'[s].owner = n.owner /\ sub'[s].payer = n.payer
  /\ \A x \in Subs \ {s} : sub'[x] = sub[x]
  /\ UNCHANGED <<row, seen, given>> /\ blurred \subseteq blurred'
  /\ \/ /\ n.type = "completed" /\ sub[s].status = "absent" /\ n.status = "active"
        /\ n.owner \in blurred' \/ SubsOf(n.owner) = {}
     \/ /\ n.type = "updated" /\ Alive(s) /\ sub[s].owner = n.owner /\ sub[s].payer = n.payer
     \/ /\ n.type = "deleted" /\ Alive(s) /\ sub[s].owner = n.owner /\ sub[s].payer = n.payer
        /\ sub'[s].status = "ended"
  /\ n.type # "deleted" => sub'[s].plan = n.plan /\ sub'[s].status = n.status
                           /\ n.status \in Statuses

\* The request that asked for it goes on to write it, or stops; the others do nothing.
Informs(n) ==
  \A p \in Requests :
    \/ job'[p] = job[p] /\ pc'[p] = pc[p]
    \/ job'[p] = NoJob /\ pc'[p] = "idle"
    \/ /\ n.type = "updated" /\ pc'[p] = "write"
       /\ job[p].sub = n.sub /\ job[p].customer = n.owner
       /\ job'[p].sub = job[p].sub /\ job'[p].payer = job[p].payer
       /\ job'[p].customer = job[p].customer /\ job'[p].at = n.at

LEMMA ReportFacts ==
  ASSUME IndInv, DriftInv, NEW n, NEW s, Reports(n, s), Informs(n)
  PROVE  /\ JobsKept
         /\ sub[s].owner \in {n.owner, None}
         /\ sub[s].owner = None <=> n.type = "completed"
         /\ \A e \in events : e.at < n.at /\ e.at \in Nat
         /\ n.at \in Nat /\ n \notin events
         /\ \A c \in Customers : seen[c] < n.at
<1>1. /\ clock \in Nat /\ \A e \in events : e.at <= clock /\ e.at \in Nat
      /\ \A c \in Customers : seen[c] <= clock /\ seen[c] \in Nat
  BY CounterFacts, EventFacts DEF DriftInv, TimesSound
<1>2. JobsKept
  BY NoJobFacts DEF Informs, JobsKept
<1>3. s \in Subs /\ n.owner \in Customers /\ n.owner # None
  BY NoneAssumption DEF Reports
<1>4. sub[s].status = "absent" => sub[s].owner = None
  BY <1>3 DEF IndInv, SubsSound
<1> QED
  BY <1>1, <1>2, <1>3, <1>4 DEF Reports

LEMMA ReportSound ==
  ASSUME IndInv, DriftInv, NEW n, NEW s, Reports(n, s), Informs(n)
  PROVE  TimesSound' /\ ReportsSound' /\ WritesReported'
<1>1. /\ events' = events \cup {n} /\ clock' = clock + 1 /\ n.at = clock + 1 /\ seen' = seen
      /\ n.sub = s /\ n.owner \in Customers /\ clock \in Nat
  BY CounterFacts DEF Reports
<1>2. TimesSound'
  <2>1. \A e \in events' : e.at <= clock' /\ \A f \in events' : e.at = f.at => e = f
    BY <1>1, ReportFacts DEF DriftInv, TimesSound
  <2>2. \A c \in Customers : seen'[c] <= clock'
    BY <1>1, CounterFacts DEF DriftInv, TimesSound
  <2>3. \A p \in Requests : job'[p].at <= clock'
    BY <1>1, CounterFacts, NoJobFacts DEF DriftInv, TimesSound, Informs
  <2> QED
    BY <2>1, <2>2, <2>3 DEF TimesSound
<1>3. ASSUME NEW e \in events
      PROVE  /\ e.payer = sub'[e.sub].payer
             /\ e.type = "completed" => e.status = "active" /\ (e.sub # s \/ n.type # "completed")
             /\ e.type = "deleted" => sub'[e.sub].status = "ended" /\ e.sub # s
  <2>1. /\ e.sub \in Subs /\ sub[e.sub].owner = e.owner /\ e.owner # None
        /\ e.payer = sub[e.sub].payer
        /\ e.type = "completed" => e.status = "active"
        /\ e.type = "deleted" => sub[e.sub].status = "ended"
    BY EventFacts, NoneAssumption DEF DriftInv, ReportsSound
  <2>2. e.sub = s => n.type # "completed" /\ Alive(s) /\ sub'[s].payer = sub[s].payer
    BY <2>1, ReportFacts DEF Reports
  <2>3. Alive(s) => sub[s].status # "ended"
    BY DEF Alive, Statuses
  <2> QED
    BY <2>1, <2>2, <2>3 DEF Reports
<1>4. ReportsSound'
  <2>1. ASSUME NEW e \in events
        PROVE  /\ e.payer = sub'[e.sub].payer
               /\ e.type = "completed" =>
                    /\ e.status = "active"
                    /\ \A f \in events' : f.type = "completed" /\ f.sub = e.sub => f = e
               /\ e.type = "deleted" =>
                    sub'[e.sub].status = "ended" /\ \A f \in events' : f.sub = e.sub => f.at <= e.at
    BY <1>1, <1>3 DEF DriftInv, ReportsSound
  <2>2. /\ n.payer = sub'[n.sub].payer
        /\ n.type = "completed" => n.status = "active"
        /\ n.type = "deleted" => sub'[n.sub].status = "ended"
    BY <1>1 DEF Reports
  <2>3. n.type = "completed" => \A f \in events' : f.type = "completed" /\ f.sub = n.sub => f = n
    BY <1>1, <1>3
  <2>4. \A f \in events' : f.at <= n.at
    BY <1>1, ReportFacts
  <2> QED
    BY <1>1, <2>1, <2>2, <2>3, <2>4 DEF ReportsSound
<1>5. WritesReported'
  <2> SUFFICES ASSUME NEW p \in Requests
               PROVE  /\ pc'[p] \in {"customer", "save", "session", "assign"} => job'[p].sub = None
                      /\ pc'[p] = "write" /\ job'[p].at > seen'[job'[p].customer] =>
                           \E e \in events' :
                             /\ e.owner = job'[p].customer /\ e.at > seen'[job'[p].customer]
                             /\ e.at = job'[p].at /\ e.type = "updated" /\ e.sub = job'[p].sub
    BY DEF WritesReported, Ahead, Pending
  <2>1. CASE job'[p] = job[p] /\ pc'[p] = pc[p]
    BY <1>1, <2>1 DEF DriftInv, WritesReported, Ahead, Pending
  <2>2. CASE job'[p] = NoJob /\ pc'[p] = "idle"
    BY <2>2
  <2>3. CASE n.type = "updated" /\ pc'[p] = "write" /\ job[p].sub = n.sub
             /\ job[p].customer = n.owner /\ job'[p].sub = job[p].sub
             /\ job'[p].customer = job[p].customer /\ job'[p].at = n.at
    BY <1>1, <2>3
  <2> QED
    BY <2>1, <2>2, <2>3 DEF Informs
<1> QED
  BY <1>2, <1>4, <1>5

\* Those whom the report is not about.
LEMMA ReportElsewhere ==
  ASSUME IndInv, DriftInv, NEW n, NEW s, Reports(n, s), Informs(n),
         NEW c \in Customers, c # n.owner, OnCourse(c)
  PROVE  OnCourse(c)'
<1>1. sub[s].owner # c /\ sub'[s].owner # c /\ JobsKept
  BY ReportFacts, NoneAssumption DEF Reports
<1>2. \A x \in Subs : x # s => sub'[x] = sub[x]
  BY DEF Reports
<1>3. SubsOf(c)' = SubsOf(c) /\ \A x \in SubsOf(c) : sub'[x] = sub[x]
  BY <1>1, <1>2 DEF SubsOf, Alive
<1>4. Pending(c)' = Pending(c) /\ row' = row /\ seen' = seen /\ given' = given
  BY DEF Reports, Pending
<1>5. Follows(c) => Follows(c)'
  BY <1>3, <1>4 DEF Follows
<1>6. \A x \in Subs : sub[x].owner = c => sub'[x].payer = sub[x].payer
  BY <1>1, <1>2
<1> QED
  BY <1>1, <1>3, <1>4, <1>5, <1>6, Undisturbed

LEMMA ReportOnCourse ==
  ASSUME IndInv, DriftInv, NEW n, NEW s, Reports(n, s), Informs(n),
         NEW c \in Customers, c = n.owner, c \notin blurred', OnCourse(c)
  PROVE  OnCourse(c)'
<1>1. /\ events' = events \cup {n} /\ row' = row /\ seen' = seen /\ n.sub = s /\ s \in Subs
      /\ \A x \in Subs \ {s} : sub'[x] = sub[x]
      /\ sub'[s].owner = c /\ sub'[s].payer = n.payer
  BY DEF Reports
<1>2. /\ Pending(c)' = Pending(c) \cup {n} /\ Ahead(c)' = Ahead(c) \cup {n}
      /\ Pending(c) \subseteq events /\ Ahead(c) \subseteq Pending(c)
  BY <1>1, ReportFacts DEF Pending, Ahead
<1>3. n.type # "deleted" => SubsOf(c)' = {s}
  <2> SUFFICES ASSUME n.type # "deleted" PROVE SubsOf(c)' = {s}
    OBVIOUS
  <2>1. sub'[s].status \in Statuses
    BY DEF Reports
  <2>2. SubsOf(c) \subseteq {s}
    <3>1. CASE n.type = "completed"
      BY <3>1 DEF Reports
    <3>2. CASE n.type = "updated"
      BY <1>1, <3>2 DEF Reports, OnCourse, SubsOf
    <3> QED
      BY <3>1, <3>2 DEF Reports
  <2> QED
    BY <1>1, <2>1, <2>2 DEF SubsOf, Alive
<1>4. n.type = "deleted" => SubsOf(c)' = {}
  <2> SUFFICES ASSUME n.type = "deleted" PROVE SubsOf(c)' = {}
    OBVIOUS
  <2>1. s \in SubsOf(c) /\ sub'[s].status \notin Statuses
    BY DEF Reports, SubsOf, Statuses
  <2>2. SubsOf(c) = {s}
    BY <2>1 DEF OnCourse
  <2> QED
    BY <1>1, <2>1, <2>2 DEF SubsOf, Alive
<1>5. \A x, y \in SubsOf(c)' : x = y
  BY <1>3, <1>4
<1>6. \A x \in Subs : sub[x].owner = c => sub'[x].payer = sub[x].payer
  BY <1>1, ReportFacts, NoneAssumption DEF Reports
<1>7. Paired(c)'
  <2>1. row'[c].sub # None => row'[c].payer = sub'[row'[c].sub].payer
    BY <1>1, <1>6, RowFacts DEF OnCourse, Paired
  <2>2. ASSUME NEW p \in Requests, job'[p].customer = c, job'[p].sub # None
        PROVE  job'[p].payer = sub'[job'[p].sub].payer
    <3>1. job'[p].sub = job[p].sub /\ job'[p].payer = job[p].payer /\ job[p].customer = c
      BY <2>2, NoJobFacts DEF Informs
    <3>2. job[p].sub \in Subs /\ sub[job[p].sub].owner = c
      BY <2>2, <3>1, JobFacts DEF JobType
    <3> QED
      BY <1>6, <2>2, <3>1, <3>2 DEF OnCourse, Paired
  <2>3. ASSUME NEW f \in Ahead(c)', f.type = "completed"
        PROVE  row'[c].sub # f.sub /\ \A p \in Requests : job'[p].sub # f.sub
    <3>1. f.sub # None /\ row[c].sub # f.sub /\ \A p \in Requests : job[p].sub # f.sub
      <4>1. CASE f \in Ahead(c)
        BY <1>2, <2>3, <4>1, EventFacts DEF OnCourse, Paired
      <4>2. CASE f = n
        <5>1. sub[s].owner = None /\ s # None
          BY <1>1, <2>3, <4>2, ReportFacts, NoneAssumption
        <5>2. ASSUME NEW p \in Requests, job[p].sub = s PROVE FALSE
          <6>1. pc[p] # "idle"
            BY <5>1, <5>2, JobFacts, NoJobFacts
          <6> QED
            BY <5>1, <5>2, <6>1, JobFacts, NoneAssumption
        <5> QED
          BY <1>1, <4>2, <5>1, <5>2, RowFacts, NoneAssumption
      <4> QED
        BY <1>2, <4>1, <4>2
    <3> QED
      BY <1>1, <3>1, NoJobFacts DEF Informs
  <2> QED
    BY <2>1, <2>2, <2>3 DEF Paired
<1>8. ASSUME NEW e \in Pending(c), Points(c, e)
      PROVE  Points(c, e)'
  BY <1>1, <1>8 DEF Points
<1>9. Repeats(c)'
  <2>1. ASSUME NEW e \in Pending(c)', e.at = seen[c]
        PROVE  IF e.type = "deleted" THEN row'[c].sub = None ELSE Points(c, e)'
    <3>1. e \in Pending(c)
      BY <1>2, <2>1, ReportFacts, CounterFacts
    <3> QED
      BY <1>1, <1>8, <2>1, <3>1 DEF OnCourse, Repeats
  <2> QED
    BY <1>1, <2>1 DEF Repeats
<1>10. WillFollow(c)'
  <2>1. Matches(n)'
    BY <1>1, <1>3, <1>4 DEF Matches, Reports
  <2>2. \A f \in Pending(c)' : f.at <= n.at
    BY <1>2, ReportFacts
  <2> QED
    BY <1>2, <2>1, <2>2 DEF WillFollow
<1>11. \A e \in Pending(c) : Starts(e)' = Starts(e)
  <2> TAKE e \in Pending(c)
  <2>1. e.owner = c /\ ~(n.at < e.at)
    BY <1>2, ReportFacts DEF Pending
  <2> QED
    BY <1>2, <2>1 DEF Starts
<1>12. ASSUME NEW e \in Ahead(c), e.type # "completed"
       PROVE  Led(e)'
  <2>1. e \in Pending(c) /\ e.owner = c /\ Led(e) /\ Starts(e)' = Starts(e)
    BY <1>2, <1>11, <1>12 DEF Pending, OnCourse
  <2>2. CASE Starts(e) = {} /\ Points(c, e)
    BY <1>8, <2>1, <2>2 DEF Led
  <2>3. CASE \E f \in Starts(e) : f.sub = e.sub /\ \A g \in Starts(e) : g.at <= f.at
    BY <2>1, <2>3 DEF Led
  <2> QED
    BY <2>1, <2>2, <2>3 DEF Led
<1>13. ASSUME n.type # "completed"
       PROVE  Led(n)'
  <2>1. Starts(n)' = {f \in Ahead(c) : f.type = "completed"}
    BY <1>2, <1>13, ReportFacts DEF Starts
  <2>2. s \in SubsOf(c) /\ sub[s].payer = n.payer
    BY <1>13 DEF Reports, SubsOf
  <2>3. CASE Ahead(c) = {} /\ Follows(c)
    <3>1. row[c] = [plan |-> sub[s].plan, payer |-> sub[s].payer, sub |-> s,
                    status |-> sub[s].status]
      BY <2>2, <2>3 DEF Follows
    <3>2. row'[c].sub = n.sub /\ row'[c].payer = n.payer
      BY <1>1, <2>2, <3>1
    <3> QED
      BY <2>1, <2>3, <3>2 DEF Led, Points
  <2>4. ASSUME NEW e \in Ahead(c), Matches(e), \A f \in Pending(c) : f.at <= e.at
        PROVE  Led(n)'
    <3>1. e.owner = c /\ e \in events
      BY <1>2 DEF Pending
    <3>2. e.type # "deleted" /\ e.sub = s
      BY <2>2, <2>4, <3>1 DEF Matches
    <3>3. CASE e.type = "completed"
      <4>1. e \in Starts(n)' /\ \A g \in Starts(n)' : g.at <= e.at
        BY <1>2, <2>1, <2>4, <3>3
      <4> QED
        BY <1>1, <3>2, <4>1 DEF Led
    <3>4. CASE e.type = "updated"
      <4>1. Starts(e) = Starts(n)'
        <5>1. ASSUME NEW f \in Ahead(c), f.type = "completed" PROVE f.at < e.at
          <6>1. f.at <= e.at /\ f # e /\ f \in events /\ f.at \in Nat /\ e.at \in Nat
            BY <1>2, <2>4, <3>4, <5>1, ReportFacts
          <6>2. f.at # e.at
            BY <1>2, <6>1 DEF DriftInv, TimesSound
          <6> QED
            BY <6>1, <6>2
        <5> QED
          BY <2>1, <3>1, <5>1 DEF Starts
      <4>2. Led(e) /\ e.payer = n.payer
        BY <2>2, <2>4, <3>1, <3>2, <3>4 DEF OnCourse, DriftInv, ReportsSound
      <4>3. CASE Starts(e) = {} /\ Points(c, e)
        BY <1>1, <3>2, <4>1, <4>2, <4>3 DEF Led, Points
      <4>4. CASE \E f \in Starts(e) : f.sub = e.sub /\ \A g \in Starts(e) : g.at <= f.at
        BY <1>1, <3>2, <4>1, <4>4 DEF Led
      <4> QED
        BY <3>1, <4>2, <4>3, <4>4 DEF Led
    <3> QED
      BY <3>1, <3>2, <3>3, <3>4, EventFacts
  <2> QED
    BY <2>3, <2>4 DEF OnCourse, WillFollow
<1> QED
  BY <1>2, <1>5, <1>7, <1>9, <1>10, <1>12, <1>13 DEF OnCourse

LEMMA ReportsKeepCourse ==
  ASSUME IndInv, DriftInv, NEW n, NEW s, Reports(n, s), Informs(n)
  PROVE  DriftInv'
<1>1. ASSUME NEW c \in Customers, InOrder(c)' PROVE OnCourse(c)'
  <2>1. events \subseteq events' /\ seen' = seen /\ blurred \subseteq blurred'
    BY DEF Reports
  <2>2. OnCourse(c) /\ c \notin blurred'
    BY <1>1, <2>1 DEF DriftInv, InOrder, Pending
  <2> QED
    BY <2>2, ReportElsewhere, ReportOnCourse
<1> QED
  BY <1>1, ReportSound DEF DriftInv

\* The event that Send adds.
LEMMA SentEvent ==
  ASSUME NEW type, NEW s, NEW t, Send(type, s, t)
  PROVE  \E n : /\ n.type = type /\ n.payer = t.payer /\ n.sub = s /\ n.owner = t.owner
                /\ n.plan = t.plan /\ n.status = t.status /\ n.at = clock + 1
                /\ events' = events \cup {n} /\ clock' = clock + 1
<1> DEFINE new == [type |-> type, payer |-> t.payer, sub |-> s, owner |-> t.owner,
                   plan |-> t.plan, status |-> t.status, at |-> clock + 1]
<1>1. /\ new.type = type /\ new.payer = t.payer /\ new.sub = s /\ new.owner = t.owner
      /\ new.plan = t.plan /\ new.status = t.status /\ new.at = clock + 1
      /\ events' = events \cup {new} /\ clock' = clock + 1
  BY DEF Send
<1> HIDE DEF new
<1> QED
  BY <1>1

LEMMA AlterReports ==
  ASSUME IndInv, NEW s, NEW plan \in Plans, NEW status \in Statuses, Alter(s, plan, status),
         UNCHANGED <<row, seen, given, blurred>>
  PROVE  \E n : n.type = "updated" /\ n.at = clock' /\ n.owner = sub[s].owner /\ Reports(n, s)
<1> DEFINE t == [sub[s] EXCEPT !.plan = plan, !.status = status]
<1>1. s \in Subs /\ Alive(s)
  BY DEF Alter, Alive
<1>2. sub' = [sub EXCEPT ![s] = t] /\ Send("updated", s, t)
  <2>1. [sub EXCEPT ![s].plan = plan, ![s].status = status] = [sub EXCEPT ![s] = t]
    BY <1>1 DEF IndInv, TypeOK
  <2> QED
    BY <2>1 DEF Alter
<1>3. /\ t.owner = sub[s].owner /\ t.payer = sub[s].payer /\ t.plan = plan /\ t.status = status
  BY <1>1, SubFacts DEF SubType
<1> HIDE DEF t
<1>4. sub'[s] = t /\ \A x \in Subs \ {s} : sub'[x] = sub[x]
  BY <1>1, <1>2 DEF IndInv, TypeOK
<1>5. PICK n : /\ n.type = "updated" /\ n.payer = t.payer /\ n.sub = s /\ n.owner = t.owner
               /\ n.plan = t.plan /\ n.status = t.status /\ n.at = clock + 1
               /\ events' = events \cup {n} /\ clock' = clock + 1
  BY <1>2, SentEvent
<1> QED
  BY <1>1, <1>3, <1>4, <1>5, SubFacts DEF Reports

LEMMA PayOnCourse ==
  ASSUME IndInv, DriftInv, NEW x \in session, NEW s \in Subs, Pay(x, s)
  PROVE  DriftInv'
<1> DEFINE new == [status |-> "active", payer |-> x.payer, owner |-> x.owner, plan |-> x.plan]
<1>1. /\ sub[s].status = "absent"
      /\ sub' = [sub EXCEPT ![s] = new] /\ Send("completed", s, new)
      /\ UNCHANGED <<row, pc, job, seen, given>> /\ blurred \subseteq blurred'
      /\ x.owner \in blurred' \/ SubsOf(x.owner) = {}
  BY DEF Pay, Blur
<1>2. x.owner \in Customers
  BY DEF IndInv, TypeOK
<1>3. /\ new.status = "active" /\ new.payer = x.payer /\ new.owner = x.owner /\ new.plan = x.plan
  OBVIOUS
<1> HIDE DEF new
<1>4. sub'[s] = new /\ \A y \in Subs \ {s} : sub'[y] = sub[y]
  BY <1>1 DEF IndInv, TypeOK
<1>5. PICK n : /\ n.type = "completed" /\ n.payer = new.payer /\ n.sub = s /\ n.owner = new.owner
               /\ n.plan = new.plan /\ n.status = new.status /\ n.at = clock + 1
               /\ events' = events \cup {n} /\ clock' = clock + 1
  BY <1>1, SentEvent
<1>6. Reports(n, s)
  BY <1>1, <1>2, <1>3, <1>4, <1>5 DEF Reports, Statuses
<1>7. Informs(n)
  BY <1>1 DEF Informs
<1> QED
  BY <1>6, <1>7, ReportsKeepCourse

LEMMA ChangeOnCourse ==
  ASSUME IndInv, DriftInv, NEW s \in Subs, NEW plan \in Plans, NEW status \in Statuses,
         Change(s, plan, status)
  PROVE  DriftInv'
<1>1. PICK n : Reports(n, s)
  BY AlterReports DEF Change
<1>2. Informs(n)
  BY DEF Change, Informs
<1> QED
  BY <1>1, <1>2, ReportsKeepCourse

LEMMA EndOnCourse ==
  ASSUME IndInv, DriftInv, NEW s \in Subs, End(s)
  PROVE  DriftInv'
<1>1. /\ Alive(s) /\ sub' = [sub EXCEPT ![s].status = "ended"] /\ Send("deleted", s, sub[s])
      /\ UNCHANGED <<row, pc, job, seen, given, blurred>>
  BY DEF End
<1>2. /\ \A x \in Subs \ {s} : sub'[x] = sub[x]
      /\ sub'[s].status = "ended" /\ sub'[s].owner = sub[s].owner /\ sub'[s].payer = sub[s].payer
  BY <1>1, SubFacts DEF IndInv, TypeOK, SubType
<1>3. PICK n : /\ n.type = "deleted" /\ n.payer = sub[s].payer /\ n.sub = s
               /\ n.owner = sub[s].owner /\ n.at = clock + 1
               /\ events' = events \cup {n} /\ clock' = clock + 1
  BY <1>1, SentEvent
<1>4. Reports(n, s)
  BY <1>1, <1>2, <1>3, SubFacts DEF Reports
<1>5. Informs(n)
  BY <1>1 DEF Informs
<1> QED
  BY <1>4, <1>5, ReportsKeepCourse

LEMMA ChangeAtStripeOnCourse ==
  ASSUME IndInv, DriftInv, NEW p \in Requests, ChangeAtStripe(p)
  PROVE  DriftInv'
<1>1. pc[p] = "change" /\ UNCHANGED <<row, seen, given, blurred>>
  BY DEF ChangeAtStripe
<1>2. CASE Stop(p) /\ UNCHANGED <<sub, events, clock, bought>>
  BY <1>1, <1>2, SameRows, StoppedOnCourse, RequestsKeepCourse
<1>3. ASSUME NEW plan \in Plans, Alter(job[p].sub, plan, sub[job[p].sub].status),
             GoOn(p, plan) \/ Stop(p)
      PROVE  DriftInv'
  <2>1. PICK s \in Subs : s = job[p].sub /\ sub[s].status \in Statuses
    BY <1>3 DEF Alter, Alive
  <2>2. PICK n : n.type = "updated" /\ n.at = clock' /\ n.owner = sub[s].owner /\ Reports(n, s)
    BY <1>1, <1>3, <2>1, AlterReports
  <2>3. n.sub = s /\ n.owner = job[p].customer
    BY <1>1, <2>1, <2>2, JobFacts, NoneAssumption DEF Reports
  <2>4. Informs(n)
    <3>1. CASE Stop(p)
      <4>1. \A q \in Requests : IF q = p THEN pc'[q] = "idle" /\ job'[q] = NoJob
                                ELSE job'[q] = job[q] /\ pc'[q] = pc[q]
        BY <3>1 DEF Stop, IndInv, TypeOK
      <4> QED
        BY <4>1 DEF Informs
    <3>2. CASE GoOn(p, plan)
      <4>1. /\ pc' = [pc EXCEPT ![p] = "write"]
            /\ job' = [job EXCEPT ![p].plan = plan, ![p].at = clock']
        BY <3>2 DEF GoOn, Goto
      <4>2. job[p] \in JobType
        BY JobFacts
      <4>3. /\ pc'[p] = "write" /\ job'[p].customer = job[p].customer /\ job'[p].sub = job[p].sub
            /\ job'[p].payer = job[p].payer /\ job'[p].at = clock'
            /\ \A q \in Requests \ {p} : job'[q] = job[q] /\ pc'[q] = pc[q]
        BY <4>1, <4>2 DEF IndInv, TypeOK, JobType
      <4> QED
        BY <2>1, <2>2, <2>3, <4>3 DEF Informs
    <3> QED
      BY <1>3, <3>1, <3>2
  <2> QED
    BY <2>2, <2>4, ReportsKeepCourse
<1> QED
  BY <1>2, <1>3 DEF ChangeAtStripe

-----------------------------------------------------------------------------
(* What the webhook makes of an event.                                     *)

\* What delivering e leaves alone.
LEMMA DeliverFacts ==
  ASSUME IndInv, NEW e \in events, NEW again \in BOOLEAN, NEW known \in BOOLEAN,
         NEW done \in BOOLEAN, Deliver(e, again, known, done)
  PROVE  /\ UNCHANGED <<sub, clock, pc, job, given>> /\ JobsKept
         /\ events' \subseteq events /\ \A f \in events : f # e => f \in events'
         /\ blurred \subseteq blurred'
         /\ ~done \/ ~known \/ e.at < seen[e.owner] => e.owner \in blurred'
         /\ \A d \in Customers : d # e.owner => seen'[d] = seen[d] /\ row'[d] = row[d]
         /\ seen'[e.owner] = IF seen[e.owner] < e.at THEN e.at ELSE seen[e.owner]
<1>1. /\ events' = events \/ events' = events \ {e}
      /\ blurred' = IF ~done \/ ~known \/ e.at < seen[e.owner]
                      THEN blurred \cup {e.owner} ELSE blurred
      /\ seen' = [seen EXCEPT ![e.owner] = IF seen[e.owner] < e.at THEN e.at ELSE seen[e.owner]]
      /\ UNCHANGED <<sub, clock, pc, job, given>>
  BY DEF Deliver, Blur
<1>2. JobsKept
  BY <1>1 DEF JobsKept
<1>3. \A d \in Customers : seen'[d] = IF d = e.owner
                             THEN IF seen[e.owner] < e.at THEN e.at ELSE seen[e.owner]
                             ELSE seen[d]
  BY <1>1, EventFacts DEF IndInv, TypeOK
<1>4. ASSUME NEW d \in Customers, d # e.owner PROVE row'[d] = row[d]
  <2>1. row[d].payer # e.payer
    BY <1>4, EventFacts, RowFacts, NoneAssumption
  <2>2. \/ row' = row \/ row' = Completed(e) \/ row' = Updated(e, known) \/ row' = Deleted(e)
    BY EventFacts DEF Deliver
  <2> QED
    BY <1>4, <2>1, <2>2 DEF Completed, Updated, Deleted
<1> QED
  BY <1>1, <1>2, <1>3, <1>4, EventFacts

\* Due in order, an event finds the row by its Stripe customer.
LEMMA DeliveredRow ==
  ASSUME IndInv, DriftInv, NEW e \in events, NEW again \in BOOLEAN, NEW known \in BOOLEAN,
         NEW done \in BOOLEAN, Deliver(e, again, known, done), done, known,
         NEW c \in Customers, c = e.owner, OnCourse(c), e.at >= seen[c],
         \A f \in Pending(c) : f.at >= e.at
  PROVE  /\ e.at > seen[c] /\ e.type # "completed" => Points(c, e)
         /\ e.type # "deleted" => row'[c] = [plan |-> e.plan, payer |-> e.payer,
                                             sub |-> e.sub, status |-> e.status]
         /\ e.type = "deleted" => /\ row'[c].sub = None
                                  /\ row'[c].plan = Free \/ (row'[c] = row[c] /\ e.at = seen[c])
<1>1. e \in Pending(c) /\ row[c] \in RowType /\ e.at \in Nat /\ seen[c] \in Nat
  BY EventFacts, RowFacts, CounterFacts DEF Pending
<1>2. ASSUME e.at > seen[c], e.type # "completed"
      PROVE  Points(c, e)
  <2>1. e \in Ahead(c)
    BY <1>1, <1>2 DEF Ahead
  <2>2. Starts(e) = {}
    <3> SUFFICES ASSUME NEW f \in Starts(e) PROVE FALSE
      OBVIOUS
    <3>1. f \in Pending(c) /\ f.at < e.at /\ f.at \in Nat
      BY EventFacts DEF Starts, Ahead, Pending
    <3> QED
      BY <1>1, <3>1
  <2> QED
    BY <1>2, <2>1, <2>2 DEF OnCourse, Led
<1>3. e.type = "updated" => Points(c, e)
  BY <1>1, <1>2 DEF OnCourse, Repeats
<1>4. CASE e.type = "completed"
  <2>1. row' = Completed(e) /\ e.status = "active"
    BY <1>4 DEF Deliver, DriftInv, ReportsSound
  <2> QED
    BY <1>4, <2>1 DEF Completed
<1>5. CASE e.type = "updated"
  <2>1. row' = Updated(e, known) /\ row[c].payer = e.payer
    BY <1>3, <1>5 DEF Deliver, Points
  <2>2. row'[c] = [row[c] EXCEPT !.plan = e.plan, !.sub = e.sub, !.status = e.status]
    BY <2>1 DEF Updated
  <2>3. row'[c] = [plan |-> e.plan, payer |-> e.payer, sub |-> e.sub, status |-> e.status]
    BY <1>1, <2>1, <2>2 DEF RowType
  <2> QED
    BY <1>2, <1>5, <2>3
<1>6. CASE e.type = "deleted"
  <2>1. row' = Deleted(e)
    BY <1>6 DEF Deliver
  <2>2. CASE row[c].payer = e.payer
    <3>1. row'[c] = [row[c] EXCEPT !.plan = Free, !.sub = None, !.status = "none"]
      BY <2>1, <2>2 DEF Deleted
    <3>2. row'[c].sub = None /\ row'[c].plan = Free
      BY <1>1, <3>1 DEF RowType
    <3> QED
      BY <1>2, <1>6, <3>2
  <2>3. CASE row[c].payer # e.payer
    <3>1. row'[c] = row[c]
      BY <2>1, <2>3 DEF Deleted
    <3>2. e.at = seen[c]
      BY <1>1, <1>2, <1>6, <2>3 DEF Points
    <3>3. row[c].sub = None
      BY <1>1, <1>6, <3>2 DEF OnCourse, Repeats
    <3> QED
      BY <1>1, <1>6, <3>1, <3>2, <3>3
  <2> QED
    BY <2>2, <2>3
<1>7. e.type = "completed" \/ e.type = "updated" \/ e.type = "deleted"
  BY EventFacts
<1> QED
  BY <1>4, <1>5, <1>6, <1>7

LEMMA DeliverOwner ==
  ASSUME IndInv, DriftInv, NEW e \in events, NEW again \in BOOLEAN, NEW known \in BOOLEAN,
         NEW done \in BOOLEAN, Deliver(e, again, known, done),
         NEW c \in Customers, c = e.owner, InOrder(c)'
  PROVE  OnCourse(c)'
<1>1. /\ UNCHANGED <<sub, clock, pc, job, given>>
      /\ events' \subseteq events /\ \A f \in events : f # e => f \in events'
      /\ seen'[c] = IF seen[c] < e.at THEN e.at ELSE seen[c]
      /\ seen[c] \in Nat /\ \A f \in events : f.at \in Nat
  BY DeliverFacts, CounterFacts, EventFacts
<1>2. done /\ known /\ e.at >= seen[c] /\ c \notin blurred
  BY <1>1, DeliverFacts DEF InOrder
<1>3. seen'[c] = e.at
  BY <1>1, <1>2
<1>4. /\ Pending(c) \subseteq events /\ e \in Pending(c) /\ Pending(c)' \subseteq Pending(c)
      /\ \A f \in Pending(c) : f # e => f \in Pending(c)'
  BY <1>1 DEF Pending
<1>5. \A f \in Pending(c) : f.at >= e.at
  <2>1. \A f \in Pending(c)' : f.at >= e.at
    BY <1>3 DEF InOrder
  <2> QED
    BY <1>1, <1>4, <2>1
<1>6. \A f \in Pending(c) : f # e => f.at > e.at
  BY <1>1, <1>4, <1>5 DEF DriftInv, TimesSound
<1>7. OnCourse(c)
  BY <1>1, <1>2, <1>4, <1>5 DEF DriftInv, InOrder
<1>8. /\ e.at > seen[c] /\ e.type # "completed" => Points(c, e)
      /\ e.type # "deleted" => row'[c] = [plan |-> e.plan, payer |-> e.payer,
                                          sub |-> e.sub, status |-> e.status]
      /\ e.type = "deleted" => /\ row'[c].sub = None
                               /\ row'[c].plan = Free \/ (row'[c] = row[c] /\ e.at = seen[c])
  BY <1>2, <1>5, <1>7, DeliveredRow
<1>9. e.type # "deleted" => row'[c].sub = e.sub /\ row'[c].payer = e.payer
  BY <1>8
<1>10. e.payer = sub[e.sub].payer /\ e.sub # None
  BY EventFacts DEF DriftInv, ReportsSound
<1>11. Ahead(c)' = {f \in Pending(c) : f # e} /\ Ahead(c)' \subseteq Ahead(c)
  <2>1. Ahead(c)' = {f \in Pending(c)' : f.at > e.at}
    BY <1>3 DEF Ahead
  <2>2. \A f \in Pending(c)' : f.at > e.at <=> f # e
    BY <1>1, <1>4, <1>6
  <2>3. Ahead(c)' = {f \in Pending(c) : f # e}
    BY <1>4, <2>1, <2>2
  <2> QED
    BY <1>1, <1>2, <1>4, <1>6, <2>3 DEF Ahead
<1>12. SubsOf(c)' = SubsOf(c) /\ \A s, t \in SubsOf(c)' : s = t
  BY <1>1, <1>7 DEF SubsOf, Alive, OnCourse
<1>13. ASSUME e.at = seen[c], e.type # "deleted" PROVE Points(c, e)
  BY <1>4, <1>7, <1>13 DEF OnCourse, Repeats
<1>14. e.type = "updated" => Points(c, e)
  BY <1>1, <1>2, <1>8, <1>13
<1>15. Paired(c)'
  <2>1. row'[c].sub # None => row'[c].payer = sub'[row'[c].sub].payer
    BY <1>1, <1>8, <1>9, <1>10
  <2>2. \A p \in Requests : job'[p].customer = c /\ job'[p].sub # None =>
          job'[p].payer = sub'[job'[p].sub].payer
    BY <1>1, <1>7 DEF OnCourse, Paired
  <2>3. ASSUME NEW f \in Ahead(c)', f.type = "completed"
        PROVE  row'[c].sub # f.sub /\ \A p \in Requests : job'[p].sub # f.sub
    <3>1. f \in Ahead(c) /\ f # e /\ f \in events /\ f.sub # None
      BY <1>4, <1>11, EventFacts
    <3>2. row[c].sub # f.sub /\ \A p \in Requests : job[p].sub # f.sub
      BY <1>7, <2>3, <3>1 DEF OnCourse, Paired
    <3>3. e.type = "completed" => e.sub # f.sub
      BY <2>3, <3>1 DEF DriftInv, ReportsSound
    <3>4. e.type = "updated" => e.sub = row[c].sub
      BY <1>14 DEF Points
    <3> QED
      BY <1>1, <1>8, <1>9, <3>1, <3>2, <3>3, <3>4, EventFacts
  <2> QED
    BY <2>1, <2>2, <2>3 DEF Paired
<1>16. Repeats(c)'
  <2>1. \A f \in Pending(c)' : f.at = seen'[c] => f = e
    BY <1>1, <1>3, <1>4, <1>6
  <2>2. e.type # "deleted" => Points(c, e)'
    BY <1>9 DEF Points
  <2>3. IF e.type = "deleted" THEN row'[c].sub = None ELSE Points(c, e)'
    BY <1>8, <2>2
  <2> QED
    BY <2>1, <2>3 DEF Repeats
<1>17. \A f \in events : f.owner = c /\ Matches(f) => Matches(f)'
  BY <1>1, <1>12 DEF Matches
<1>18. ASSUME Matches(e), Ahead(c)' = {}, e.at > seen[c] \/ Follows(c)
       PROVE  WillFollow(c)'
  <2>1. \A f \in Pending(c)' : f = e
    BY <1>4, <1>11, <1>18
  <2>2. CASE e.type # "deleted"
    <3>1. /\ SubsOf(c) = {e.sub} /\ sub[e.sub].plan = e.plan
          /\ sub[e.sub].status = e.status
      BY <1>18, <2>2 DEF Matches
    <3>2. row'[c] = [plan |-> sub[e.sub].plan, payer |-> sub[e.sub].payer, sub |-> e.sub,
                     status |-> sub[e.sub].status]
      BY <1>8, <1>10, <2>2, <3>1
    <3>3. Follows(c)'
      BY <1>1, <1>12, <3>1, <3>2 DEF Follows
    <3> QED
      BY <1>4, <1>17, <1>18, <2>1, <3>3 DEF WillFollow
  <2>3. CASE e.type = "deleted"
    <3>1. SubsOf(c) = {}
      BY <1>18, <2>3 DEF Matches
    <3>2. row'[c].plan \in given[c] \cup {Free}
      <4>1. Follows(c) => row[c].plan \in given[c] \cup {Free}
        BY <3>1 DEF Follows
      <4> QED
        BY <1>1, <1>8, <1>18, <2>3, <4>1
    <3>3. Follows(c)'
      BY <1>1, <1>8, <1>12, <2>3, <3>1, <3>2 DEF Follows
    <3> QED
      BY <1>4, <1>17, <1>18, <2>1, <3>3 DEF WillFollow
  <2> QED
    BY <2>2, <2>3
<1>19. WillFollow(c)'
  <2>1. CASE Ahead(c) = {} /\ Follows(c) /\ \A f \in Pending(c) : Matches(f)
    BY <1>4, <1>11, <1>18, <2>1
  <2>2. ASSUME NEW l \in Ahead(c), Matches(l), \A f \in Pending(c) : f.at <= l.at
        PROVE  WillFollow(c)'
    <3>1. l \in Pending(c) /\ l.at > seen[c] /\ l.owner = c /\ l \in events
      BY DEF Ahead, Pending
    <3>2. CASE l = e
      <4>1. Ahead(c)' = {}
        BY <1>1, <1>4, <1>6, <1>11, <2>2, <3>2
      <4> QED
        BY <1>18, <2>2, <3>1, <3>2, <4>1
    <3>3. CASE l # e
      <4>1. l \in Ahead(c)' /\ Matches(l)' /\ \A f \in Pending(c)' : f.at <= l.at
        BY <1>4, <1>11, <1>17, <2>2, <3>1, <3>3
      <4> QED
        BY <4>1 DEF WillFollow
    <3> QED
      BY <3>2, <3>3
  <2> QED
    BY <1>7, <2>1, <2>2 DEF OnCourse, WillFollow
<1>20. ASSUME NEW g \in Ahead(c)', g.type # "completed"
       PROVE  Led(g)'
  <2>1. /\ g \in Ahead(c) /\ g \in Pending(c) /\ g \in events /\ g # e /\ g.owner = c
        /\ Led(g) /\ g.at > e.at /\ g.payer = sub[g.sub].payer /\ g.sub # None
    BY <1>4, <1>6, <1>7, <1>11, <1>20, EventFacts DEF Pending, OnCourse, DriftInv, ReportsSound
  <2>2. Starts(g)' = Starts(g) \ {e}
    <3>1. Starts(g)' = {f \in Ahead(c)' : f.type = "completed" /\ f.at < g.at}
      BY <2>1 DEF Starts
    <3>2. Starts(g) = {f \in Ahead(c) : f.type = "completed" /\ f.at < g.at}
      BY <2>1 DEF Starts
    <3>3. \A f \in Ahead(c) : f \in Ahead(c)' <=> f # e
      BY <1>11 DEF Ahead
    <3> QED
      BY <1>11, <3>1, <3>2, <3>3
  <2>3. e.sub = g.sub /\ e.type # "deleted" => Points(c, g)'
    BY <1>9, <1>10, <2>1 DEF Points
  <2>4. CASE Starts(g) = {} /\ Points(c, g)
    <3>1. e.type = "completed" => e.at = seen[c]
      <4>1. ASSUME e.type = "completed", e.at > seen[c] PROVE e \in Starts(g)
        BY <1>4, <2>1, <4>1 DEF Starts, Ahead
      <4> QED
        BY <1>1, <1>2, <2>4, <4>1
    <3>2. e.type # "deleted" => Points(c, e)
      BY <1>13, <1>14, <3>1, EventFacts
    <3>3. e.type # "deleted"
      <4> SUFFICES ASSUME e.type = "deleted" PROVE FALSE
        OBVIOUS
      <4>1. CASE e.at = seen[c]
        <5>1. row[c].sub = None
          BY <1>4, <1>7, <4>1 DEF OnCourse, Repeats
        <5> QED
          BY <2>1, <2>4, <5>1 DEF Points
      <4>2. CASE e.at # seen[c]
        <5>1. Points(c, e)
          BY <1>1, <1>2, <1>8, <4>2
        <5>2. e.sub = g.sub
          BY <2>4, <5>1 DEF Points
        <5>3. g.at <= e.at
          BY <2>1, <5>2 DEF DriftInv, ReportsSound
        <5> QED
          BY <1>1, <2>1, <5>3
      <4> QED
        BY <4>1, <4>2
    <3>4. e.sub = g.sub
      BY <2>4, <3>2, <3>3 DEF Points
    <3> QED
      BY <2>1, <2>2, <2>3, <2>4, <3>3, <3>4 DEF Led
  <2>5. ASSUME NEW f \in Starts(g), f.sub = g.sub, \A h \in Starts(g) : h.at <= f.at
        PROVE  Led(g)'
    <3>1. CASE f = e
      <4>1. Starts(g)' = {}
        <5> SUFFICES ASSUME NEW h \in Starts(g), h # e PROVE FALSE
          BY <2>2
        <5>1. h \in Pending(c) /\ h.at <= e.at
          BY <2>1, <2>5, <3>1 DEF Starts, Ahead
        <5> QED
          BY <1>1, <1>4, <1>6, <5>1
      <4>2. e.type = "completed"
        BY <3>1 DEF Starts
      <4> QED
        BY <2>1, <2>3, <2>5, <3>1, <4>1, <4>2 DEF Led
    <3>2. CASE f # e
      <4>1. f \in Starts(g)' /\ \A h \in Starts(g)' : h.at <= f.at
        BY <2>2, <2>5, <3>2
      <4> QED
        BY <2>5, <4>1 DEF Led
    <3> QED
      BY <3>1, <3>2
  <2> QED
    BY <2>1, <2>4, <2>5 DEF Led
<1> QED
  BY <1>12, <1>15, <1>16, <1>19, <1>20 DEF OnCourse

LEMMA DeliverOnCourse ==
  ASSUME IndInv, DriftInv, NEW e \in events, NEW again \in BOOLEAN, NEW known \in BOOLEAN,
         NEW done \in BOOLEAN, Deliver(e, again, known, done)
  PROVE  DriftInv'
<1>1. /\ UNCHANGED <<sub, clock, pc, job, given>> /\ JobsKept
      /\ events' \subseteq events /\ \A f \in events : f # e => f \in events'
      /\ blurred \subseteq blurred'
      /\ \A d \in Customers : d # e.owner => seen'[d] = seen[d] /\ row'[d] = row[d]
      /\ seen'[e.owner] = IF seen[e.owner] < e.at THEN e.at ELSE seen[e.owner]
      /\ e.owner \in Customers /\ e.at \in Nat /\ seen[e.owner] \in Nat
  BY DeliverFacts, EventFacts, CounterFacts
<1>2. TimesSound' /\ ReportsSound'
  BY <1>1 DEF DriftInv, TimesSound, ReportsSound
<1>3. WritesReported'
  <2>1. ASSUME NEW p \in Requests, pc'[p] = "write", job'[p].at > seen'[job'[p].customer]
        PROVE  \E u \in events' : /\ u.owner = job'[p].customer /\ u.at > seen'[job'[p].customer]
                                  /\ u.at = job'[p].at /\ u.type = "updated" /\ u.sub = job'[p].sub
    <3>1. PICK c \in Customers : c = job[p].customer
      BY <1>1, <2>1, JobFacts
    <3>2. seen'[c] >= seen[c] /\ seen[c] \in Nat /\ seen'[c] \in Nat /\ job[p].at \in Nat
      BY <1>1, CounterFacts
    <3>3. job[p].at > seen[c]
      BY <1>1, <2>1, <3>1, <3>2
    <3>4. PICK u \in Ahead(c) : u.at = job[p].at /\ u.type = "updated" /\ u.sub = job[p].sub
      BY <1>1, <2>1, <3>1, <3>3 DEF DriftInv, WritesReported
    <3>5. u \in events /\ u.owner = c
      BY DEF Ahead, Pending
    <3>6. u # e
      BY <1>1, <2>1, <3>1, <3>2, <3>4, <3>5
    <3> QED
      BY <1>1, <2>1, <3>1, <3>4, <3>5, <3>6
  <2> QED
    BY <1>1, <2>1 DEF DriftInv, WritesReported, Ahead, Pending
<1>4. ASSUME NEW d \in Customers, d # e.owner, InOrder(d)' PROVE OnCourse(d)'
  <2>1. Pending(d)' = Pending(d) /\ SubsOf(d)' = SubsOf(d)
    BY <1>1, <1>4 DEF Pending, SubsOf, Alive
  <2>2. InOrder(d)
    BY <1>1, <1>4, <2>1 DEF InOrder
  <2>3. OnCourse(d) /\ (Follows(d) => Follows(d)')
    BY <1>1, <1>4, <2>1, <2>2 DEF DriftInv, Follows
  <2> QED
    BY <1>1, <1>4, <2>1, <2>3, Undisturbed
<1>5. InOrder(e.owner)' => OnCourse(e.owner)'
  <2>1. PICK c \in Customers : c = e.owner
    BY <1>1
  <2>2. InOrder(c)' => OnCourse(c)'
    BY <2>1, DeliverOwner
  <2> QED
    BY <2>1, <2>2
<1> QED
  BY <1>2, <1>3, <1>4, <1>5 DEF DriftInv

-----------------------------------------------------------------------------
LEMMA NextOnCourse ==
  ASSUME IndInv, DriftInv, [Next]_vars PROVE DriftInv'
<1>1. CASE UNCHANGED vars
  <2>1. UNCHANGED <<row, sub, events, clock, seen, given, blurred, job, pc>>
    BY <1>1 DEF vars
  <2>2. /\ JobsKept
        /\ \A q \in Requests :
             /\ job'[q].at <= clock
             /\ pc'[q] \in {"customer", "save", "session", "assign"} => job'[q].sub = None
             /\ pc'[q] = "write" => pc[q] = "write" /\ job'[q] = job[q]
    BY <2>1 DEF JobsKept, DriftInv, TimesSound, WritesReported
  <2> QED
    BY <2>1, <2>2, SameRows, RequestsKeepCourse
<1>2. ASSUME NEW p \in Requests, Begin(p) \/ Step(p) PROVE DriftInv'
  BY <1>2, BeginOnCourse, CreateOnCourse, SaveOnCourse, OpenSessionOnCourse, UnknownOnCourse,
     AssignOnCourse, ChangeAtStripeOnCourse, WriteBackOnCourse DEF Step
<1>3. CASE Stripe
  BY <1>3, PayOnCourse, EndOnCourse, ChangeOnCourse DEF Stripe
<1>4. CASE Webhook
  BY <1>4, DeliverOnCourse DEF Webhook
<1> QED
  BY <1>1, <1>2, <1>3, <1>4 DEF Next

LEMMA InitOnCourse == Init => DriftInv
<1> SUFFICES ASSUME Init PROVE DriftInv
  OBVIOUS
<1>1. PICK asked \in SUBSET Customers, paying \in SUBSET Customers :
        /\ paying \subseteq asked
        /\ \E k \in [asked -> Payers], s \in [paying -> Subs], plan \in [paying -> Plans] :
             Before(asked, paying, k, s, plan)
  BY DEF Init
<1>2. PICK k \in [asked -> Payers], s \in [paying -> Subs], plan \in [paying -> Plans] :
        Before(asked, paying, k, s, plan)
  BY <1>1
<1>3. ASSUME NEW c \in paying
      PROVE  /\ sub[s[c]].status = "active" /\ sub[s[c]].owner = c
             /\ sub[s[c]].payer = k[c] /\ sub[s[c]].plan = plan[c] /\ s[c] \in Subs
  <2>1. (CHOOSE d \in paying : s[d] = s[c]) \in paying
        /\ s[CHOOSE d \in paying : s[d] = s[c]] = s[c]
    OBVIOUS
  <2>2. (CHOOSE d \in paying : s[d] = s[c]) = c
    BY <1>1, <1>2, <2>1 DEF Before
  <2>3. sub[s[c]] = [status |-> "active", payer |-> k[c], owner |-> c, plan |-> plan[c]]
    BY <1>1, <1>2, <2>2 DEF Before
  <2> QED
    BY <2>3
<1>4. \A x \in Subs : (\E c \in paying : s[c] = x) \/ sub[x].owner = None
  BY <1>1, <1>2 DEF Before, NoSub
<1>5. /\ events = {} /\ clock = 0 /\ \A c \in Customers : seen[c] = 0
      /\ \A p \in Requests : job[p] = NoJob /\ pc[p] = "idle"
  BY DEF Init
<1>6. TimesSound /\ ReportsSound /\ WritesReported
  BY <1>5, NoJobFacts DEF TimesSound, ReportsSound, WritesReported
<1>7. ASSUME NEW c \in Customers PROVE OnCourse(c)
  <2>1. \A x \in SubsOf(c) : c \in paying /\ x = s[c]
    <3> TAKE x \in SubsOf(c)
    <3>1. x \in Subs /\ sub[x].owner = c /\ c # None
      BY NoneAssumption DEF SubsOf
    <3>2. PICK d \in paying : s[d] = x
      BY <1>4, <3>1
    <3>3. sub[x].owner = d
      BY <1>3, <3>2
    <3> QED
      BY <3>1, <3>2, <3>3
  <2>2. CASE c \in paying
    <3>1. row[c] = [plan |-> plan[c], payer |-> k[c], sub |-> s[c], status |-> "active"]
      BY <1>2, <2>2 DEF Before
    <3>2. s[c] \in SubsOf(c) /\ sub[s[c]].plan = plan[c] /\ sub[s[c]].payer = k[c]
          /\ sub[s[c]].status = "active"
      <4>1. s[c] \in Subs /\ sub[s[c]].owner = c /\ sub[s[c]].status = "active"
        BY <1>3, <2>2
      <4> QED
        BY <1>3, <2>2, <4>1 DEF SubsOf, Alive, Statuses
    <3>3. Follows(c)
      BY <2>1, <3>1, <3>2 DEF Follows
    <3>4. row[c].payer = sub[row[c].sub].payer
      BY <3>1, <3>2
    <3> QED
      BY <1>5, <2>1, <3>3, <3>4, NoJobFacts DEF OnCourse, Paired, Repeats, WillFollow, Pending, Ahead
  <2>3. CASE c \notin paying
    <3>1. row[c].sub = None /\ row[c].plan = Free
      <4>1. CASE c \in asked
        <5>1. row[c] = [plan |-> Free, payer |-> k[c], sub |-> None, status |-> "none"]
          BY <1>2, <2>3, <4>1 DEF Before, NoRow
        <5> QED
          BY <5>1
      <4>2. CASE c \notin asked
        BY <1>2, <2>3, <4>2 DEF Before, NoRow
      <4> QED
        BY <4>1, <4>2
    <3>2. SubsOf(c) = {}
      BY <2>1, <2>3
    <3>3. Follows(c)
      BY <3>1, <3>2 DEF Follows
    <3> QED
      BY <1>5, <3>1, <3>2, <3>3, NoJobFacts
         DEF OnCourse, Paired, Repeats, WillFollow, Pending, Ahead
  <2> QED
    BY <2>2, <2>3
<1> QED
  BY <1>6, <1>7 DEF DriftInv

LEMMA DriftExplainedFromDriftInv ==
  ASSUME DriftInv PROVE DriftExplained
<1> SUFFICES ASSUME NEW c \in Customers, Settled(c), c \notin blurred PROVE Follows(c)
  BY DEF DriftExplained
<1>1. Pending(c) = {} /\ Ahead(c) = {}
  BY DEF Settled, Pending, Ahead
<1>2. InOrder(c)
  BY <1>1 DEF InOrder
<1> QED
  BY <1>1, <1>2 DEF DriftInv, OnCourse, WillFollow

(* From the moment Stripe sends an event until the webhook has it, the row *)
(* of a customer who is not blurred is on its way to what Stripe says, and *)
(* the last event on its way says just that.                               *)
THEOREM DriftInvCorrect == Spec => []DriftInv
<1>1. IndInv /\ DriftInv /\ [Next]_vars => DriftInv'
  BY NextOnCourse
<1> QED
  BY <1>1, InitOnCourse, IndInvCorrect, PTL DEF Spec

(* Once a customer's events are dealt with and no request is running, the  *)
(* row says what Stripe says, but for the causes that blur a customer:     *)
(* for any numbers of customers, requests and events, with answers lost,   *)
(* statements failing and events repeated or out of order.                 *)
THEOREM DriftExplainedCorrect == Spec => []DriftExplained
BY DriftInvCorrect, DriftExplainedFromDriftInv, PTL
=============================================================================
