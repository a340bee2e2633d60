----------------------------- MODULE TeamProofs -----------------------------
(***************************************************************************)
(* Proofs about Team, for any number of customers, organizations, domains  *)
(* and requests in flight.                                                 *)
(***************************************************************************)
EXTENDS Team, FiniteSetTheorems, TLAPS

USE NoOneAssumption, NoDomainAssumption, OrgOfAssumption, InputAssumption

-----------------------------------------------------------------------------
(* The type invariant.                                                     *)

\* Whatever request is not idle has a job with all its fields.
LEMMA JobFields ==
  ASSUME RequestsTyped, NEW p \in Requests, pc[p] # "idle"
  PROVE  /\ job[p] \in JobType
         /\ job[p].kind \in KindNames
         /\ job[p].actor \in Customers
         /\ job[p].target \in Customers
         /\ job[p].newRole \in Roles \cup {"none"}
         /\ job[p].domain \in Domains \cup {NoDomain}
<1>1. job[p] \in JobType
  BY DEF RequestsTyped
<1> QED
  BY <1>1 DEF JobType

\* A request that ends leaves the requests well typed.
LEMMA FinishType ==
  ASSUME RequestsTyped, NEW p \in Requests, Finish(p)
  PROVE  RequestsTyped'
BY DEF Finish, RequestsTyped

\* A request that goes on to its next statement stays well typed.
LEMMA GotoType ==
  ASSUME RequestsTyped, NEW p \in Requests, pc[p] # "idle",
         NEW l \in InTransaction, Goto(p, l), UNCHANGED job,
         seen' \in [Requests -> Nat],
         heir' \in [Requests -> Customers \cup {NoOne}],
         moved' \in [Requests -> SUBSET Domains]
  PROVE  RequestsTyped'
BY DEF Goto, RequestsTyped, InTransaction

\* A step that writes no row leaves the rows well typed.
LEMMA RowsKept == RowsTyped /\ UNCHANGED rowVars => RowsTyped'
BY DEF rowVars, RowsTyped

\* A request that fails leaves everything well typed.
LEMMA FailType ==
  ASSUME TypeOK, NEW p \in Requests, Fail(p)
  PROVE  TypeOK'
BY FinishType, RowsKept DEF Fail, TypeOK

\* A request that arrives carries a well typed job.
LEMMA ArriveType ==
  ASSUME TypeOK, NEW p \in Requests, Arrive(p)
  PROVE  TypeOK'
<1>1. ASSUME NEW j \in JobType, Authorize(p, j) PROVE TypeOK'
  <2>1. j # NoJob
    BY DEF JobType, NoJob
  <2>2. RequestsTyped'
    BY <1>1, <2>1 DEF Authorize, Goto, RequestsTyped, TypeOK
  <2> QED
    BY <1>1, <2>2, RowsKept DEF Authorize, TypeOK, rowVars
<1> QED
  BY <1>1 DEF Arrive, BeginTerminateAccount, BeginCreateDomain, BeginRemoveMember,
    BeginTransferDomain, BeginUpdateMemberRole, BeginCreateInvitation, JobType, KindNames

\* The cascade of DELETE FROM customers leaves the rows well typed.
LEMMA DeleteCustomerType ==
  ASSUME RowsTyped, NEW c \in Customers, NEW kept, NEW o \in Customers \cup {NoOne},
         DeleteCustomer(c, kept, o)
  PROVE  RowsTyped'
BY DEF DeleteCustomer, RowsTyped, NoInvite, InviteType

\* Any team the system starts from is well typed.
LEMMA TypeInit == Init => TypeOK
<1> SUFFICES ASSUME Init PROVE TypeOK
  OBVIOUS
<1>1. role \in [Customers -> Roles \cup {"none", "gone"}]
  BY DEF Init
<1>2. domainOwner \in [Domains -> Customers \cup {NoOne}]
  BY DEF Init
<1>3. invite \in [Customers -> InviteType]
  BY DEF Init, NoInvite, InviteType
<1>4. everOwner \subseteq Customers
  BY DEF Init
<1>5. job \in [Requests -> JobType \cup {NoJob}]
  BY DEF Init
<1> QED
  BY <1>1, <1>2, <1>3, <1>4, <1>5 DEF Init, TypeOK, RowsTyped, RequestsTyped

\* Owners are finitely many, so the count a request reads is a number.
LEMMA OwnersFinite == \A o \in Orgs : IsFiniteSet(Owners(o)) /\ Cardinality(Owners(o)) \in Nat
<1> SUFFICES ASSUME NEW o \in Orgs PROVE IsFiniteSet(Owners(o)) /\ Cardinality(Owners(o)) \in Nat
  OBVIOUS
<1>1. IsFiniteSet(Owners(o))
  BY FS_Subset, FiniteAssumption DEF Owners
<1> QED
  BY <1>1, FS_CardinalityType

\* Every statement keeps rows and requests well typed.
LEMMA TypeStep == TypeOK /\ [Next]_vars => TypeOK'
<1> SUFFICES ASSUME TypeOK, [Next]_vars PROVE TypeOK'
  OBVIOUS
<1>1. ASSUME NEW p \in Requests, LockMember(p) PROVE TypeOK'
  BY <1>1, GotoType, RowsKept, FailType DEF LockMember, TypeOK, rowVars, InTransaction, RequestsTyped
<1>2. ASSUME NEW p \in Requests, CountOwners(p) PROVE TypeOK'
  <2> DEFINE k == Cardinality(Owners(OrgOf[job[p].target]))
  <2>1. pc[p] # "idle" /\ k \in Nat
    BY <1>2, JobFields, OwnersFinite DEF CountOwners, TypeOK
  <2>2. CASE k > 1
    <3>1. /\ seen' = [seen EXCEPT ![p] = k] /\ Goto(p, "checked")
          /\ UNCHANGED <<rowVars, job, heir, moved>>
      BY <1>2, <2>1, <2>2 DEF CountOwners
    <3> QED
      BY <2>1, <3>1, GotoType, RowsKept DEF TypeOK, RequestsTyped, InTransaction
  <2>3. CASE ~(k > 1)
    BY <1>2, <2>1, <2>3, FailType DEF CountOwners
  <2> QED
    BY <2>2, <2>3
<1>3. ASSUME NEW p \in Requests, SkipCount(p) PROVE TypeOK'
  BY <1>3, GotoType, RowsKept, FailType DEF SkipCount, TypeOK, rowVars, InTransaction, RequestsTyped
<1>4. ASSUME NEW p \in Requests, CommitRole(p) PROVE TypeOK'
  <2>1. pc[p] # "idle" /\ job[p].target \in Customers /\ job[p].actor \in Customers
          /\ job[p].newRole \in Roles \cup {"none"}
    BY <1>4, JobFields DEF CommitRole, TypeOK
  <2>2. RowsTyped'
    BY <1>4, <2>1 DEF CommitRole, TypeOK, RowsTyped
  <2> QED
    BY <1>4, <2>2, FinishType DEF CommitRole, TypeOK
<1>5. ASSUME NEW p \in Requests, PickHeir(p) PROVE TypeOK'
  <2>1. heir' \in [Requests -> Customers \cup {NoOne}]
    BY <1>5 DEF PickHeir, Owners, TypeOK, RequestsTyped
  <2> QED
    BY <1>5, <2>1, GotoType, RowsKept DEF PickHeir, TypeOK, RequestsTyped, InTransaction
<1>6. ASSUME NEW p \in Requests, Reassign(p) PROVE TypeOK'
  <2> DEFINE mine == IF heir[p] = NoOne THEN {} ELSE DomainsOf(job[p].target)
  <2>1. CASE mine = {} \/ Exists(heir[p])
    <3>1. moved' \in [Requests -> SUBSET Domains]
      BY <1>6, <2>1 DEF Reassign, DomainsOf, TypeOK, RequestsTyped
    <3> QED
      BY <1>6, <2>1, <3>1, GotoType, RowsKept DEF Reassign, TypeOK, RequestsTyped, InTransaction
  <2>2. CASE ~(mine = {} \/ Exists(heir[p]))
    BY <1>6, <2>2, FailType DEF Reassign
  <2> QED
    BY <2>1, <2>2
<1>7. ASSUME NEW p \in Requests, CommitRemove(p) PROVE TypeOK'
  BY <1>7, FinishType, JobFields, DeleteCustomerType DEF CommitRemove, TypeOK, RequestsTyped
<1>8. ASSUME NEW p \in Requests, InsertInvitation(p) PROVE TypeOK'
  <2>1. CASE Fail(p)
    BY <2>1, FailType
  <2>2. CASE ~Fail(p)
    <3>1. pc[p] # "idle" /\ job[p].target \in Customers /\ job[p].actor \in Customers
            /\ job[p].newRole \in Roles \cup {"none"}
      BY <1>8, JobFields DEF InsertInvitation, TypeOK
    <3>2. RowsTyped'
      BY <1>8, <2>2, <3>1 DEF InsertInvitation, TypeOK, RowsTyped, InviteType
    <3> QED
      BY <1>8, <2>2, <3>2, FinishType DEF InsertInvitation, TypeOK
  <2> QED
    BY <2>1, <2>2
<1>9. ASSUME NEW p \in Requests, TerminateDelete(p) PROVE TypeOK'
  BY <1>9, FinishType, JobFields, DeleteCustomerType DEF TerminateDelete, TypeOK, RequestsTyped
<1>10. ASSUME NEW p \in Requests, TransferDomain(p) PROVE TypeOK'
  BY <1>10, FinishType, JobFields, FailType DEF TransferDomain, TypeOK, RowsTyped
<1>11. ASSUME NEW p \in Requests, InsertDomain(p) PROVE TypeOK'
  BY <1>11, FinishType, JobFields, FailType DEF InsertDomain, TypeOK, RowsTyped
<1>12. ASSUME NEW c \in Customers, Join(c) PROVE TypeOK'
  <2>1. invite[c] \in InviteType
    BY DEF TypeOK, RowsTyped
  <2>2. RowsTyped'
    BY <1>12, <2>1 DEF Join, TypeOK, RowsTyped, InviteType, NoInvite
  <2> QED
    BY <1>12, <2>2 DEF Join, TypeOK, RequestsTyped
<1>13. CASE UNCHANGED vars
  BY <1>13 DEF vars, TypeOK, RowsTyped, RequestsTyped
<1> QED
  BY <1>1, <1>2, <1>3, <1>4, <1>5, <1>6, <1>7, <1>8, <1>9, <1>10, <1>11, <1>12, <1>13, ArriveType, FailType DEF Next, Step, Abort

\* Rows and requests are well typed in every reachable state.
THEOREM TypeCorrect == Spec => []TypeOK
BY TypeInit, TypeStep, PTL DEF Spec

-----------------------------------------------------------------------------
(* The inductive invariant.                                                *)

\* A request that ends changes nothing of the others.
LEMMA FinishOthers ==
  ASSUME RequestsTyped, NEW p \in Requests, Finish(p)
  PROVE  /\ pc'[p] = "idle" /\ job'[p] = NoJob /\ heir'[p] = NoOne /\ moved'[p] = {}
         /\ \A q \in Requests \ {p} :
              /\ pc'[q] = pc[q] /\ job'[q] = job[q] /\ seen'[q] = seen[q]
              /\ heir'[q] = heir[q] /\ moved'[q] = moved[q]
BY DEF Finish, RequestsTyped

\* The rows that transactions in progress rely on survive the end of request
\* p: their targets keep their role, the new owners they picked still exist.
RowsRelied(p) ==
  \A q \in Requests \ {p} :
    /\ pc[q] \in InTransaction => role'[job[q].target] = role[job[q].target]
    /\ moved[q] # {} => Exists(heir[q])'

\* If so, the locking discipline is kept, and what was counted and moved.
LEMMA RequestEnds ==
  ASSUME TypeOK, Locking, Counted, Moving, NEW p \in Requests, Finish(p), RowsRelied(p)
  PROVE  Locking' /\ Counted' /\ Moving'
<1>1. /\ pc'[p] = "idle" /\ job'[p] = NoJob /\ heir'[p] = NoOne /\ moved'[p] = {}
      /\ \A q \in Requests \ {p} :
           /\ pc'[q] = pc[q] /\ job'[q] = job[q] /\ seen'[q] = seen[q]
           /\ heir'[q] = heir[q] /\ moved'[q] = moved[q]
  BY FinishOthers DEF TypeOK
<1>2. \A q \in Requests : pc'[q] \in InTransaction => q # p /\ pc[q] \in InTransaction
  BY <1>1 DEF InTransaction
<1>3. Locking'
  BY <1>1, <1>2 DEF Locking, RowsRelied, NoJob, Exists, InTransaction
<1>4. Counted'
  BY <1>1, <1>2 DEF Counted, TakesOwner, RowsRelied, InTransaction
<1>5. Moving'
  BY <1>1 DEF Moving, RowsRelied
<1> QED
  BY <1>3, <1>4, <1>5

\* A request that fails keeps the inductive invariant.
LEMMA FailKeeps ==
  ASSUME IndInv, NEW p \in Requests, Fail(p)
  PROVE  IndInv'
<1>1. TypeOK'
  BY FailType DEF IndInv
<1>2. /\ job'[p] = NoJob /\ moved'[p] = {}
      /\ \A q \in Requests \ {p} :
           job'[q] = job[q] /\ heir'[q] = heir[q] /\ moved'[q] = moved[q]
  BY FinishOthers DEF Fail, IndInv, TypeOK
<1>3. RowsRelied(p)
  BY <1>2 DEF RowsRelied, Fail, rowVars, IndInv, Moving, Exists
<1>4. Locking' /\ Counted' /\ Moving'
  BY <1>3, RequestEnds DEF Fail, IndInv
<1>5. Granted' /\ OwnersGrantedByOwners'
  BY <1>2 DEF Fail, rowVars, IndInv, Granted, OwnersGrantedByOwners, NoJob
<1>6. DomainOwnerExists' /\ MovedStillTheirs'
  BY <1>2 DEF Fail, rowVars, IndInv, DomainOwnerExists, MovedStillTheirs, Exists
<1> QED
  BY <1>1, <1>4, <1>5, <1>6 DEF IndInv

\* A request that starts, or reads on without writing, disturbs no other.
LEMMA ArriveKeeps ==
  ASSUME IndInv, NEW p \in Requests, Arrive(p)
  PROVE  IndInv'
<1>1. ASSUME NEW j \in JobType, Authorize(p, j),
             j.kind \in {"role", "invite"} => j.newRole \in Roles,
             j.newRole = "owner" => j.actor \in everOwner
      PROVE  IndInv'
  <2>1. /\ pc' = [pc EXCEPT ![p] = "authorized"] /\ job' = [job EXCEPT ![p] = j]
        /\ pc[p] = "idle"
        /\ UNCHANGED <<role, domainOwner, invite, grantor, everOwner, seen, heir, moved>>
    BY <1>1 DEF Authorize, Goto, rowVars
  <2>2. /\ pc'[p] = "authorized" /\ job'[p] = j
        /\ \A q \in Requests \ {p} : pc'[q] = pc[q] /\ job'[q] = job[q]
    BY <2>1 DEF IndInv, TypeOK, RequestsTyped
  <2>3. moved[p] = {}
    BY <2>1 DEF IndInv, Moving
  <2>4. Locking'
    BY <1>1, <2>1, <2>2 DEF IndInv, Locking, InTransaction, Exists
  <2>5. Counted'
    BY <2>1, <2>2 DEF IndInv, Counted, TakesOwner
  <2>6. Moving'
    BY <2>1, <2>2, <2>3 DEF IndInv, Moving, Exists
  <2>7. Granted' /\ OwnersGrantedByOwners'
    BY <1>1, <2>1, <2>2 DEF IndInv, Granted, OwnersGrantedByOwners
  <2>8. DomainOwnerExists' /\ MovedStillTheirs'
    BY <2>1, <2>2, <2>3 DEF IndInv, DomainOwnerExists, MovedStillTheirs, Exists
  <2> QED
    BY <2>4, <2>5, <2>6, <2>7, <2>8, ArriveType DEF IndInv
<1>2. PICK actor \in Customers :
        \/ BeginTerminateAccount(p, actor)
        \/ \E d \in Domains : BeginCreateDomain(p, actor, d)
        \/ \E target \in Customers :
             \/ BeginRemoveMember(p, actor, target)
             \/ \E d \in Domains : BeginTransferDomain(p, actor, d, target)
             \/ \E r \in InputRoles :
                  \/ BeginUpdateMemberRole(p, actor, target, r)
                  \/ BeginCreateInvitation(p, actor, target, r)
  BY DEF Arrive
<1>3. ASSUME NEW r, CanAssignRole(role[actor], r), r = "owner" PROVE actor \in everOwner
  BY <1>3 DEF CanAssignRole, IndInv, Granted
<1>4. CASE BeginTerminateAccount(p, actor)
  BY <1>1, <1>4 DEF BeginTerminateAccount, JobType, KindNames, Roles
<1>5. ASSUME NEW d \in Domains, BeginCreateDomain(p, actor, d) PROVE IndInv'
  BY <1>1, <1>5 DEF BeginCreateDomain, JobType, KindNames, Roles
<1>6. ASSUME NEW target \in Customers, BeginRemoveMember(p, actor, target) PROVE IndInv'
  BY <1>1, <1>6 DEF BeginRemoveMember, JobType, KindNames, Roles
<1>7. ASSUME NEW target \in Customers, NEW d \in Domains,
             BeginTransferDomain(p, actor, d, target)
      PROVE  IndInv'
  BY <1>1, <1>7 DEF BeginTransferDomain, JobType, KindNames, Roles
<1>8. ASSUME NEW target \in Customers, NEW r \in InputRoles,
             BeginUpdateMemberRole(p, actor, target, r)
      PROVE  IndInv'
  BY <1>1, <1>3, <1>8 DEF BeginUpdateMemberRole, JobType, KindNames
<1>9. ASSUME NEW target \in Customers, NEW r \in InputRoles,
             BeginCreateInvitation(p, actor, target, r)
      PROVE  IndInv'
  BY <1>1, <1>3, <1>9 DEF BeginCreateInvitation, JobType, KindNames
<1> QED
  BY <1>2, <1>4, <1>5, <1>6, <1>7, <1>8, <1>9

\* The rows and the other requests are as they were; p has moved on.
LEMMA ReadKeeps ==
  ASSUME IndInv, TypeOK', NEW p \in Requests, pc[p] # "idle",
         UNCHANGED <<role, domainOwner, invite, grantor, everOwner, job>>,
         NEW l \in InTransaction, Goto(p, l),
         \A q \in Requests \ {p} :
           seen'[q] = seen[q] /\ heir'[q] = heir[q] /\ moved'[q] = moved[q],
         /\ l \in {"locked", "checked"} => job[p].kind \in {"role", "remove"}
         /\ l \in {"picked", "moved"} => job[p].kind = "remove"
         /\ Exists(job[p].target)
         /\ ~MemberLockedByOther(p, job[p].target)
         /\ l \in {"checked", "picked", "moved"} /\ TakesOwner(p) => seen'[p] >= 2
         /\ heir'[p] # NoOne => l \in {"picked", "moved"} /\ heir'[p] # job[p].target
         /\ moved'[p] # {} => l = "moved" /\ heir'[p] # NoOne /\ Exists(heir'[p])
         /\ \A d \in moved'[p] : domainOwner[d] = job[p].target
  PROVE  IndInv'
<1>1. pc'[p] = l /\ \A q \in Requests \ {p} : pc'[q] = pc[q]
  BY DEF Goto, IndInv, TypeOK, RequestsTyped
<1>2. Locking'
  BY <1>1 DEF IndInv, Locking, InTransaction, Exists, MemberLockedByOther, HoldsMember
<1>3. Counted'
  BY <1>1 DEF IndInv, Counted, TakesOwner
<1>4. Moving'
  BY <1>1 DEF IndInv, Moving, Exists
<1>5. Granted' /\ OwnersGrantedByOwners'
  BY DEF IndInv, Granted, OwnersGrantedByOwners
<1>6. DomainOwnerExists' /\ MovedStillTheirs'
  BY <1>1 DEF IndInv, DomainOwnerExists, MovedStillTheirs, Exists
<1> QED
  BY <1>2, <1>3, <1>4, <1>5, <1>6 DEF IndInv

\* Statements that only read: the row lock, the owner count, the new owner and
\* the UPDATE that is not yet committed.
LEMMA ReadStepsKeep ==
  ASSUME IndInv, NEW p \in Requests,
         LockMember(p) \/ CountOwners(p) \/ SkipCount(p) \/ PickHeir(p) \/ Reassign(p)
  PROVE  IndInv'
<1> DEFINE t == job[p].target
<1>1. pc[p] # "idle" /\ t \in Customers /\ TypeOK'
  <2>1. pc[p] # "idle"
    BY DEF LockMember, CountOwners, SkipCount, PickHeir, Reassign
  <2>2. [Next]_vars
    BY DEF Next, Step
  <2> QED
    BY <2>1, <2>2, JobFields, TypeStep DEF IndInv, TypeOK
<1>2. pc[p] \in InTransaction => ~MemberLockedByOther(p, t)
  BY DEF IndInv, Locking, MemberLockedByOther, HoldsMember
<1>3. /\ \A q \in Requests : pc[q] # "moved" => moved[q] = {}
      /\ pc[p] \in InTransaction => Exists(t)
      /\ heir[p] # NoOne => pc[p] \in {"picked", "moved"} /\ heir[p] # t
      /\ pc[p] \in {"picked", "moved"} => job[p].kind = "remove"
      /\ pc[p] \in {"checked", "picked"} /\ TakesOwner(p) => seen[p] >= 2
      /\ pc[p] \in {"locked", "checked"} => job[p].kind \in {"role", "remove"}
  BY DEF IndInv, Moving, Locking, Counted
<1>4. CASE LockMember(p)
  <2>1. CASE Fail(p)
    BY <2>1, FailKeeps
  <2>2. CASE ~Fail(p)
    BY <1>1, <1>3, <1>4, <2>2, ReadKeeps DEF LockMember, rowVars, InTransaction
  <2> QED
    BY <2>1, <2>2
<1>5. CASE CountOwners(p)
  <2> DEFINE n == Cardinality(Owners(OrgOf[t]))
  <2>1. CASE n <= 1
    BY <1>5, <2>1, FailKeeps DEF CountOwners
  <2>2. CASE ~(n <= 1)
    <3>1. /\ pc[p] = "locked" /\ seen' = [seen EXCEPT ![p] = n] /\ Goto(p, "checked")
          /\ UNCHANGED <<rowVars, job, heir, moved>>
      BY <1>5, <2>2 DEF CountOwners
    <3>2. n \in Nat
      BY <1>1, OwnersFinite
    <3>3. seen'[p] >= 2 /\ \A q \in Requests \ {p} : seen'[q] = seen[q]
      BY <2>2, <3>1, <3>2 DEF IndInv, TypeOK, RequestsTyped
    <3> QED
      BY <1>1, <1>2, <1>3, <3>1, <3>3, ReadKeeps DEF rowVars, InTransaction
  <2> QED
    BY <2>1, <2>2
<1>6. CASE SkipCount(p)
  BY <1>1, <1>2, <1>3, <1>6, ReadKeeps DEF SkipCount, rowVars, InTransaction
<1>7. CASE PickHeir(p)
  <2>1. \A q \in Requests \ {p} : heir'[q] = heir[q]
    BY <1>7 DEF PickHeir, IndInv, TypeOK, RequestsTyped
  <2>2. heir'[p] = NoOne \/ heir'[p] # t
    <3>1. CASE UNCHANGED heir
      BY <1>3, <3>1
    <3>2. CASE \E c \in Owners(OrgOf[t]) \ {t} : heir' = [heir EXCEPT ![p] = c]
      BY <3>2 DEF IndInv, TypeOK, RequestsTyped
    <3> QED
      BY <1>7, <3>1, <3>2 DEF PickHeir
  <2> QED
    BY <1>1, <1>2, <1>3, <1>7, <2>1, <2>2, ReadKeeps DEF PickHeir, rowVars, InTransaction
<1>8. CASE Reassign(p)
  <2> DEFINE mine == IF heir[p] = NoOne THEN {} ELSE DomainsOf(t)
  <2>1. CASE mine = {} \/ Exists(heir[p])
    <3>1. /\ pc[p] = "picked" /\ moved' = [moved EXCEPT ![p] = mine] /\ Goto(p, "moved")
          /\ UNCHANGED <<rowVars, job, seen, heir>>
      BY <1>8, <2>1 DEF Reassign
    <3>2. moved'[p] = mine /\ \A q \in Requests \ {p} : moved'[q] = moved[q]
      BY <3>1 DEF IndInv, TypeOK, RequestsTyped
    <3>3. /\ moved'[p] # {} => heir'[p] # NoOne /\ Exists(heir'[p])
          /\ \A d \in moved'[p] : domainOwner[d] = t
      BY <2>1, <3>1, <3>2 DEF DomainsOf
    <3> QED
      BY <1>1, <1>2, <1>3, <3>1, <3>2, <3>3, ReadKeeps DEF rowVars, InTransaction
  <2>2. CASE ~(mine = {} \/ Exists(heir[p]))
    BY <1>8, <2>2, FailKeeps DEF Reassign
  <2> QED
    BY <2>1, <2>2
<1> QED
  BY <1>4, <1>5, <1>6, <1>7, <1>8

\* Deleting an account, with the domains "kept" handed to "o": what other
\* transactions hold locked is left alone, nothing is left without an owner.
LEMMA DeleteKeeps ==
  ASSUME IndInv, TypeOK', NEW p \in Requests, NEW c \in Customers, NEW kept, NEW o,
         pc[p] # "idle", Finish(p), DeleteCustomer(c, kept, o),
         ~MemberLockedByOther(p, c), ~KeySharedByOther(p, c),
         kept \subseteq DomainsOf(c),
         kept # {} => o # c /\ o \in Customers /\ Exists(o)
  PROVE  IndInv'
<1>1. /\ pc'[p] = "idle" /\ job'[p] = NoJob /\ moved'[p] = {}
      /\ \A q \in Requests \ {p} :
           job'[q] = job[q] /\ heir'[q] = heir[q] /\ moved'[q] = moved[q]
  BY FinishOthers DEF IndInv, TypeOK
<1>2. \A x \in Customers : x # c => role'[x] = role[x]
  BY DEF DeleteCustomer, IndInv, TypeOK, RowsTyped
<1>3. \A q \in Requests \ {p} : pc[q] \in InTransaction =>
        job[q].target \in Customers /\ job[q].target # c
  <2> SUFFICES ASSUME NEW q \in Requests \ {p}, pc[q] \in InTransaction
               PROVE  job[q].target \in Customers /\ job[q].target # c
    OBVIOUS
  <2>1. job[q].target \in Customers
    BY JobFields DEF IndInv, TypeOK, InTransaction
  <2> QED
    BY <2>1 DEF MemberLockedByOther, HoldsMember
<1>4. \A q \in Requests \ {p} : moved[q] # {} =>
        /\ heir[q] \in Customers /\ heir[q] # c
        /\ pc[q] \in InTransaction
        /\ Exists(heir[q])
  BY DEF KeySharedByOther, HoldsKeyShare, IndInv, Moving, TypeOK, RequestsTyped, InTransaction
<1>5. RowsRelied(p)
  BY <1>1, <1>2, <1>3, <1>4 DEF RowsRelied, Exists
<1>6. Locking' /\ Counted' /\ Moving'
  BY <1>5, RequestEnds DEF IndInv
<1>7. Granted' /\ OwnersGrantedByOwners'
  <2>1. \A x \in Customers : role'[x] = "owner" => role[x] = "owner"
    BY DEF DeleteCustomer, IndInv, TypeOK, RowsTyped
  <2>2. \A x \in Customers : invite'[x].role = "owner" =>
          invite[x].role = "owner" /\ invite'[x].by = invite[x].by
    BY DEF DeleteCustomer, NoInvite
  <2> QED
    BY <1>1, <2>1, <2>2 DEF DeleteCustomer, IndInv, Granted, OwnersGrantedByOwners, NoJob
<1>8. \A d \in Domains : domainOwner'[d] =
        IF d \in kept THEN o ELSE IF domainOwner[d] = c THEN NoOne ELSE domainOwner[d]
  BY DEF DeleteCustomer, DomainsOf
<1>9. DomainOwnerExists'
  <2> SUFFICES ASSUME NEW d \in Domains, domainOwner'[d] # NoOne
               PROVE  Exists(domainOwner[d])'
    BY DEF DomainOwnerExists
  <2>1. CASE d \in kept
    BY <1>2, <1>8, <2>1 DEF Exists
  <2>2. CASE d \notin kept
    <3>1. /\ domainOwner'[d] = domainOwner[d]
          /\ domainOwner[d] # c /\ domainOwner[d] \in Customers
      BY <1>8, <2>2 DEF IndInv, TypeOK, RowsTyped
    <3>2. Exists(domainOwner[d])
      BY <3>1 DEF IndInv, DomainOwnerExists
    <3> QED
      BY <1>2, <3>1, <3>2 DEF Exists
  <2> QED
    BY <2>1, <2>2
<1>10. MovedStillTheirs'
  <2> SUFFICES ASSUME NEW q \in Requests, NEW d \in moved'[q]
               PROVE  domainOwner'[d] = job'[q].target
    BY DEF MovedStillTheirs
  <2>1. q # p /\ d \in moved[q] /\ job'[q] = job[q]
    BY <1>1
  <2>2. domainOwner[d] = job[q].target /\ domainOwner[d] # c /\ d \in Domains
    BY <1>3, <1>4, <2>1 DEF IndInv, MovedStillTheirs, TypeOK, RequestsTyped
  <2> QED
    BY <1>8, <2>1, <2>2 DEF DomainsOf
<1> QED
  BY <1>6, <1>7, <1>9, <1>10 DEF IndInv

\* The two statements that delete an account.
LEMMA DeleteStepsKeep ==
  ASSUME IndInv, NEW p \in Requests, CommitRemove(p) \/ TerminateDelete(p)
  PROVE  IndInv'
<1>1. pc[p] # "idle" /\ job[p].target \in Customers /\ job[p].actor \in Customers
  BY JobFields DEF CommitRemove, TerminateDelete, IndInv, TypeOK
<1>2. TypeOK'
  BY TypeStep DEF IndInv, Next, Step
<1>3. CASE CommitRemove(p)
  <2>1. ~MemberLockedByOther(p, job[p].target)
    BY <1>3 DEF CommitRemove, IndInv, Locking, MemberLockedByOther, HoldsMember, InTransaction
  <2>2. /\ moved[p] \subseteq DomainsOf(job[p].target)
        /\ moved[p] # {} => /\ heir[p] # job[p].target
                            /\ heir[p] \in Customers /\ Exists(heir[p])
    BY DEF IndInv, MovedStillTheirs, Moving, TypeOK, RequestsTyped, DomainsOf
  <2> QED
    BY <1>1, <1>2, <1>3, <2>1, <2>2, DeleteKeeps DEF CommitRemove
<1>4. CASE TerminateDelete(p)
  <2>1. {} \subseteq DomainsOf(job[p].actor)
    OBVIOUS
  <2> QED
    BY <1>1, <1>2, <1>4, <2>1, DeleteKeeps DEF TerminateDelete
<1> QED
  BY <1>3, <1>4

\* The single statements that write domains and invitations.
LEMMA InsertStepsKeep ==
  ASSUME IndInv, NEW p \in Requests,
         InsertInvitation(p) \/ TransferDomain(p) \/ InsertDomain(p)
  PROVE  IndInv'
<1>1. CASE Fail(p)
  BY <1>1, FailKeeps
<1>2. CASE ~Fail(p)
  <2>1. Finish(p) /\ UNCHANGED <<role, grantor, everOwner>> /\ pc[p] # "idle"
    BY <1>2 DEF InsertInvitation, TransferDomain, InsertDomain
  <2>2. TypeOK'
    BY TypeStep DEF IndInv, Next, Step
  <2>3. /\ job'[p] = NoJob /\ moved'[p] = {}
        /\ \A q \in Requests \ {p} :
             job'[q] = job[q] /\ heir'[q] = heir[q] /\ moved'[q] = moved[q]
    BY <2>1, FinishOthers DEF IndInv, TypeOK
  <2>4. /\ job[p].target \in Customers /\ job[p].actor \in Customers
    BY <2>1, JobFields DEF IndInv, TypeOK
  <2>5. RowsRelied(p)
    BY <2>1, <2>3 DEF RowsRelied, Exists, IndInv, Moving
  <2>6. Locking' /\ Counted' /\ Moving'
    BY <2>1, <2>5, RequestEnds DEF IndInv
  <2>7. Granted' /\ OwnersGrantedByOwners'
    <3>1. \A c \in Customers : invite'[c].role = "owner" => invite'[c].by \in everOwner
      <4>1. CASE InsertInvitation(p)
        <5>1. invite' = [invite EXCEPT ![job[p].target] =
                           [role |-> job[p].newRole, by |-> job[p].actor]]
          BY <1>2, <4>1 DEF InsertInvitation
        <5> QED
          BY <5>1 DEF IndInv, Granted, TypeOK, RowsTyped
      <4>2. CASE UNCHANGED invite
        BY <4>2 DEF IndInv, Granted
      <4> QED
        BY <1>2, <4>1, <4>2 DEF TransferDomain, InsertDomain
    <3> QED
      BY <2>1, <2>3, <3>1 DEF IndInv, Granted, OwnersGrantedByOwners, NoJob
  <2>8. \A d \in Domains : \/ domainOwner'[d] = domainOwner[d]
                           \/ /\ Exists(domainOwner'[d])
                              /\ \A q \in Requests \ {p} : d \notin moved[q]
    <3>1. CASE InsertInvitation(p)
      BY <1>2, <3>1 DEF InsertInvitation
    <3>2. CASE TransferDomain(p)
      BY <1>2, <3>2 DEF TransferDomain, DomainLockedByOther, IndInv, TypeOK, RowsTyped
    <3>3. CASE InsertDomain(p)
      <4>1. \A d \in Domains, q \in Requests : d \in moved[q] => domainOwner[d] # NoOne
        BY JobFields DEF IndInv, TypeOK, Moving, MovedStillTheirs
      <4> QED
        BY <1>2, <3>3, <4>1 DEF InsertDomain, IndInv, TypeOK, RowsTyped
    <3> QED
      BY <3>1, <3>2, <3>3
  <2>9. DomainOwnerExists'
    BY <2>1, <2>8 DEF IndInv, DomainOwnerExists, Exists
  <2>10. MovedStillTheirs'
    BY <2>3, <2>8 DEF IndInv, MovedStillTheirs, TypeOK, RequestsTyped
  <2> QED
    BY <2>2, <2>6, <2>7, <2>9, <2>10 DEF IndInv
<1> QED
  BY <1>1, <1>2

\* A role change that commits.
LEMMA CommitRoleKeeps ==
  ASSUME IndInv, NEW p \in Requests, CommitRole(p)
  PROVE  IndInv'
<1> DEFINE t == job[p].target
<1>1. /\ pc[p] = "checked" /\ t \in Customers /\ job[p].actor \in Customers
      /\ job[p].newRole \in Roles
  BY JobFields DEF CommitRole, IndInv, TypeOK, Locking
<1>2. TypeOK'
  BY TypeStep DEF IndInv, Next, Step
<1>3. /\ role'[t] = job[p].newRole
      /\ \A c \in Customers : c # t => role'[c] = role[c]
      /\ \A c \in Customers : Exists(c) => Exists(c)'
  BY <1>1 DEF CommitRole, IndInv, TypeOK, RowsTyped, Exists
<1>4. /\ job'[p] = NoJob /\ moved'[p] = {} /\ Finish(p)
      /\ \A q \in Requests \ {p} :
           job'[q] = job[q] /\ heir'[q] = heir[q] /\ moved'[q] = moved[q]
  BY FinishOthers DEF CommitRole, IndInv, TypeOK
<1>5. RowsRelied(p)
  <2>1. ASSUME NEW q \in Requests \ {p}, pc[q] \in InTransaction
        PROVE  role'[job[q].target] = role[job[q].target]
    <3>1. job[q].target \in Customers
      BY <2>1, JobFields DEF IndInv, TypeOK, InTransaction
    <3>2. job[q].target # t
      BY <1>1, <2>1 DEF IndInv, Locking, InTransaction
    <3> QED
      BY <1>3, <3>1, <3>2
  <2>2. ASSUME NEW q \in Requests \ {p}, moved[q] # {} PROVE Exists(heir[q])'
    <3>1. heir[q] \in Customers /\ Exists(heir[q]) /\ heir'[q] = heir[q]
      BY <1>4, <2>2 DEF IndInv, Moving, TypeOK, RequestsTyped
    <3> QED
      BY <1>3, <3>1 DEF Exists
  <2> QED
    BY <2>1, <2>2 DEF RowsRelied
<1>6. Locking' /\ Counted' /\ Moving'
  BY <1>4, <1>5, RequestEnds DEF IndInv
<1>7. Granted' /\ OwnersGrantedByOwners'
  <2>1. /\ everOwner \subseteq everOwner'
        /\ job[p].newRole = "owner" => t \in everOwner' /\ job[p].actor \in everOwner
    BY <1>1 DEF CommitRole, IndInv, Granted
  <2>2. Granted'
    BY <1>3, <1>4, <2>1 DEF CommitRole, IndInv, Granted, NoJob
  <2>3. OwnersGrantedByOwners'
    BY <1>1, <1>3, <2>1 DEF CommitRole, IndInv, OwnersGrantedByOwners, TypeOK, RowsTyped
  <2> QED
    BY <2>2, <2>3
<1>8. DomainOwnerExists'
  BY <1>3 DEF CommitRole, IndInv, DomainOwnerExists, TypeOK, RowsTyped, Exists
<1>9. MovedStillTheirs'
  BY <1>4 DEF CommitRole, IndInv, MovedStillTheirs
<1> QED
  BY <1>2, <1>6, <1>7, <1>8, <1>9 DEF IndInv

\* An invitation that is accepted.
LEMMA JoinKeeps ==
  ASSUME IndInv, NEW c \in Customers, Join(c)
  PROVE  IndInv'
<1>1. TypeOK'
  BY TypeStep DEF IndInv, Next
<1>2. /\ invite[c].role \in Roles \cup {"none"}
      /\ role'[c] = invite[c].role /\ role[c] = "none"
      /\ \A x \in Customers : x # c => role'[x] = role[x]
      /\ UNCHANGED <<domainOwner, pc, job, seen, heir, moved>>
  BY DEF Join, IndInv, TypeOK, RowsTyped, InviteType
<1>3. \A x \in Customers : Exists(x) => x # c /\ Exists(x)'
  BY <1>2 DEF Exists, Roles
<1>4. \A q \in Requests : pc[q] \in InTransaction =>
        /\ job[q].target \in Customers /\ Exists(job[q].target)
        /\ role'[job[q].target] = role[job[q].target]
  <2> SUFFICES ASSUME NEW q \in Requests, pc[q] \in InTransaction
               PROVE  /\ job[q].target \in Customers /\ Exists(job[q].target)
                      /\ role'[job[q].target] = role[job[q].target]
    OBVIOUS
  <2>1. job[q].target \in Customers /\ Exists(job[q].target)
    BY JobFields DEF IndInv, TypeOK, Locking, InTransaction
  <2> QED
    BY <1>2, <1>3, <2>1
<1>5. Locking'
  BY <1>2, <1>3, <1>4 DEF IndInv, Locking, InTransaction
<1>6. Counted'
  BY <1>2, <1>4 DEF IndInv, Counted, TakesOwner, InTransaction
<1>7. Moving'
  <2>1. \A q \in Requests : moved[q] # {} => Exists(heir[q])'
    BY <1>2, <1>3 DEF IndInv, Moving, TypeOK, RequestsTyped, Exists
  <2> QED
    BY <1>2, <2>1 DEF IndInv, Moving
<1>8. Granted' /\ OwnersGrantedByOwners'
  <2>1. everOwner \subseteq everOwner' /\ invite' = [invite EXCEPT ![c] = NoInvite]
    BY DEF Join
  <2>2. Granted'
    <3>1. \A x \in Customers : role'[x] = "owner" => x \in everOwner'
      BY <1>2, <2>1 DEF Join, IndInv, Granted
    <3>2. \A x \in Customers : invite'[x].role = "owner" => invite'[x].by \in everOwner'
      BY <2>1 DEF IndInv, Granted, NoInvite, TypeOK, RowsTyped
    <3> QED
      BY <1>2, <2>1, <3>1, <3>2 DEF IndInv, Granted
  <2>3. OwnersGrantedByOwners'
    BY <1>2, <2>1 DEF Join, IndInv, Granted, OwnersGrantedByOwners, TypeOK, RowsTyped
  <2> QED
    BY <2>2, <2>3
<1>9. DomainOwnerExists' /\ MovedStillTheirs'
  BY <1>2, <1>3 DEF IndInv, DomainOwnerExists, MovedStillTheirs, TypeOK, RowsTyped, Exists
<1> QED
  BY <1>1, <1>5, <1>6, <1>7, <1>8, <1>9 DEF IndInv

\* The invariant holds of every initial team.
LEMMA IndInvInit == Init => IndInv
<1> SUFFICES ASSUME Init PROVE IndInv
  OBVIOUS
<1>1. TypeOK
  BY TypeInit
<1>2. Locking /\ Counted /\ Moving /\ MovedStillTheirs
  BY DEF Init, Locking, Counted, Moving, MovedStillTheirs, InTransaction, NoJob
<1>3. Granted /\ OwnersGrantedByOwners
  BY DEF Init, Granted, OwnersGrantedByOwners, NoInvite, NoJob
<1>4. DomainOwnerExists
  BY DEF Init, DomainOwnerExists
<1> QED
  BY <1>1, <1>2, <1>3, <1>4 DEF IndInv

\* Every step of the specification keeps it.
LEMMA IndInvStep == IndInv /\ [Next]_vars => IndInv'
<1> SUFFICES ASSUME IndInv, [Next]_vars PROVE IndInv'
  OBVIOUS
<1>1. ASSUME NEW p \in Requests, Arrive(p) \/ Step(p) \/ Abort(p) PROVE IndInv'
  BY <1>1, ArriveKeeps, ReadStepsKeep, DeleteStepsKeep, InsertStepsKeep, CommitRoleKeeps,
     FailKeeps DEF Step, Abort
<1>2. CASE UNCHANGED vars
  BY <1>2 DEF vars, IndInv, TypeOK, RowsTyped, RequestsTyped, Locking, Counted, Moving,
     Granted, DomainOwnerExists, MovedStillTheirs, OwnersGrantedByOwners, TakesOwner, Exists
<1> QED
  BY <1>1, <1>2, JoinKeeps DEF Next

\* The inductive invariant holds in every reachable state.
THEOREM IndInvCorrect == Spec => []IndInv
BY IndInvInit, IndInvStep, PTL DEF Spec

\* However many requests run, every domain belongs to an account that exists.
THEOREM DomainsOwned == Spec => []DomainOwnerExists
<1>1. IndInv => DomainOwnerExists
  BY DEF IndInv
<1> QED
  BY <1>1, IndInvCorrect, PTL

\* No transfer or other removal touches the domains a removal is moving.
THEOREM MovesUndisturbed == Spec => []MovedStillTheirs
<1>1. IndInv => MovedStillTheirs
  BY DEF IndInv
<1> QED
  BY <1>1, IndInvCorrect, PTL

\* Nobody is an owner who was not made one by an owner.
THEOREM OwnersAreGranted == Spec => []OwnersGrantedByOwners
<1>1. IndInv => OwnersGrantedByOwners
  BY DEF IndInv
<1> QED
  BY <1>1, IndInvCorrect, PTL

-----------------------------------------------------------------------------
(* How an organization loses its last owner.                               *)

\* A termination, or a transaction whose owner count is no longer true.
LastOwnerLeaves(p, o) ==
  /\ pc[p] # "idle" /\ pc'[p] = "idle"
  /\ \/ job[p].kind = "terminate"
     \/ OrgOf[job[p].target] = o /\ seen[p] > Cardinality(Owners(o))

\* A transaction that takes the owner role from the only owner there is has
\* counted more.
LEMMA StaleCount ==
  ASSUME IndInv, NEW p \in Requests, NEW o \in Orgs,
         pc[p] \in {"checked", "moved"}, Finish(p), job[p].target \in Customers,
         \A c \in Customers : c # job[p].target => role'[c] = role[c],
         Owners(o) # {}, Owners(o)' = {}, role'[job[p].target] # "owner",
         job[p].kind = "role" => role'[job[p].target] = job[p].newRole
  PROVE  LastOwnerLeaves(p, o)
<1> DEFINE t == job[p].target
<1>1. Owners(o) = {t}
  BY DEF Owners
<1>2. Cardinality(Owners(o)) = 1
  BY <1>1, FS_Singleton
<1>3. role[t] = "owner"
  BY <1>1 DEF Owners
<1>4. seen[p] >= 2
  BY <1>3 DEF IndInv, Counted, TakesOwner
<1>5. pc'[p] = "idle"
  BY FinishOthers DEF IndInv, TypeOK
<1>6. OrgOf[t] = o
  BY <1>1 DEF Owners
<1> QED
  BY <1>2, <1>4, <1>5, <1>6 DEF LastOwnerLeaves, IndInv, TypeOK, RequestsTyped

\* The step form of the property.
LEMMA OwnerLossStep ==
  ASSUME IndInv, [Next]_vars, NEW o \in Orgs, Owners(o) # {}, Owners(o)' = {}
  PROVE  \E p \in Requests : LastOwnerLeaves(p, o)
<1>1. PICK c \in Customers : c \in Owners(o) /\ role[c] = "owner" /\ role'[c] # "owner"
  BY DEF Owners
<1>2. role' # role
  BY <1>1
<1>3. ASSUME NEW p \in Requests, CommitRole(p) PROVE LastOwnerLeaves(p, o)
  <2>1. job[p].target \in Customers /\ job[p].kind = "role" /\ pc[p] = "checked" /\ Finish(p)
    BY <1>3, JobFields DEF CommitRole, IndInv, TypeOK
  <2>2. /\ role'[job[p].target] = job[p].newRole
        /\ \A x \in Customers : x # job[p].target => role'[x] = role[x]
    BY <1>3, <2>1 DEF CommitRole, IndInv, TypeOK, RowsTyped
  <2>3. c = job[p].target
    BY <1>1, <2>2
  <2> QED
    BY <1>1, <2>1, <2>2, <2>3, StaleCount
<1>4. ASSUME NEW p \in Requests, CommitRemove(p) PROVE LastOwnerLeaves(p, o)
  <2>1. /\ job[p].target \in Customers /\ job[p].kind = "remove"
        /\ pc[p] = "moved" /\ Finish(p)
    BY <1>4, JobFields DEF CommitRemove, IndInv, TypeOK, Locking
  <2>2. /\ role'[job[p].target] # "owner"
        /\ \A x \in Customers : x # job[p].target => role'[x] = role[x]
    BY <1>4, <2>1 DEF CommitRemove, DeleteCustomer, IndInv, TypeOK, RowsTyped
  <2> QED
    BY <2>1, <2>2, StaleCount
<1>5. ASSUME NEW p \in Requests, TerminateDelete(p) PROVE LastOwnerLeaves(p, o)
  BY <1>5, FinishOthers DEF TerminateDelete, LastOwnerLeaves, IndInv, TypeOK
<1>6. ASSUME NEW x \in Customers, Join(x) PROVE FALSE
  <2>1. role[x] = "none" /\ \A y \in Customers : y # x => role'[y] = role[y]
    BY <1>6 DEF Join, IndInv, TypeOK, RowsTyped
  <2> QED
    BY <1>1, <2>1
<1>7. \E p \in Requests : CommitRole(p) \/ CommitRemove(p) \/ TerminateDelete(p)
  <2>1. ASSUME NEW p \in Requests, Arrive(p) \/ Abort(p) PROVE UNCHANGED role
    BY <2>1 DEF Arrive, Authorize, BeginTerminateAccount, BeginCreateDomain,
      BeginRemoveMember, BeginTransferDomain, BeginUpdateMemberRole,
      BeginCreateInvitation, Abort, Fail, rowVars
  <2>2. ASSUME NEW p \in Requests,
               LockMember(p) \/ CountOwners(p) \/ SkipCount(p) \/ PickHeir(p) \/ Reassign(p)
                 \/ InsertInvitation(p) \/ TransferDomain(p) \/ InsertDomain(p)
        PROVE  UNCHANGED role
    BY <2>2 DEF LockMember, CountOwners, SkipCount, PickHeir, Reassign, InsertInvitation,
      TransferDomain, InsertDomain, Fail, rowVars
  <2> QED
    BY <1>2, <1>6, <2>1, <2>2 DEF Next, Step, vars
<1> QED
  BY <1>3, <1>4, <1>5, <1>7

\* An organization loses its last owner only to a termination, or to a change
\* of role or removal whose owner count had become stale.
THEOREM OwnerLossExplained == Spec => OwnerLossOnlyOnStaleCount
<1>1. IndInv /\ [Next]_vars =>
        [\A o \in Orgs : Owners(o) # {} /\ Owners(o)' = {} =>
           \E p \in Requests :
             /\ pc[p] # "idle" /\ pc'[p] = "idle"
             /\ \/ job[p].kind = "terminate"
                \/ seen[p] > Cardinality(Owners(o))]_vars
  BY OwnerLossStep DEF LastOwnerLeaves
<1> QED
  BY <1>1, IndInvCorrect, PTL DEF Spec, OwnerLossOnlyOnStaleCount

-----------------------------------------------------------------------------
(* Organizations are kept apart.                                           *)

\* A request that ends leaves the others within their organizations.
LEMMA ScopedFinish ==
  ASSUME IndInv, Scoped, NEW p \in Requests, Finish(p)
  PROVE  Scoped'
<1>1. /\ job'[p] = NoJob /\ heir'[p] = NoOne
      /\ \A q \in Requests \ {p} : job'[q] = job[q] /\ heir'[q] = heir[q]
  BY FinishOthers DEF IndInv, TypeOK
<1> QED
  BY <1>1 DEF Scoped, NoJob

\* A request arrives for its actor's organization.
LEMMA ScopedArrive ==
  ASSUME IndInv, Scoped, NEW p \in Requests, Arrive(p)
  PROVE  Scoped'
<1>1. ASSUME NEW j, Authorize(p, j),
             j.kind \in {"role", "remove"} => OrgOf[j.target] = OrgOf[j.actor]
      PROVE  Scoped'
  <2>1. /\ job'[p] = j /\ \A q \in Requests \ {p} : job'[q] = job[q]
        /\ heir' = heir /\ pc[p] = "idle"
    BY <1>1 DEF Authorize, IndInv, TypeOK, RequestsTyped
  <2>2. heir[p] = NoOne
    BY <2>1 DEF IndInv, Moving
  <2> QED
    BY <1>1, <2>1, <2>2 DEF Scoped
<1> QED
  BY <1>1 DEF Arrive, BeginTerminateAccount, BeginCreateDomain, BeginRemoveMember,
    BeginTransferDomain, BeginUpdateMemberRole, BeginCreateInvitation

\* The new owner is sought in the target's organization.
LEMMA ScopedPick ==
  ASSUME IndInv, Scoped, NEW p \in Requests, PickHeir(p)
  PROVE  Scoped'
<1>1. job' = job
  BY DEF PickHeir
<1>2. ASSUME NEW c \in Owners(OrgOf[job[p].target]), heir' = [heir EXCEPT ![p] = c]
      PROVE  Scoped'
  BY <1>1, <1>2 DEF Scoped, Owners, IndInv, TypeOK, RequestsTyped
<1>3. CASE heir' = heir
  BY <1>1, <1>3 DEF Scoped
<1> QED
  BY <1>2, <1>3 DEF PickHeir

\* Every step keeps organizations apart.
LEMMA ScopedStep ==
  ASSUME IndInv, Scoped, [Next]_vars
  PROVE  Scoped'
<1>1. ASSUME UNCHANGED <<job, heir>> PROVE Scoped'
  BY <1>1 DEF Scoped
<1>2. ASSUME NEW p \in Requests, Step(p) PROVE Scoped'
  <2>1. PickHeir(p) \/ Finish(p) \/ UNCHANGED <<job, heir>>
    BY <1>2 DEF Step, LockMember, CountOwners, SkipCount, CommitRole, Reassign, CommitRemove,
                InsertInvitation, TerminateDelete, TransferDomain, InsertDomain, Fail
  <2> QED
    BY <1>1, <2>1, ScopedFinish, ScopedPick
<1>3. ASSUME NEW c \in Customers, Join(c) PROVE Scoped'
  BY <1>1, <1>3 DEF Join
<1>4. CASE UNCHANGED vars
  BY <1>1, <1>4 DEF vars
<1> QED
  BY <1>2, <1>3, <1>4, ScopedArrive, ScopedFinish DEF Next, Abort, Fail

\* Whatever overlaps, role changes and removals stay within an organization.
THEOREM ScopedCorrect == Spec => []Scoped
<1>1. Init => Scoped
  BY DEF Init, Scoped, NoJob
<1>2. IndInv /\ Scoped /\ [Next]_vars => Scoped'
  BY ScopedStep
<1> QED
  BY <1>1, <1>2, IndInvCorrect, PTL DEF Spec

\* The step in which a request ends, if rows change, is one of six.
LEMMA EndingStep ==
  ASSUME IndInv, [Next]_vars, NEW p \in Requests, pc[p] # "idle", pc'[p] = "idle"
  PROVE  \/ UNCHANGED <<role, domainOwner>>
         \/ CommitRole(p) \/ CommitRemove(p) \/ TerminateDelete(p)
         \/ TransferDomain(p) \/ InsertDomain(p)
<1>1. ASSUME NEW q \in Requests, Arrive(q) PROVE UNCHANGED <<role, domainOwner>>
  BY <1>1 DEF Arrive, Authorize, BeginTerminateAccount, BeginCreateDomain, BeginRemoveMember,
    BeginTransferDomain, BeginUpdateMemberRole, BeginCreateInvitation, rowVars
<1>2. ASSUME NEW q \in Requests,
             \/ LockMember(q) \/ CountOwners(q) \/ SkipCount(q) \/ PickHeir(q) \/ Reassign(q)
             \/ InsertInvitation(q) \/ Abort(q)
      PROVE  UNCHANGED <<role, domainOwner>>
  BY <1>2 DEF LockMember, CountOwners, SkipCount, PickHeir, Reassign, InsertInvitation, Abort,
    Fail, rowVars
<1>3. ASSUME NEW q \in Requests \ {p}, Finish(q) PROVE FALSE
  BY <1>3, FinishOthers DEF IndInv, TypeOK
<1>4. ASSUME NEW q \in Requests,
             \/ CommitRole(q) \/ CommitRemove(q) \/ TerminateDelete(q)
             \/ TransferDomain(q) \/ InsertDomain(q)
      PROVE  q = p \/ UNCHANGED <<role, domainOwner>>
  BY <1>3, <1>4 DEF CommitRole, CommitRemove, TerminateDelete, TransferDomain, InsertDomain, Fail
<1>5. ASSUME NEW c \in Customers, Join(c) PROVE FALSE
  BY <1>5 DEF Join
<1>6. CASE UNCHANGED vars
  BY <1>6 DEF vars
<1> QED
  BY <1>1, <1>2, <1>4, <1>5, <1>6 DEF Next, Step

\* What a removal writes.
LEMMA RemovalWrites ==
  ASSUME IndInv, Scoped, NEW p \in Requests, CommitRemove(p)
  PROVE  /\ job[p].kind = "remove" /\ job[p].target \in Customers
         /\ OrgOf[job[p].target] = OrgOf[job[p].actor]
         /\ \A c \in Customers : role'[c] # role[c] => c = job[p].target
         /\ \A d \in Domains : domainOwner'[d] # domainOwner[d] =>
              /\ domainOwner[d] = job[p].target
              /\ IF d \in moved[p]
                   THEN domainOwner'[d] # NoOne /\ OrgOf[domainOwner'[d]] = OrgOf[job[p].target]
                   ELSE domainOwner'[d] = NoOne
<1> DEFINE t == job[p].target
<1>1. /\ job[p].kind = "remove" /\ t \in Customers /\ DeleteCustomer(t, moved[p], heir[p])
  BY JobFields DEF CommitRemove, IndInv, TypeOK, Locking
<1>2. \A c \in Customers : role'[c] # role[c] => c = t
  BY <1>1 DEF DeleteCustomer, IndInv, TypeOK, RowsTyped
<1>3. \A d \in Domains : domainOwner'[d] =
        IF d \in moved[p] THEN (IF heir[p] = t THEN NoOne ELSE heir[p])
        ELSE IF domainOwner[d] = t THEN NoOne ELSE domainOwner[d]
  BY <1>1 DEF DeleteCustomer
<1>4. moved[p] # {} => heir[p] # NoOne /\ heir[p] # t /\ OrgOf[heir[p]] = OrgOf[t]
  BY DEF IndInv, Moving, Scoped
<1>5. \A d \in moved[p] : domainOwner[d] = t
  BY DEF IndInv, MovedStillTheirs
<1> QED
  BY <1>1, <1>2, <1>3, <1>4, <1>5 DEF Scoped

\* The step form of RemovalLosesOnlyNewcomers.
LEMMA RemovalStep ==
  ASSUME IndInv, Scoped, [Next]_vars, NEW p \in Requests, NEW d \in Domains,
         job[p].kind = "remove", pc[p] # "idle", pc'[p] = "idle",
         domainOwner'[d] # domainOwner[d]
  PROVE  /\ domainOwner[d] = job[p].target
         /\ IF d \in moved[p]
              THEN domainOwner'[d] # NoOne /\ OrgOf[domainOwner'[d]] = OrgOf[job[p].target]
              ELSE domainOwner'[d] = NoOne
<1>1. CommitRemove(p)
  BY EndingStep DEF CommitRole, TerminateDelete, TransferDomain, InsertDomain
<1> QED
  BY <1>1, RemovalWrites

\* What a removal reassigned is never lost, and nothing leaves the
\* organization (db.RemoveMember).
THEOREM RemovalLosesOnlyNewcomersCorrect == Spec => RemovalLosesOnlyNewcomers
<1>1. IndInv /\ Scoped /\ [Next]_vars =>
        [\A p \in Requests, d \in Domains :
           /\ job[p].kind = "remove" /\ pc[p] # "idle" /\ pc'[p] = "idle"
           /\ domainOwner'[d] # domainOwner[d]
           => /\ domainOwner[d] = job[p].target
              /\ IF d \in moved[p]
                   THEN domainOwner'[d] # NoOne /\ OrgOf[domainOwner'[d]] = OrgOf[job[p].target]
                   ELSE domainOwner'[d] = NoOne]_vars
  BY RemovalStep
<1> QED
  BY <1>1, IndInvCorrect, ScopedCorrect, PTL DEF Spec, RemovalLosesOnlyNewcomers

\* The rows request p writes as it ends are those of its actor's organization,
\* and the domain of a transfer.
OwnRowsOnly(p) ==
  LET mine == OrgOf[job[p].actor]
  IN  /\ \A c \in Customers : role'[c] # role[c] => OrgOf[c] = mine
      /\ \A d \in Domains :
           domainOwner'[d] # domainOwner[d] /\ domainOwner[d] # NoOne
             => \/ OrgOf[domainOwner[d]] = mine
                \/ job[p].kind = "transfer" /\ job[p].domain = d

\* The step form of OthersLeftAlone.
LEMMA OwnRowsStep ==
  ASSUME IndInv, Scoped, [Next]_vars, NEW p \in Requests, pc[p] # "idle", pc'[p] = "idle"
  PROVE  OwnRowsOnly(p)
<1>1. CASE UNCHANGED <<role, domainOwner>>
  BY <1>1 DEF OwnRowsOnly
<1>2. CASE CommitRole(p)
  BY <1>2 DEF CommitRole, OwnRowsOnly, Scoped, IndInv, TypeOK, RowsTyped
<1>3. CASE CommitRemove(p)
  BY <1>3, RemovalWrites DEF OwnRowsOnly
<1>4. CASE TerminateDelete(p)
  <2>1. DeleteCustomer(job[p].actor, {}, NoOne)
    BY <1>4 DEF TerminateDelete
  <2>2. \A c \in Customers : role'[c] # role[c] => c = job[p].actor
    BY <2>1 DEF DeleteCustomer, IndInv, TypeOK, RowsTyped
  <2>3. \A d \in Domains : domainOwner'[d] # domainOwner[d] => domainOwner[d] = job[p].actor
    BY <2>1 DEF DeleteCustomer
  <2> QED
    BY <2>2, <2>3 DEF OwnRowsOnly
<1>5. CASE TransferDomain(p)
  BY <1>5 DEF TransferDomain, Fail, rowVars, OwnRowsOnly, IndInv, TypeOK, RowsTyped
<1>6. CASE InsertDomain(p)
  BY <1>6 DEF InsertDomain, Fail, rowVars, OwnRowsOnly, IndInv, TypeOK, RowsTyped
<1> QED
  BY <1>1, <1>2, <1>3, <1>4, <1>5, <1>6, EndingStep

\* However requests overlap, none touches the members of another organization,
\* and only a transfer its domains.
THEOREM OthersLeftAloneCorrect == Spec => OthersLeftAlone
<1>1. IndInv /\ Scoped /\ [Next]_vars =>
        [\A p \in Requests : pc[p] # "idle" /\ pc'[p] = "idle" =>
           LET mine == OrgOf[job[p].actor]
           IN  /\ \A c \in Customers : role'[c] # role[c] => OrgOf[c] = mine
               /\ \A d \in Domains :
                    domainOwner'[d] # domainOwner[d] /\ domainOwner[d] # NoOne
                      => \/ OrgOf[domainOwner[d]] = mine
                         \/ job[p].kind = "transfer" /\ job[p].domain = d]_vars
  BY OwnRowsStep DEF OwnRowsOnly
<1> QED
  BY <1>1, IndInvCorrect, ScopedCorrect, PTL DEF Spec, OthersLeftAlone

-----------------------------------------------------------------------------
(* What holds when requests do not overlap.                                *)

\* Writing what is taken from the only request there is leaves nothing behind.
LEMMA SerialFinish ==
  ASSUME IndInv, SerialInv, Serial, NEW p \in Requests, Finish(p), \A o \in Orgs : Owners(o)' # {}
  PROVE  SerialInv'
<1>1. pc'[p] = "idle" /\ job'[p] = NoJob /\ seen'[p] = 0
  BY DEF Finish, IndInv, TypeOK, RequestsTyped
<1>2. \A q \in Requests : q = p
  BY DEF Serial
<1> QED
  BY <1>1, <1>2 DEF SerialInv, NoJob

\* No organization is left without an owner: the only request has counted right.
LEMMA SerialOwners ==
  ASSUME IndInv, SerialInv, [Next]_vars, NEW o \in Orgs
  PROVE  Owners(o)' # {}
<1> SUFFICES ASSUME Owners(o)' = {} PROVE FALSE
  OBVIOUS
<1>1. PICK p \in Requests : LastOwnerLeaves(p, o)
  BY OwnerLossStep DEF SerialInv
<1>2. OrgOf[job[p].target] = o /\ seen[p] > Cardinality(Owners(o))
  BY <1>1 DEF LastOwnerLeaves, SerialInv
<1>3. seen[p] \in Nat /\ Cardinality(Owners(o)) \in Nat
  BY OwnersFinite DEF IndInv, TypeOK, RequestsTyped
<1>4. seen[p] # 0 /\ seen[p] <= Cardinality(Owners(o))
  BY <1>2, <1>3 DEF SerialInv
<1> QED
  BY <1>2, <1>3, <1>4

\* A request arrives when there is no other.
LEMMA SerialArrive ==
  ASSUME IndInv, SerialInv, Serial, NEW p \in Requests, Arrive(p)
  PROVE  SerialInv'
<1>1. \A q \in Requests : q = p
  BY DEF Serial
<1>2. ASSUME NEW j, Authorize(p, j),
             j.kind = "transfer" /\ domainOwner[j.domain] # NoOne =>
               OrgOf[domainOwner[j.domain]] = OrgOf[j.actor]
      PROVE  SerialInv'
  <2>1. /\ job'[p] = j /\ pc[p] = "idle" /\ pc'[p] = "authorized" /\ j.kind \in Kinds
        /\ seen' = seen /\ UNCHANGED rowVars
    BY <1>2 DEF Authorize, Goto, IndInv, TypeOK, RequestsTyped
  <2>2. seen[p] = 0 /\ j.kind # "terminate"
    BY <2>1 DEF SerialInv, Serial
  <2> QED
    BY <1>1, <1>2, <2>1, <2>2 DEF SerialInv, rowVars, Owners
<1>3. CASE \E actor \in Customers : BeginTerminateAccount(p, actor)
  BY <1>2, <1>3 DEF BeginTerminateAccount
<1>4. CASE \E actor \in Customers, d \in Domains : BeginCreateDomain(p, actor, d)
  BY <1>2, <1>4 DEF BeginCreateDomain
<1>5. CASE \E actor, target \in Customers : BeginRemoveMember(p, actor, target)
  BY <1>2, <1>5 DEF BeginRemoveMember
<1>6. CASE \E actor, target \in Customers, d \in Domains : BeginTransferDomain(p, actor, d, target)
  BY <1>2, <1>6 DEF BeginTransferDomain
<1>7. CASE \E actor, target \in Customers, r \in InputRoles :
             BeginUpdateMemberRole(p, actor, target, r) \/ BeginCreateInvitation(p, actor, target, r)
  BY <1>2, <1>7 DEF BeginUpdateMemberRole, BeginCreateInvitation
<1> QED
  BY <1>3, <1>4, <1>5, <1>6, <1>7 DEF Arrive

\* There is another owner than the one who goes.
LEMMA SerialHeir ==
  ASSUME IndInv, SerialInv, NEW p \in Requests, pc[p] = "checked", job[p].kind = "remove"
  PROVE  Owners(OrgOf[job[p].target]) \ {job[p].target} # {}
<1> DEFINE t == job[p].target
           o == OrgOf[t]
<1>1. t \in Customers /\ o \in Orgs
  BY JobFields DEF IndInv, TypeOK
<1>2. Owners(o) # {}
  BY <1>1 DEF SerialInv
<1>3. CASE role[t] = "owner"
  <2>1. seen[p] >= 2
    BY <1>3 DEF IndInv, Counted, TakesOwner
  <2>2. seen[p] \in Nat /\ Cardinality(Owners(o)) \in Nat
    BY <1>1, OwnersFinite DEF IndInv, TypeOK, RequestsTyped
  <2>3. seen[p] # 0 => seen[p] <= Cardinality(Owners(o))
    BY <1>1 DEF SerialInv
  <2>4. Cardinality(Owners(o)) # 1
    BY <2>1, <2>2, <2>3
  <2>5. Owners(o) # {t}
    BY <2>4, FS_Singleton
  <2> QED
    BY <1>2, <2>5
<1>4. CASE role[t] # "owner"
  <2>1. t \notin Owners(o)
    BY <1>4 DEF Owners
  <2> QED
    BY <1>2, <2>1
<1> QED
  BY <1>3, <1>4

\* A step of the only request that does not end it writes no rows.
LEMMA SerialReads ==
  ASSUME IndInv, SerialInv, Serial, NEW p \in Requests,
         LockMember(p) \/ CountOwners(p) \/ SkipCount(p) \/ PickHeir(p) \/ Reassign(p), ~ Fail(p)
  PROVE  SerialInv'
<1>1. /\ \A q \in Requests : q = p
      /\ UNCHANGED <<role, domainOwner, job>>
  BY DEF Serial, LockMember, CountOwners, SkipCount, PickHeir, Reassign, rowVars
<1>2. /\ p \in DOMAIN pc /\ p \in DOMAIN seen /\ p \in DOMAIN heir /\ p \in DOMAIN moved
      /\ seen[p] \in Nat /\ heir[p] \in Customers \cup {NoOne}
  BY DEF IndInv, TypeOK, RequestsTyped
<1>3. \A o \in Orgs : Owners(o)' = Owners(o)
  BY <1>1 DEF Owners
<1> SUFFICES /\ seen'[p] # 0 => pc'[p] # "idle"
             /\ \A o \in Orgs : seen'[p] # 0 /\ OrgOf[job[p].target] = o =>
                  seen'[p] <= Cardinality(Owners(o))
             /\ pc'[p] \in {"picked", "moved"} => heir'[p] # NoOne
             /\ pc'[p] = "moved" =>
                  \A d \in Domains : domainOwner[d] = job[p].target => d \in moved'[p]
  BY <1>1, <1>3 DEF SerialInv
<1>4. CASE LockMember(p)
  BY <1>2, <1>4 DEF LockMember, Goto, SerialInv
<1>5. CASE CountOwners(p)
  <2>1. job[p].target \in Customers
    BY <1>5, JobFields DEF CountOwners, IndInv, TypeOK
  <2>2. Cardinality(Owners(OrgOf[job[p].target])) \in Nat
    BY <2>1, OwnersFinite
  <2> QED
    BY <1>2, <1>5, <2>2 DEF CountOwners, Goto
<1>6. CASE SkipCount(p)
  BY <1>2, <1>6 DEF SkipCount, Goto, SerialInv
<1>7. CASE PickHeir(p)
  <2>1. Owners(OrgOf[job[p].target]) \ {job[p].target} # {}
    BY <1>7, SerialHeir DEF PickHeir
  <2>2. PICK c \in Owners(OrgOf[job[p].target]) : heir' = [heir EXCEPT ![p] = c]
    BY <1>7, <2>1 DEF PickHeir
  <2>3. heir'[p] # NoOne
    BY <1>2, <2>2 DEF Owners
  <2> QED
    BY <1>2, <1>7, <2>3 DEF PickHeir, Goto, SerialInv
<1>8. CASE Reassign(p)
  <2>1. heir[p] # NoOne
    BY <1>8 DEF Reassign, SerialInv
  <2> QED
    BY <1>2, <1>8, <2>1 DEF Reassign, Goto, SerialInv, DomainsOf
<1> QED
  BY <1>4, <1>5, <1>6, <1>7, <1>8

\* Who joins adds to the owners, if anything.
LEMMA SerialJoin ==
  ASSUME IndInv, SerialInv, NEW c \in Customers, Join(c)
  PROVE  SerialInv'
<1>1. UNCHANGED <<domainOwner, pc, job, seen, heir, moved>>
  BY DEF Join
<1>2. ASSUME NEW o PROVE Owners(o) \subseteq Owners(o)'
  BY DEF Join, Owners, IndInv, TypeOK, RowsTyped
<1>3. ASSUME NEW o PROVE /\ Cardinality(Owners(o)) \in Nat /\ Cardinality(Owners(o)') \in Nat
                         /\ Cardinality(Owners(o)) <= Cardinality(Owners(o)')
  <2>1. IsFiniteSet(Owners(o)')
    BY FS_Subset, FiniteAssumption DEF Owners
  <2> QED
    BY <1>2, <2>1, FS_Subset, FS_CardinalityType
<1>4. \A o \in Orgs : Owners(o)' # {}
  BY <1>2 DEF SerialInv
<1>5. ASSUME NEW p \in Requests, NEW o \in Orgs, seen'[p] # 0, OrgOf[job'[p].target] = o
      PROVE  seen'[p] <= Cardinality(Owners(o)')
  <2>1. seen[p] <= Cardinality(Owners(o)) /\ seen[p] \in Nat /\ seen' = seen
    BY <1>1, <1>5 DEF SerialInv, IndInv, TypeOK, RequestsTyped
  <2> QED
    BY <1>3, <2>1
<1> QED
  BY <1>1, <1>4, <1>5 DEF SerialInv

LEMMA SerialStep ==
  ASSUME IndInv, SerialInv, Serial, [Next]_vars
  PROVE  SerialInv'
<1>1. \A o \in Orgs : Owners(o)' # {}
  BY SerialOwners
<1>2. ASSUME NEW p \in Requests, Step(p) PROVE SerialInv'
  <2>1. CASE Finish(p)
    BY <1>1, <2>1, SerialFinish
  <2>2. CASE ~ Finish(p)
    <3>1. ~ Fail(p)
      BY <2>2 DEF Fail
    <3>2. LockMember(p) \/ CountOwners(p) \/ SkipCount(p) \/ PickHeir(p) \/ Reassign(p)
      BY <1>2, <2>2 DEF Step, CommitRole, CommitRemove, InsertInvitation, TerminateDelete,
        TransferDomain, InsertDomain, Fail
    <3> QED
      BY <3>1, <3>2, SerialReads
  <2> QED
    BY <2>1, <2>2
<1>3. ASSUME NEW p \in Requests, Abort(p) PROVE SerialInv'
  BY <1>1, <1>3, SerialFinish DEF Abort, Fail
<1>4. CASE UNCHANGED vars
  BY <1>4 DEF vars, SerialInv, Owners
<1> QED
  BY <1>2, <1>3, <1>4, SerialArrive, SerialJoin DEF Next

\* The inductive invariant of one request at a time.
THEOREM SerialInvCorrect == Serial /\ Spec => []SerialInv
<1>1. Init => SerialInv
  BY DEF Init, SerialInv, NoJob
<1>2. Serial /\ IndInv /\ SerialInv /\ [Next]_vars => SerialInv'
  BY SerialStep
<1>3. Serial => []Serial
  <2>1. Serial => Serial'
    BY DEF Serial
  <2> QED
    BY <2>1, PTL
<1> QED
  BY <1>1, <1>2, <1>3, IndInvCorrect, PTL DEF Spec

\* "organization must keep at least one owner" (db.ErrLastOwner) holds of
\* requests that do not overlap.
THEOREM SerialKeepsOwners == Serial /\ Spec => []OrganizationKeepsOwner
<1>1. SerialInv => OrganizationKeepsOwner
  BY DEF SerialInv, OrganizationKeepsOwner
<1> QED
  BY <1>1, SerialInvCorrect, PTL

\* Then a removal keeps all of the team's domains, in the organization.
THEOREM SerialKeepsDomains == Serial /\ Spec => RemovalKeepsDomains
<1>1. ASSUME IndInv, Scoped, SerialInv, [Next]_vars, NEW p \in Requests, NEW d \in Domains,
             job[p].kind = "remove", pc[p] # "idle", pc'[p] = "idle", domainOwner[d] # NoOne
      PROVE  domainOwner'[d] # NoOne /\ OrgOf[domainOwner'[d]] = OrgOf[domainOwner[d]]
  <2>1. CASE domainOwner'[d] # domainOwner[d]
    <3>1. pc[p] = "moved" /\ domainOwner[d] = job[p].target
      BY <1>1, <2>1, EndingStep, RemovalStep DEF CommitRole, CommitRemove, TerminateDelete,
        TransferDomain, InsertDomain
    <3>2. d \in moved[p]
      BY <1>1, <3>1 DEF SerialInv
    <3> QED
      BY <1>1, <2>1, <3>1, <3>2, RemovalStep
  <2> QED
    BY <1>1, <2>1
<1>2. IndInv /\ Scoped /\ SerialInv /\ [Next]_vars =>
        [\A p \in Requests, d \in Domains :
           /\ job[p].kind = "remove" /\ pc[p] # "idle" /\ pc'[p] = "idle"
           /\ domainOwner[d] # NoOne
           => /\ domainOwner'[d] # NoOne
              /\ OrgOf[domainOwner'[d]] = OrgOf[domainOwner[d]]]_vars
  BY <1>1
<1> QED
  BY <1>2, IndInvCorrect, ScopedCorrect, SerialInvCorrect, PTL DEF RemovalKeepsDomains, Spec

\* And no request touches another organization's members or domains.
THEOREM SerialKeepsApart == Serial /\ Spec => TenantIsolation
<1>1. ASSUME IndInv, Scoped, SerialInv, [Next]_vars, NEW p \in Requests,
             pc[p] # "idle", pc'[p] = "idle"
      PROVE  /\ \A c \in Customers : role'[c] # role[c] => OrgOf[c] = OrgOf[job[p].actor]
             /\ \A d \in Domains : domainOwner'[d] # domainOwner[d] /\ domainOwner[d] # NoOne
                  => OrgOf[domainOwner[d]] = OrgOf[job[p].actor]
  BY <1>1, OwnRowsStep DEF OwnRowsOnly, SerialInv
<1>2. IndInv /\ Scoped /\ SerialInv /\ [Next]_vars =>
        [\A p \in Requests : pc[p] # "idle" /\ pc'[p] = "idle" =>
           LET mine == OrgOf[job[p].actor]
           IN  /\ \A c \in Customers : role'[c] # role[c] => OrgOf[c] = mine
               /\ \A d \in Domains :
                    domainOwner'[d] # domainOwner[d] /\ domainOwner[d] # NoOne
                      => OrgOf[domainOwner[d]] = mine]_vars
  BY <1>1
<1> QED
  BY <1>2, IndInvCorrect, ScopedCorrect, SerialInvCorrect, PTL DEF TenantIsolation, Spec

-----------------------------------------------------------------------------
(* Fairness.                                                               *)

\* The deadlock detector aborts as a client does: the specification with
\* fairness adds no step, so all of this holds of it too.
THEOREM FairSpecRefines == FairSpec => Spec
<1>1. ASSUME NEW p \in Requests, DeadlockVictim(p) PROVE Abort(p)
  BY <1>1 DEF DeadlockVictim, Deadlocked, WaitsFor, Abort
<1>2. [FairNext]_vars => [Next]_vars
  BY <1>1 DEF FairNext, Next
<1> QED
  BY <1>2, PTL DEF FairSpec, Spec
=============================================================================
