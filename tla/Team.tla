-------------------------------- MODULE Team --------------------------------
(***************************************************************************)
(* The team of an organization: its members and their roles, the domains   *)
(* each member created, and the requests that change either one            *)
(* (backend/internal/handlers/organization_members.go, account.go,         *)
(* domain_settings_extra.go and the statements of backend/internal/db      *)
(* they run).                                                              *)
(*                                                                         *)
(* A request is a process.  Its first step resolves the actor and checks   *)
(* the actor's role (requireOrgActor, authz); what follows runs later,     *)
(* when the role may have changed.  A transaction runs under READ          *)
(* COMMITTED: a statement sees what was committed when it started, and     *)
(* only a row it locked stays as it saw it.  What a transaction wrote is   *)
(* kept with the request and published by its last step, which is its last *)
(* statement and the COMMIT.                                               *)
(*                                                                         *)
(* Row locks are derived from the program counters: a request holds its    *)
(* target's organization_members row from SELECT ... FOR UPDATE on, the    *)
(* domains rows in moved[p], and a KEY SHARE lock on the customers row the *)
(* moved domains will refer to.                                            *)
(***************************************************************************)
EXTENDS Naturals, FiniteSets

CONSTANTS
  Customers,     \* identifiers of customers rows, never reused
  Orgs,          \* organizations
  OrgOf,         \* customers.organization_id, never updated by any statement
  Domains,       \* domain names
  Requests,      \* requests in flight at the same time
  Kinds,         \* the kinds of request this instance lets arrive
  InputRoles,    \* the roles named in requests of this instance
  NoOne,         \* no customer
  NoDomain       \* no domain

Roles == {"owner", "admin", "helpdesk", "billing", "read_only"}
KindNames == {"role", "remove", "invite", "terminate", "transfer", "create"}

ASSUME NoOneAssumption == NoOne \notin Customers
ASSUME NoDomainAssumption == NoDomain \notin Domains
ASSUME OrgOfAssumption == OrgOf \in [Customers -> Orgs]
ASSUME FiniteAssumption == IsFiniteSet(Customers)
ASSUME InputAssumption == Kinds \subseteq KindNames /\ InputRoles \subseteq Roles

VARIABLES
  role,         \* organization_members.role; "none" before the row, "gone" after
  domainOwner,  \* domains.customer_id, or NoOne when there is no row
  invite,       \* the open invitation of a customer-to-be: its role and inviter
  grantor,      \* history: who gave the customer its present role
  everOwner,    \* history: customers that have held the owner role
  pc,           \* where each request is
  job,          \* what each request was asked to do, and by whom
  seen,         \* the owner count the request read
  heir,         \* newOwnerID of RemoveMember
  moved         \* domains the request has reassigned and not yet committed

vars == <<role, domainOwner, invite, grantor, everOwner, pc, job, seen, heir, moved>>
rowVars == <<role, domainOwner, invite, grantor, everOwner>>

-----------------------------------------------------------------------------
Exists(c) == role[c] \in Roles
Members(o) == {c \in Customers : Exists(c) /\ OrgOf[c] = o}
Owners(o) == {c \in Customers : role[c] = "owner" /\ OrgOf[c] = o}
DomainsOf(c) == {d \in Domains : domainOwner[d] = c}

CanManageTeam(r) == r \in {"owner", "admin"}
\* (fault) an admin may hand out the owner role.
CanAssignRole_AnyRole(r, new) == CanManageTeam(r)
CanAssignRole(r, new) == CanManageTeam(r) /\ (new = "owner" => r = "owner")
CanManageDomains(r) == r \in {"owner", "admin"}
CanDeleteOrTransferDomain(r) == r = "owner"

NoJob == [kind |-> "none", actor |-> NoOne, target |-> NoOne,
          newRole |-> "none", domain |-> NoDomain]
NoInvite == [role |-> "none", by |-> NoOne]
InviteType == [role : Roles \cup {"none"}, by : Customers \cup {NoOne}]
JobType == [kind : KindNames, actor : Customers, target : Customers,
            newRole : Roles \cup {"none"}, domain : Domains \cup {NoDomain}]

InTransaction == {"locked", "checked", "picked", "moved"}

\* The transaction of request p holds the row lock on c's membership.
HoldsMember(p, c) ==
  /\ pc[p] \in InTransaction
  /\ job[p].target = c

\* The transaction of request p keeps c's customers row from being deleted:
\* the foreign key of the domains it reassigned to c.
HoldsKeyShare(p, c) == pc[p] = "moved" /\ moved[p] # {} /\ heir[p] = c

MemberLockedByOther(p, c) == \E q \in Requests \ {p} : HoldsMember(q, c)
KeySharedByOther(p, c) == \E q \in Requests \ {p} : HoldsKeyShare(q, c)
DomainLockedByOther(p, d) == \E q \in Requests \ {p} : d \in moved[q]

\* The request ends, having answered, or rolled its transaction back.
Finish(p) ==
  /\ pc' = [pc EXCEPT ![p] = "idle"]
  /\ job' = [job EXCEPT ![p] = NoJob]
  /\ seen' = [seen EXCEPT ![p] = 0]
  /\ heir' = [heir EXCEPT ![p] = NoOne]
  /\ moved' = [moved EXCEPT ![p] = {}]

Goto(p, l) == pc' = [pc EXCEPT ![p] = l]

Fail(p) == Finish(p) /\ UNCHANGED rowVars

-----------------------------------------------------------------------------
\* Any team with an owner, reached by earlier signups and invitations.
Init ==
  /\ role \in [Customers -> InputRoles \cup {"none"}]
  /\ \A o \in Orgs : Owners(o) # {}
  /\ domainOwner \in [Domains -> {c \in Customers : Exists(c)} \cup {NoOne}]
  /\ invite = [c \in Customers |-> NoInvite]
  /\ grantor = [c \in Customers |-> NoOne]
  /\ everOwner = {c \in Customers : role[c] = "owner"}
  /\ pc = [p \in Requests |-> "idle"]
  /\ job = [p \in Requests |-> NoJob]
  /\ seen = [p \in Requests |-> 0]
  /\ heir = [p \in Requests |-> NoOne]
  /\ moved = [p \in Requests |-> {}]

-----------------------------------------------------------------------------
(* The checks a handler makes before it writes.                            *)

Authorize(p, j) ==
  /\ pc[p] = "idle"
  /\ j.kind \in Kinds
  /\ Exists(j.actor)
  /\ job' = [job EXCEPT ![p] = j]
  /\ Goto(p, "authorized")
  /\ UNCHANGED <<rowVars, seen, heir, moved>>

\* UpdateMemberRole: never one's own role, and only a role one may assign.
BeginUpdateMemberRole(p, actor, target, newRole) ==
  /\ target # actor
  /\ CanAssignRole(role[actor], newRole)
  /\ Exists(target) /\ OrgOf[target] = OrgOf[actor]
  /\ Authorize(p, [kind |-> "role", actor |-> actor, target |-> target,
                   newRole |-> newRole, domain |-> NoDomain])

\* (fault) the target's organization is not compared with the actor's.
BeginRemoveMember_AnyOrg(p, actor, target) ==
  /\ target # actor
  /\ CanManageTeam(role[actor])
  /\ Exists(target)
  /\ Authorize(p, [kind |-> "remove", actor |-> actor, target |-> target,
                   newRole |-> "none", domain |-> NoDomain])

\* RemoveMember: an existing member of the actor's organization, never oneself.
BeginRemoveMember(p, actor, target) ==
  /\ target # actor
  /\ CanManageTeam(role[actor])
  /\ Exists(target) /\ OrgOf[target] = OrgOf[actor]
  /\ Authorize(p, [kind |-> "remove", actor |-> actor, target |-> target,
                   newRole |-> "none", domain |-> NoDomain])

\* CreateInvitation: the address is not a member, the role may be assigned.
BeginCreateInvitation(p, actor, target, newRole) ==
  /\ CanAssignRole(role[actor], newRole)
  /\ role[target] = "none" /\ OrgOf[target] = OrgOf[actor]
  /\ Authorize(p, [kind |-> "invite", actor |-> actor, target |-> target,
                   newRole |-> newRole, domain |-> NoDomain])

\* TerminateAccount: refused when the team has another member.
BeginTerminateAccount(p, actor) ==
  /\ Cardinality(Members(OrgOf[actor])) <= 1
  /\ Authorize(p, [kind |-> "terminate", actor |-> actor, target |-> actor,
                   newRole |-> "none", domain |-> NoDomain])

\* TransferDomain: a domain of the organization, to any other account.
BeginTransferDomain(p, actor, d, target) ==
  /\ CanDeleteOrTransferDomain(role[actor])
  /\ domainOwner[d] # NoOne
  /\ OrgOf[domainOwner[d]] = OrgOf[actor]
  /\ Exists(target) /\ target # actor
  /\ Authorize(p, [kind |-> "transfer", actor |-> actor, target |-> target,
                   newRole |-> "none", domain |-> d])

\* CreateDomain, up to its insert (plan limits and the mail cluster apart).
BeginCreateDomain(p, actor, d) ==
  /\ CanManageDomains(role[actor])
  /\ Authorize(p, [kind |-> "create", actor |-> actor, target |-> actor,
                   newRole |-> "none", domain |-> d])

Arrive(p) ==
  \E actor \in Customers :
    \/ BeginTerminateAccount(p, actor)
    \/ \E d \in Domains : BeginCreateDomain(p, actor, d)
    \/ \E target \in Customers :
         \/ BeginRemoveMember(p, actor, target)
         \/ \E d \in Domains : BeginTransferDomain(p, actor, d, target)
         \/ \E r \in InputRoles :
              \/ BeginUpdateMemberRole(p, actor, target, r)
              \/ BeginCreateInvitation(p, actor, target, r)

-----------------------------------------------------------------------------
(* The transactions of db.UpdateMemberRole and db.RemoveMember.            *)

\* The change takes the owner role away from its target.
TakesOwner(p) ==
  /\ role[job[p].target] = "owner"
  /\ job[p].kind = "role" => job[p].newRole # "owner"

\* (fault) the SELECT without FOR UPDATE.
LockMember_NoLock(p) ==
  /\ pc[p] = "authorized" /\ job[p].kind \in {"role", "remove"}
  /\ IF Exists(job[p].target)
       THEN Goto(p, "locked") /\ UNCHANGED <<rowVars, job, seen, heir, moved>>
       ELSE Fail(p)

\* SELECT role ... WHERE organization_id AND customer_id FOR UPDATE.
LockMember(p) ==
  /\ pc[p] = "authorized" /\ job[p].kind \in {"role", "remove"}
  /\ ~MemberLockedByOther(p, job[p].target)
  /\ IF Exists(job[p].target)
       THEN Goto(p, "locked") /\ UNCHANGED <<rowVars, job, seen, heir, moved>>
       ELSE Fail(p)

\* (fault) off by one: the last owner may go.
CountOwners_LetsLastGo(p) ==
  /\ pc[p] = "locked" /\ TakesOwner(p)
  /\ seen' = [seen EXCEPT ![p] = Cardinality(Owners(OrgOf[job[p].target]))]
  /\ Goto(p, "checked")
  /\ UNCHANGED <<rowVars, job, heir, moved>>

\* (fault) the refusal returns without the deferred Rollback.
CountOwners_NoRollback(p) ==
  /\ pc[p] = "locked" /\ TakesOwner(p)
  /\ Cardinality(Owners(OrgOf[job[p].target])) > 1
  /\ seen' = [seen EXCEPT ![p] = Cardinality(Owners(OrgOf[job[p].target]))]
  /\ Goto(p, "checked")
  /\ UNCHANGED <<rowVars, job, heir, moved>>

\* SELECT count(*) ... role = 'owner', only when an owner would be lost.
CountOwners(p) ==
  /\ pc[p] = "locked" /\ TakesOwner(p)
  /\ LET n == Cardinality(Owners(OrgOf[job[p].target]))
     IN  IF n <= 1
           THEN Fail(p)
           ELSE /\ seen' = [seen EXCEPT ![p] = n]
                /\ Goto(p, "checked")
                /\ UNCHANGED <<rowVars, job, heir, moved>>

SkipCount(p) ==
  /\ pc[p] = "locked" /\ ~TakesOwner(p)
  /\ Goto(p, "checked")
  /\ UNCHANGED <<rowVars, job, seen, heir, moved>>

\* UPDATE organization_members SET role, COMMIT.
CommitRole(p) ==
  /\ pc[p] = "checked" /\ job[p].kind = "role"
  /\ role' = [role EXCEPT ![job[p].target] = job[p].newRole]
  /\ grantor' = [grantor EXCEPT ![job[p].target] = job[p].actor]
  /\ everOwner' = IF job[p].newRole = "owner" THEN everOwner \cup {job[p].target}
                                              ELSE everOwner
  /\ Finish(p)
  /\ UNCHANGED <<domainOwner, invite>>

\* (fault) without "customer_id != $2" the new owner may be the one leaving.
PickHeir_MaybeSelf(p) ==
  /\ pc[p] = "checked" /\ job[p].kind = "remove"
  /\ LET others == Owners(OrgOf[job[p].target])
     IN  \/ \E c \in others : heir' = [heir EXCEPT ![p] = c]
         \/ others = {} /\ UNCHANGED heir
  /\ Goto(p, "picked")
  /\ UNCHANGED <<rowVars, job, seen, moved>>

\* SELECT customer_id ... role = 'owner' AND customer_id != $2 LIMIT 1.
PickHeir(p) ==
  /\ pc[p] = "checked" /\ job[p].kind = "remove"
  /\ LET others == Owners(OrgOf[job[p].target]) \ {job[p].target}
     IN  \/ \E c \in others : heir' = [heir EXCEPT ![p] = c]
         \/ others = {} /\ UNCHANGED heir
  /\ Goto(p, "picked")
  /\ UNCHANGED <<rowVars, job, seen, moved>>

\* UPDATE domains SET customer_id = newOwnerID WHERE customer_id = $2.  It
\* fails on the foreign key when the new owner is gone; without a new owner it
\* is not run at all.  (Its rows are not locked by another: MovedStillTheirs.)
Reassign(p) ==
  /\ pc[p] = "picked"
  /\ LET mine == IF heir[p] = NoOne THEN {} ELSE DomainsOf(job[p].target)
     IN  IF mine = {} \/ Exists(heir[p])
           THEN /\ moved' = [moved EXCEPT ![p] = mine]
                /\ Goto(p, "moved")
                /\ UNCHANGED <<rowVars, job, seen, heir>>
           ELSE Fail(p)

\* What DELETE FROM customers cascades to; the same transaction has written the
\* new owner of the domains in "kept".
DeleteCustomer(c, kept, newOwner) ==
  /\ role' = [role EXCEPT ![c] = "gone"]
  /\ LET owner(d) == IF d \in kept THEN newOwner ELSE domainOwner[d]
     IN  domainOwner' = [d \in Domains |-> IF owner(d) = c THEN NoOne ELSE owner(d)]
  /\ invite' = [x \in Customers |-> IF invite[x].by = c THEN NoInvite ELSE invite[x]]
  /\ UNCHANGED <<grantor, everOwner>>

\* (fault) the reassigned domains do not hold their new owner's row.
CommitRemove_NoKeyShare(p) ==
  /\ pc[p] = "moved"
  /\ DeleteCustomer(job[p].target, moved[p], heir[p])
  /\ Finish(p)

\* DELETE FROM customers, COMMIT.
CommitRemove(p) ==
  /\ pc[p] = "moved"
  /\ ~KeySharedByOther(p, job[p].target)
  /\ DeleteCustomer(job[p].target, moved[p], heir[p])
  /\ Finish(p)

-----------------------------------------------------------------------------
(* The single statements of the other requests.                            *)

\* INSERT INTO organization_invitations; the inviter is a foreign key and an
\* open invitation for the same address a unique index.
InsertInvitation(p) ==
  /\ pc[p] = "authorized" /\ job[p].kind = "invite"
  /\ IF /\ Exists(job[p].actor)
        /\ role[job[p].target] = "none"
        /\ invite[job[p].target] = NoInvite
       THEN /\ invite' = [invite EXCEPT ![job[p].target] =
                            [role |-> job[p].newRole, by |-> job[p].actor]]
            /\ Finish(p)
            /\ UNCHANGED <<role, domainOwner, grantor, everOwner>>
       ELSE Fail(p)

\* AcceptInvitationForNewCustomer: the account and its membership at once.
Join(c) ==
  /\ role[c] = "none" /\ invite[c] # NoInvite
  /\ role' = [role EXCEPT ![c] = invite[c].role]
  /\ grantor' = [grantor EXCEPT ![c] = invite[c].by]
  /\ everOwner' = IF invite[c].role = "owner" THEN everOwner \cup {c} ELSE everOwner
  /\ invite' = [invite EXCEPT ![c] = NoInvite]
  /\ UNCHANGED <<domainOwner, pc, job, seen, heir, moved>>

\* TerminateAccount's DeleteCustomer, after its calls to the mail cluster.
TerminateDelete(p) ==
  /\ pc[p] = "authorized" /\ job[p].kind = "terminate"
  /\ ~MemberLockedByOther(p, job[p].actor)
  /\ ~KeySharedByOther(p, job[p].actor)
  /\ DeleteCustomer(job[p].actor, {}, NoOne)
  /\ Finish(p)

\* UPDATE domains SET customer_id WHERE id: whoever holds the domain by now.
TransferDomain(p) ==
  /\ pc[p] = "authorized" /\ job[p].kind = "transfer"
  /\ ~DomainLockedByOther(p, job[p].domain)
  /\ IF domainOwner[job[p].domain] # NoOne /\ Exists(job[p].target)
       THEN /\ domainOwner' = [domainOwner EXCEPT ![job[p].domain] = job[p].target]
            /\ Finish(p)
            /\ UNCHANGED <<role, invite, grantor, everOwner>>
       ELSE Fail(p)

\* INSERT INTO domains: the name is unique and the creator a foreign key.
InsertDomain(p) ==
  /\ pc[p] = "authorized" /\ job[p].kind = "create"
  /\ IF domainOwner[job[p].domain] = NoOne /\ Exists(job[p].actor)
       THEN /\ domainOwner' = [domainOwner EXCEPT ![job[p].domain] = job[p].actor]
            /\ Finish(p)
            /\ UNCHANGED <<role, invite, grantor, everOwner>>
       ELSE Fail(p)

\* (fault) the transaction's reassignments survive a rollback.
Abort_KeepsTransaction(p) ==
  /\ pc[p] # "idle"
  /\ Goto(p, "idle")
  /\ UNCHANGED <<rowVars, job, seen, heir, moved>>

\* The client goes away (r.Context() is cancelled) or the server does: the
\* transaction is rolled back, what was committed stays.
Abort(p) == pc[p] # "idle" /\ Fail(p)

-----------------------------------------------------------------------------
Step(p) ==
  \/ LockMember(p) \/ CountOwners(p) \/ SkipCount(p) \/ CommitRole(p)
  \/ PickHeir(p) \/ Reassign(p) \/ CommitRemove(p)
  \/ InsertInvitation(p) \/ TerminateDelete(p)
  \/ TransferDomain(p) \/ InsertDomain(p)

Next ==
  \/ \E p \in Requests : Arrive(p) \/ Step(p) \/ Abort(p)
  \/ \E c \in Customers : Join(c)

Spec == Init /\ [][Next]_vars

-----------------------------------------------------------------------------
(* Waiting for locks, and Postgres' answer to a cycle of waiters.          *)

WaitsFor(p, q) ==
  /\ p # q
  /\ \/ pc[p] = "authorized" /\ job[p].kind \in {"role", "remove"}
          /\ HoldsMember(q, job[p].target)
     \/ pc[p] = "moved" /\ HoldsKeyShare(q, job[p].target)
     \/ pc[p] = "authorized" /\ job[p].kind = "terminate"
          /\ (HoldsMember(q, job[p].actor) \/ HoldsKeyShare(q, job[p].actor))
     \/ pc[p] = "authorized" /\ job[p].kind = "transfer"
          /\ job[p].domain \in moved[q]

\* A set of transactions each of which waits for another of the set.
Deadlocked(S) == S # {} /\ \A p \in S : \E q \in S : WaitsFor(p, q)

\* deadlock_timeout: one transaction of the cycle is aborted.
DeadlockVictim(p) ==
  /\ \E S \in SUBSET Requests : p \in S /\ Deadlocked(S)
  /\ Fail(p)

FairNext == Next \/ \E p \in Requests : DeadlockVictim(p)

\* A handler runs on once it has started and lock queues are first come,
\* first served (SF); requests need not arrive and clients need not leave.
FairSpec ==
  /\ Init /\ [][FairNext]_vars
  /\ \A p \in Requests : SF_vars(Step(p)) /\ WF_vars(DeadlockVictim(p))

-----------------------------------------------------------------------------
(* Properties.                                                             *)

RowsTyped ==
  /\ role \in [Customers -> Roles \cup {"none", "gone"}]
  /\ domainOwner \in [Domains -> Customers \cup {NoOne}]
  /\ invite \in [Customers -> InviteType]
  /\ grantor \in [Customers -> Customers \cup {NoOne}]
  /\ everOwner \subseteq Customers

RequestsTyped ==
  /\ pc \in [Requests -> {"idle", "authorized"} \cup InTransaction]
  /\ job \in [Requests -> JobType \cup {NoJob}]
  /\ seen \in [Requests -> Nat]
  /\ heir \in [Requests -> Customers \cup {NoOne}]
  /\ moved \in [Requests -> SUBSET Domains]
  /\ \A p \in Requests : (pc[p] = "idle") <=> (job[p] = NoJob)

TypeOK == RowsTyped /\ RequestsTyped

\* Every domain belongs to an account that exists: reassigning a departing
\* member's domains never hands them to somebody who is removed meanwhile.
DomainOwnerExists == \A d \in Domains : domainOwner[d] # NoOne => Exists(domainOwner[d])

\* What a removal has reassigned but not committed is still its target's: no
\* transfer or other removal touches those rows in between.
MovedStillTheirs ==
  \A p \in Requests : \A d \in moved[p] : domainOwner[d] = job[p].target

\* Only owners make owners (authz.CanAssignRole), however long ago the request
\* or the invitation that carries the role was authorized.
OwnersGrantedByOwners ==
  \A c \in Customers :
    role[c] = "owner" => grantor[c] = NoOne \/ grantor[c] \in everOwner

\* An organization loses its last owner only to a termination, or to a change
\* whose owner count was out of date: the guard of UpdateMemberRole and
\* RemoveMember is right about the moment it read, and fails only there.
OwnerLossOnlyOnStaleCount ==
  [][\A o \in Orgs : Owners(o) # {} /\ Owners(o)' = {} =>
       \E p \in Requests :
         /\ pc[p] # "idle" /\ pc'[p] = "idle"
         /\ \/ job[p].kind = "terminate"
            \/ seen[p] > Cardinality(Owners(o))]_vars

\* The rows one organization's request may write: no role of another
\* organization's member, and no other organization's domain.
TenantIsolation ==
  [][\A p \in Requests : pc[p] # "idle" /\ pc'[p] = "idle" =>
       LET mine == OrgOf[job[p].actor]
       IN  /\ \A c \in Customers : role'[c] # role[c] => OrgOf[c] = mine
           /\ \A d \in Domains :
                domainOwner'[d] # domainOwner[d] /\ domainOwner[d] # NoOne
                  => OrgOf[domainOwner[d]] = mine]_vars

\* "organization must keep at least one owner" (db.ErrLastOwner), as long as
\* it has members.
OrganizationKeepsOwner == \A o \in Orgs : Members(o) # {} => Owners(o) # {}

\* Removing a member never deletes a domain or hands it to another
\* organization: the team keeps what a departing teammate created
\* (db.RemoveMember).
RemovalKeepsDomains ==
  [][\A p \in Requests, d \in Domains :
       /\ job[p].kind = "remove" /\ pc[p] # "idle" /\ pc'[p] = "idle"
       /\ domainOwner[d] # NoOne
       => /\ domainOwner'[d] # NoOne
          /\ OrgOf[domainOwner'[d]] = OrgOf[domainOwner[d]]]_vars

\* What a removal does lose of the team's domains came to the departing member
\* after the reassignment, or there was no owner to give them to: what was
\* reassigned is never lost, and nothing leaves the organization.
RemovalLosesOnlyNewcomers ==
  [][\A p \in Requests, d \in Domains :
       /\ job[p].kind = "remove" /\ pc[p] # "idle" /\ pc'[p] = "idle"
       /\ domainOwner'[d] # domainOwner[d]
       => /\ domainOwner[d] = job[p].target
          /\ IF d \in moved[p]
               THEN domainOwner'[d] # NoOne /\ OrgOf[domainOwner'[d]] = OrgOf[job[p].target]
               ELSE domainOwner'[d] = NoOne]_vars

\* However requests overlap, none touches the members of another organization,
\* and only a transfer its domains: one that was authorized while the domain
\* was still the actor's (TransferDomain names the domain alone).
OthersLeftAlone ==
  [][\A p \in Requests : pc[p] # "idle" /\ pc'[p] = "idle" =>
       LET mine == OrgOf[job[p].actor]
       IN  /\ \A c \in Customers : role'[c] # role[c] => OrgOf[c] = mine
           /\ \A d \in Domains :
                domainOwner'[d] # domainOwner[d] /\ domainOwner[d] # NoOne
                  => \/ OrgOf[domainOwner[d]] = mine
                     \/ job[p].kind = "transfer" /\ job[p].domain = d]_vars

\* Every request ends: removals that wait for each other's rows are told apart
\* by the deadlock detector, and a lock is always released.
RequestsEnd == \A p \in Requests : pc[p] # "idle" ~> pc[p] = "idle"

-----------------------------------------------------------------------------
(* The inductive invariant behind the safety properties.                   *)

\* What kind of request may be where, and row locks are exclusive.
Locking ==
  /\ \A p \in Requests :
       /\ pc[p] \in {"locked", "checked"} => job[p].kind \in {"role", "remove"}
       /\ pc[p] \in {"picked", "moved"} => job[p].kind = "remove"
       /\ job[p].kind \in {"role", "invite"} => job[p].newRole \in Roles
       /\ pc[p] \in InTransaction => Exists(job[p].target)
  /\ \A p, q \in Requests :
       p # q /\ pc[p] \in InTransaction /\ pc[q] \in InTransaction
         => job[p].target # job[q].target

\* Whoever is about to take an owner away has counted at least two.
Counted ==
  \A p \in Requests :
    pc[p] \in {"checked", "picked", "moved"} /\ TakesOwner(p) => seen[p] >= 2

\* The new owner is somebody else, and stays while domains are moved to it.
Moving ==
  \A p \in Requests :
    /\ heir[p] # NoOne => pc[p] \in {"picked", "moved"} /\ heir[p] # job[p].target
    /\ moved[p] # {} => pc[p] = "moved" /\ heir[p] # NoOne /\ Exists(heir[p])

\* The owner role travels with requests and invitations of owners only.
Granted ==
  /\ \A c \in Customers : role[c] = "owner" => c \in everOwner
  /\ \A c \in Customers : invite[c].role = "owner" => invite[c].by \in everOwner
  /\ \A p \in Requests : job[p].newRole = "owner" => job[p].actor \in everOwner

IndInv ==
  /\ TypeOK /\ Locking /\ Counted /\ Moving /\ Granted
  /\ DomainOwnerExists /\ MovedStillTheirs /\ OwnersGrantedByOwners

\* A change of role or a removal stays within the organization of its actor, the
\* new owner of what is moved among it.
Scoped ==
  \A p \in Requests :
    /\ job[p].kind \in {"role", "remove"} => OrgOf[job[p].target] = OrgOf[job[p].actor]
    /\ heir[p] # NoOne => OrgOf[heir[p]] = OrgOf[job[p].target]

\* One request at a time, and none that terminates an account.
Serial == (\A p, q \in Requests : p = q) /\ "terminate" \notin Kinds

\* Then every organization keeps an owner, what a request has counted, picked and
\* moved is still so when it writes, and a domain is still of the organization it
\* was authorized in.
SerialInv ==
  /\ \A o \in Orgs : Owners(o) # {}
  /\ \A p \in Requests :
       /\ job[p].kind # "terminate"
       /\ seen[p] # 0 => pc[p] # "idle"
       /\ \A o \in Orgs : seen[p] # 0 /\ OrgOf[job[p].target] = o =>
            seen[p] <= Cardinality(Owners(o))
       /\ pc[p] \in {"picked", "moved"} => heir[p] # NoOne
       /\ pc[p] = "moved" =>
            \A d \in Domains : domainOwner[d] = job[p].target => d \in moved[p]
       /\ job[p].kind = "transfer" /\ domainOwner[job[p].domain] # NoOne =>
            OrgOf[domainOwner[job[p].domain]] = OrgOf[job[p].actor]
=============================================================================
