---------------------------- MODULE Invitations ----------------------------
(***************************************************************************)
(* Invitations to join an organization: created (superseding one that has  *)
(* expired), revoked, and accepted for a new account                       *)
(* (backend/internal/handlers/organization_invitations.go,                 *)
(* invitations_public.go; backend/internal/db/organization_invitations.go).*)
(*                                                                         *)
(* A request is a process; a transaction's writes stay with the request    *)
(* and are published by its last statement together with COMMIT.  The row  *)
(* lock of an UPDATE is derived from the program counter (Holds).          *)
(*                                                                         *)
(* Expiry is read from two clocks: the API's (time.Now) when an invitation *)
(* is looked up, the database's (now(), the start of the transaction) when *)
(* it is accepted.  Each passes expires_at once, in either order.          *)
(***************************************************************************)
EXTENDS Naturals, FiniteSets

CONSTANTS
  Invites,      \* identifiers of organization_invitations rows
  Emails,       \* addresses people are invited at, in lower case
  Inviters,     \* members who may invite, never reused
  Orgs,
  OrgOf,        \* the organization of an inviter
  Requests,     \* requests in flight at the same time
  NoInvite,     \* no invitation
  Nobody,       \* no account, nobody
  Elsewhere     \* an account outside Orgs: a signup of one's own

ASSUME OrgOfAssumption == OrgOf \in [Inviters -> Orgs]
ASSUME NoInviteAssumption == NoInvite \notin Invites
ASSUME AccountAssumption ==
  /\ Nobody \notin Orgs \cup Emails \cup Inviters
  /\ Elsewhere \notin Orgs \cup {Nobody}

VARIABLES
  row,       \* organization_invitations, by id
  lapsed,    \* the clocks that have passed expires_at of each invitation
  account,   \* customers by address: the organization, or Nobody
  inviters,  \* those of Inviters that still have their customers row
  joined,    \* history: accounts created from each invitation
  pc,        \* where each request is
  req        \* what each request works on

vars == <<row, lapsed, account, inviters, joined, pc, req>>
rowVars == <<row, lapsed, account, inviters, joined>>

-----------------------------------------------------------------------------
Clocks == {"app", "db"}
Stored == {"open", "accepted", "revoked"}

\* accepted_at and revoked_at as one column: revoked_at may be set on top of
\* accepted_at, which no query tells from accepted_at alone.
RowType == [state : {"absent", "deleted"} \cup Stored, email : Emails \cup {Nobody},
            by : Inviters \cup {Nobody}]
ReqType == [email : Emails \cup {Nobody}, by : Inviters \cup {Nobody},
            invite : Invites \cup {NoInvite}, old : Invites \cup {NoInvite}]
NoRow == [state |-> "absent", email |-> Nobody, by |-> Nobody]
NoReq == [email |-> Nobody, by |-> Nobody, invite |-> NoInvite, old |-> NoInvite]

Open(i) == row[i].state = "open"
OrgOfInvite(i) == OrgOf[row[i].by]

\* The transaction of request p has updated the row of invitation i.
Holds(p, i) ==
  \/ pc[p] = "marked" /\ req[p].invite = i
  \/ pc[p] = "insert" /\ req[p].old = i

LockedByOther(p, i) == \E q \in Requests \ {p} : Holds(q, i)
Locked(i) == \E q \in Requests : Holds(q, i)

SetState(i, s) == row' = [row EXCEPT ![i].state = s]

Finish(p) ==
  /\ pc' = [pc EXCEPT ![p] = "idle"]
  /\ req' = [req EXCEPT ![p] = NoReq]
Goto(p, l) == pc' = [pc EXCEPT ![p] = l]
Fail(p) == Finish(p) /\ UNCHANGED rowVars

-----------------------------------------------------------------------------
Init ==
  /\ row = [i \in Invites |-> NoRow]
  /\ lapsed = [i \in Invites |-> {}]
  /\ account = [e \in Emails |-> Nobody]
  /\ inviters = Inviters
  /\ joined = [i \in Invites |-> 0]
  /\ pc = [p \in Requests |-> "idle"]
  /\ req = [p \in Requests |-> NoReq]

-----------------------------------------------------------------------------
(* CreateInvitation.                                                       *)

Creating == {"create", "supersede", "insert"}

\* An id no row and no request has: the one the database will generate.
Fresh(i) ==
  /\ row[i].state = "absent"
  /\ \A q \in Requests : pc[q] \in Creating => req[q].invite # i

\* The handler's checks: an inviter (its role is Team's business), an address
\* without an account in the same organization.
BeginCreate(p, by, e, i) ==
  /\ pc[p] = "idle"
  /\ by \in inviters
  /\ account[e] # OrgOf[by]
  /\ Fresh(i)
  /\ req' = [req EXCEPT ![p] = [email |-> e, by |-> by, invite |-> i, old |-> NoInvite]]
  /\ Goto(p, "create")
  /\ UNCHANGED rowVars

\* The open invitations for the address of request p in its organization.
OpenForSame(p) ==
  {i \in Invites : Open(i) /\ row[i].email = req[p].email /\ OrgOfInvite(i) = OrgOf[req[p].by]}

\* (fault) a live invitation is superseded too.
FindOpen_IgnoresExpiry(p) ==
  /\ pc[p] = "create"
  /\ \/ /\ OpenForSame(p) = {}
        /\ Goto(p, "insert") /\ UNCHANGED <<rowVars, req>>
     \/ \E i \in OpenForSame(p) :
          /\ req' = [req EXCEPT ![p].old = i]
          /\ Goto(p, "supersede") /\ UNCHANGED rowVars

\* SELECT id, expires_at ... : ErrInvitationExists unless it has expired.
FindOpen(p) ==
  /\ pc[p] = "create"
  /\ \/ /\ OpenForSame(p) = {}
        /\ Goto(p, "insert") /\ UNCHANGED <<rowVars, req>>
     \/ \E i \in OpenForSame(p) :
          IF "app" \in lapsed[i]
            THEN /\ req' = [req EXCEPT ![p].old = i]
                 /\ Goto(p, "supersede") /\ UNCHANGED rowVars
            ELSE Fail(p)

\* UPDATE ... SET revoked_at WHERE id: whatever the row says by now.
Supersede(p) ==
  /\ pc[p] = "supersede"
  /\ ~LockedByOther(p, req[p].old)
  /\ req' = [req EXCEPT ![p].old = IF row[@].state \in Stored THEN @ ELSE NoInvite]
  /\ Goto(p, "insert")
  /\ UNCHANGED rowVars

\* The rows of the transaction: the new invitation, and the old one revoked.
Inserted(p) ==
  [i \in Invites |->
     IF i = req[p].invite THEN [state |-> "open", email |-> req[p].email, by |-> req[p].by]
     ELSE IF i = req[p].old /\ Open(i) THEN [row[i] EXCEPT !.state = "revoked"]
     ELSE row[i]]

\* (fault) the UPDATE runs on another connection than the INSERT, which then
\* waits for its own request.
InsertInvitation_OtherConnection(p) ==
  /\ pc[p] = "insert"
  /\ \A i \in OpenForSame(p) : ~Locked(i)
  /\ IF OpenForSame(p) # {} \/ req[p].by \notin inviters
       THEN Fail(p)
       ELSE /\ row' = Inserted(p)
            /\ Finish(p)
            /\ UNCHANGED <<lapsed, account, inviters, joined>>

\* INSERT, COMMIT.  The unique index on open rows makes it wait for another
\* transaction that has updated one, and fail on one that stays open.
InsertInvitation(p) ==
  /\ pc[p] = "insert"
  /\ LET others == OpenForSame(p) \ {req[p].old}
     IN  /\ \A i \in others : ~LockedByOther(p, i)
         /\ IF others # {} \/ req[p].by \notin inviters
              THEN Fail(p)
              ELSE /\ row' = Inserted(p)
                   /\ Finish(p)
                   /\ UNCHANGED <<lapsed, account, inviters, joined>>

\* RevokeInvitation: one statement, by a member of the same organization.
RevokeInvitation(by, i) ==
  /\ Open(i) /\ ~Locked(i)
  /\ by \in inviters /\ OrgOf[by] = OrgOfInvite(i)
  /\ SetState(i, "revoked")
  /\ UNCHANGED <<lapsed, account, inviters, joined, pc, req>>

-----------------------------------------------------------------------------
(* AcceptInvitation.                                                       *)

\* The handler's checks: a usable invitation, an address without an account.
BeginAccept(p, i) ==
  /\ pc[p] = "idle"
  /\ Open(i) /\ "app" \notin lapsed[i]
  /\ account[row[i].email] = Nobody
  /\ req' = [req EXCEPT ![p] = [email |-> row[i].email, by |-> row[i].by,
                                invite |-> i, old |-> NoInvite]]
  /\ Goto(p, "accept")
  /\ UNCHANGED rowVars

\* UPDATE ... SET accepted_at WHERE still open and not expired.
MarkAccepted(p) ==
  /\ pc[p] = "accept"
  /\ ~LockedByOther(p, req[p].invite)
  /\ IF Open(req[p].invite) /\ "db" \notin lapsed[req[p].invite]
       THEN Goto(p, "marked") /\ UNCHANGED <<rowVars, req>>
       ELSE Fail(p)

\* (fault) the customer is inserted in a transaction of its own, which commits
\* even when accepted_at is rolled back.
CreateAccount_LosesMark(p) ==
  /\ pc[p] = "marked"
  /\ account[req[p].email] = Nobody
  /\ account' = [account EXCEPT ![req[p].email] = OrgOf[req[p].by]]
  /\ joined' = [joined EXCEPT ![req[p].invite] = @ + 1]
  /\ Finish(p)
  /\ UNCHANGED <<row, lapsed, inviters>>

\* INSERT INTO customers (the address is unique) and organization_members,
\* COMMIT.
CreateAccount(p) ==
  /\ pc[p] = "marked"
  /\ IF account[req[p].email] # Nobody
       THEN Fail(p)
       ELSE /\ SetState(req[p].invite, "accepted")
            /\ account' = [account EXCEPT ![req[p].email] = OrgOf[req[p].by]]
            /\ joined' = [joined EXCEPT ![req[p].invite] = @ + 1]
            /\ Finish(p)
            /\ UNCHANGED <<lapsed, inviters>>

-----------------------------------------------------------------------------
(* The world around.                                                       *)

\* A clock passes an invitation's expires_at.
Lapse(i, c) ==
  /\ row[i].state \in Stored /\ c \notin lapsed[i]
  /\ lapsed' = [lapsed EXCEPT ![i] = @ \cup {c}]
  /\ UNCHANGED <<row, account, inviters, joined, pc, req>>

\* Somebody signs up with the address and gets an organization of their own.
SignUp(e) ==
  /\ account[e] = Nobody
  /\ account' = [account EXCEPT ![e] = Elsewhere]
  /\ UNCHANGED <<row, lapsed, inviters, joined, pc, req>>

\* An account is removed from its team, or terminated.
LeaveTeam(e) ==
  /\ account[e] # Nobody
  /\ account' = [account EXCEPT ![e] = Nobody]
  /\ UNCHANGED <<row, lapsed, inviters, joined, pc, req>>

\* (fault) the inviter's row goes without waiting for the rows it cascades to.
RemoveInviter_NoWait(c) ==
  /\ c \in inviters
  /\ inviters' = inviters \ {c}
  /\ row' = [i \in Invites |->
       IF row[i].by = c /\ row[i].state \in Stored
         THEN [row[i] EXCEPT !.state = "deleted"] ELSE row[i]]
  /\ UNCHANGED <<lapsed, account, joined, pc, req>>

\* An inviter's customers row is deleted: the invitations go with it.
RemoveInviter(c) ==
  /\ c \in inviters
  /\ \A i \in Invites : row[i].by = c => ~Locked(i)
  /\ inviters' = inviters \ {c}
  /\ row' = [i \in Invites |->
       IF row[i].by = c /\ row[i].state \in Stored
         THEN [row[i] EXCEPT !.state = "deleted"] ELSE row[i]]
  /\ UNCHANGED <<lapsed, account, joined, pc, req>>

\* The client goes away or the server does: rollback.
Abort(p) == pc[p] # "idle" /\ Fail(p)

-----------------------------------------------------------------------------
Step(p) ==
  \/ FindOpen(p) \/ Supersede(p) \/ InsertInvitation(p)
  \/ MarkAccepted(p) \/ CreateAccount(p)

Next ==
  \/ \E p \in Requests :
       \/ Step(p) \/ Abort(p)
       \/ \E i \in Invites :
            \/ BeginAccept(p, i)
            \/ \E by \in Inviters, e \in Emails : BeginCreate(p, by, e, i)
  \/ \E i \in Invites :
       \/ \E by \in Inviters : RevokeInvitation(by, i)
       \/ \E c \in Clocks : Lapse(i, c)
  \/ \E e \in Emails : SignUp(e) \/ LeaveTeam(e)
  \/ \E c \in Inviters : RemoveInviter(c)

Spec == Init /\ [][Next]_vars

\* A handler runs on once it has started; lock queues are served in turn (SF).
FairSpec == Spec /\ \A p \in Requests : SF_vars(Step(p))

-----------------------------------------------------------------------------
(* Properties.                                                             *)

TypeOK ==
  /\ row \in [Invites -> RowType]
  /\ lapsed \in [Invites -> SUBSET Clocks]
  /\ account \in [Emails -> Orgs \cup {Nobody, Elsewhere}]
  /\ inviters \subseteq Inviters
  /\ joined \in [Invites -> Nat]
  /\ pc \in [Requests -> {"idle", "create", "supersede", "insert", "accept", "marked"}]
  /\ req \in [Requests -> ReqType]

\* An invitation is a one-time token: its account is its use; revocation,
\* supersession and the cascade from its inviter withdraw it; nothing brings
\* it back.
Status(i) ==
  CASE row[i].state = "absent" -> "unissued"
    [] row[i].state = "open" -> "open"
    [] row[i].state = "accepted" -> "used"
    [] row[i].state = "revoked" -> "withdrawn"
    [] row[i].state = "deleted" -> IF joined[i] > 0 THEN "used" ELSE "withdrawn"

Token == INSTANCE OneTimeToken WITH
  Tokens <- Invites, status <- [i \in Invites |-> Status(i)], uses <- joined

IsOneTimeToken == Token!Spec

\* Whoever joins was invited by somebody who is still there: removing a member
\* takes that member's invitations along (the cascade waits for an acceptance
\* in progress, and an acceptance finds the row gone).
JoinNeedsInviter ==
  [][\A i \in Invites : joined'[i] # joined[i] => row[i].by \in inviters]_vars

\* An invitation that can still be accepted is not taken back by inviting the
\* same address again (db.CreateInvitation): only an expired one is superseded.
LiveNotSuperseded ==
  [][\A p \in Requests, i \in Invites :
       pc[p] = "insert" /\ Open(i) /\ row'[i].state = "revoked" /\ pc'[p] = "idle"
         => "app" \in lapsed[i]]_vars

\* Every request ends, whichever rows it has to wait for.
RequestsEnd == \A p \in Requests : pc[p] # "idle" ~> pc[p] = "idle"

-----------------------------------------------------------------------------
(* The inductive invariant behind the refinement.                          *)

\* A request that has to have an invitation at hand has one, and its copy of
\* address and inviter is the row's.
RequestsPrepared ==
  \A p \in Requests :
    /\ pc[p] # "idle" => req[p].email \in Emails /\ req[p].by \in Inviters
    /\ pc[p] # "idle" => req[p].invite \in Invites
    /\ pc[p] \in Creating =>
         /\ row[req[p].invite].state = "absent"
         /\ \A q \in Requests : pc[q] \in Creating /\ req[q].invite = req[p].invite => q = p
    /\ pc[p] \in {"accept", "marked"} =>
         /\ row[req[p].invite].state # "absent"
         /\ row[req[p].invite].email = req[p].email
         /\ row[req[p].invite].by = req[p].by
    /\ pc[p] = "create" => req[p].old = NoInvite
    /\ pc[p] = "supersede" => req[p].old \in Invites
    /\ pc[p] = "insert" /\ req[p].old # NoInvite => row[req[p].old].state \in Stored

\* An invitation marked accepted stays open to nobody else until the end.
MarkedStaysOpen ==
  \A p \in Requests : pc[p] = "marked" => Open(req[p].invite)

LocksExclusive ==
  \A p, q \in Requests, i \in Invites : Holds(p, i) /\ Holds(q, i) => p = q

\* accepted_at and the account were committed together.
AcceptedOnce ==
  \A i \in Invites :
    /\ joined[i] \in {0, 1}
    /\ row[i].state = "accepted" => joined[i] = 1
    /\ row[i].state \in {"absent", "open", "revoked"} => joined[i] = 0

\* A stored invitation has an address, and an inviter who exists (the foreign
\* key).
InvitersExist ==
  \A i \in Invites : row[i].state \in Stored =>
    row[i].email \in Emails /\ row[i].by \in inviters

IndInv ==
  /\ TypeOK /\ RequestsPrepared /\ MarkedStaysOpen /\ LocksExclusive
  /\ AcceptedOnce /\ InvitersExist

\* A request that supersedes an invitation has seen that it had expired.
OldHasLapsed ==
  \A p \in Requests :
    pc[p] \in {"supersede", "insert"} /\ req[p].old # NoInvite => "app" \in lapsed[req[p].old]
=============================================================================
