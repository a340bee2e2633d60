------------------------- MODULE InvitationsProofs -------------------------
(***************************************************************************)
(* Invitations implements OneTimeToken, for any number of invitations,     *)
(* addresses, members and requests in flight; who joins was invited by a   *)
(* member who is still there, and a live invitation is not superseded.     *)
(***************************************************************************)
EXTENDS Invitations, TLAPS

USE OrgOfAssumption, NoInviteAssumption, AccountAssumption

-----------------------------------------------------------------------------
(* How requests move.                                                      *)

\* The end of a request leaves the others as they are.
LEMMA FinishOthers ==
  ASSUME TypeOK, NEW p \in Requests, Finish(p)
  PROVE  /\ pc'[p] = "idle" /\ req'[p] = NoReq
         /\ \A q \in Requests \ {p} : pc'[q] = pc[q] /\ req'[q] = req[q]
         /\ pc' \in [Requests -> {"idle", "create", "supersede", "insert", "accept", "marked"}]
         /\ req' \in [Requests -> ReqType]
BY DEF Finish, TypeOK, NoReq, ReqType

\* A row that request p leaves as some other request wants it.
RowRelied(p) ==
  /\ \A q \in Requests \ {p} :
       /\ pc[q] \in Creating => row'[req[q].invite].state = "absent"
       /\ pc[q] \in {"accept", "marked"} =>
            /\ row'[req[q].invite].state # "absent"
            /\ row'[req[q].invite].email = row[req[q].invite].email
            /\ row'[req[q].invite].by = row[req[q].invite].by
       /\ pc[q] = "marked" => row'[req[q].invite].state = "open"
       /\ pc[q] = "insert" /\ req[q].old # NoInvite => row'[req[q].old].state \in Stored

\* A request that ends and leaves the rows the others rely on keeps the locking.
LEMMA RequestEnds ==
  ASSUME IndInv, NEW p \in Requests, Finish(p), RowRelied(p)
  PROVE  RequestsPrepared' /\ MarkedStaysOpen' /\ LocksExclusive'
<1>1. /\ pc'[p] = "idle" /\ req'[p] = NoReq
      /\ \A q \in Requests \ {p} : pc'[q] = pc[q] /\ req'[q] = req[q]
  BY FinishOthers DEF IndInv
<1>2. RequestsPrepared'
  BY <1>1 DEF IndInv, RequestsPrepared, RowRelied, Creating
<1>3. MarkedStaysOpen'
  BY <1>1 DEF IndInv, MarkedStaysOpen, RowRelied, Open
<1>4. LocksExclusive'
  BY <1>1 DEF IndInv, LocksExclusive, Holds
<1> QED
  BY <1>2, <1>3, <1>4

\* A request that fails keeps the invariant.
LEMMA FailKeeps ==
  ASSUME IndInv, NEW p \in Requests, Fail(p)
  PROVE  IndInv'
<1>1. Finish(p) /\ UNCHANGED <<row, lapsed, account, inviters, joined>>
  BY DEF Fail, rowVars
<1>2. RowRelied(p)
  BY <1>1 DEF RowRelied, IndInv, RequestsPrepared, MarkedStaysOpen, Open
<1>3. TypeOK'
  BY <1>1, FinishOthers DEF IndInv, TypeOK
<1>4. AcceptedOnce' /\ InvitersExist'
  BY <1>1 DEF IndInv, AcceptedOnce, InvitersExist
<1> QED
  BY <1>1, <1>2, <1>3, <1>4, RequestEnds DEF IndInv

-----------------------------------------------------------------------------
(* The steps that write no row.                                            *)

\* A request that starts, or reads on, with what it has read in req'[p].
LEMMA ReadKeeps ==
  ASSUME IndInv, NEW p \in Requests, UNCHANGED rowVars,
         NEW l \in {"create", "supersede", "insert", "accept", "marked"}, Goto(p, l),
         NEW r \in ReqType, req' = [req EXCEPT ![p] = r],
         r.email \in Emails, r.by \in Inviters, r.invite \in Invites,
         l \in Creating =>
           /\ row[r.invite].state = "absent"
           /\ \A q \in Requests \ {p} : pc[q] \in Creating => req[q].invite # r.invite,
         l \in {"accept", "marked"} =>
           /\ row[r.invite].state # "absent"
           /\ row[r.invite].email = r.email /\ row[r.invite].by = r.by,
         l = "marked" => Open(r.invite) /\ ~LockedByOther(p, r.invite),
         l = "create" => r.old = NoInvite,
         l = "supersede" => r.old \in Invites,
         l = "insert" /\ r.old # NoInvite =>
           row[r.old].state \in Stored /\ ~LockedByOther(p, r.old)
  PROVE  IndInv'
<1>1. /\ pc'[p] = l /\ req'[p] = r
      /\ \A q \in Requests \ {p} : pc'[q] = pc[q] /\ req'[q] = req[q]
      /\ UNCHANGED <<row, lapsed, account, inviters, joined>>
  BY DEF Goto, IndInv, TypeOK, rowVars
<1>2. TypeOK'
  BY <1>1 DEF Goto, IndInv, TypeOK
<1>3. RequestsPrepared'
  BY <1>1 DEF IndInv, RequestsPrepared
<1>4. MarkedStaysOpen'
  BY <1>1 DEF IndInv, MarkedStaysOpen, Open
<1>5. LocksExclusive'
  BY <1>1 DEF IndInv, LocksExclusive, Holds, LockedByOther
<1>6. AcceptedOnce' /\ InvitersExist'
  BY <1>1 DEF IndInv, AcceptedOnce, InvitersExist
<1> QED
  BY <1>2, <1>3, <1>4, <1>5, <1>6 DEF IndInv

\* The handlers' checks and the statements that only read or lock.
LEMMA ReadStepsKeep ==
  ASSUME IndInv, NEW p \in Requests,
         \/ \E by \in Inviters, e \in Emails, i \in Invites : BeginCreate(p, by, e, i)
         \/ \E i \in Invites : BeginAccept(p, i)
         \/ FindOpen(p) \/ Supersede(p) \/ MarkAccepted(p)
  PROVE  IndInv'
<1>1. ASSUME NEW by \in Inviters, NEW e \in Emails, NEW i \in Invites,
             BeginCreate(p, by, e, i)
      PROVE  IndInv'
  <2> DEFINE r == [email |-> e, by |-> by, invite |-> i, old |-> NoInvite]
  <2>1. r \in ReqType
    BY DEF ReqType
  <2>2. UNCHANGED rowVars /\ Goto(p, "create") /\ req' = [req EXCEPT ![p] = r] /\ Fresh(i)
    BY <1>1 DEF BeginCreate
  <2> QED
    BY <2>1, <2>2, ReadKeeps DEF Fresh
<1>2. ASSUME NEW i \in Invites, BeginAccept(p, i) PROVE IndInv'
  <2> DEFINE r == [email |-> row[i].email, by |-> row[i].by, invite |-> i, old |-> NoInvite]
  <2>1. /\ UNCHANGED rowVars /\ Goto(p, "accept") /\ req' = [req EXCEPT ![p] = r]
        /\ row[i].state = "open"
    BY <1>2 DEF BeginAccept, Open
  <2>2. row[i].email \in Emails /\ row[i].by \in Inviters
    BY <2>1 DEF IndInv, InvitersExist, Stored, TypeOK, RowType
  <2>3. r \in ReqType
    BY <2>2 DEF ReqType
  <2> QED
    BY <2>1, <2>2, <2>3, ReadKeeps DEF Creating
<1>3. CASE FindOpen(p)
  <2>1. pc[p] = "create"
    BY <1>3 DEF FindOpen
  <2>2. /\ req[p] \in ReqType /\ req[p].email \in Emails /\ req[p].by \in Inviters
        /\ req[p].invite \in Invites /\ row[req[p].invite].state = "absent"
        /\ \A q \in Requests \ {p} : pc[q] \in Creating => req[q].invite # req[p].invite
    BY <2>1 DEF IndInv, TypeOK, RequestsPrepared, Creating
  <2>3. CASE Fail(p)
    BY <2>3, FailKeeps
  <2>4. CASE OpenForSame(p) = {} /\ Goto(p, "insert") /\ UNCHANGED <<rowVars, req>>
    <3>1. req' = [req EXCEPT ![p] = req[p]]
      BY <2>4 DEF IndInv, TypeOK
    <3>2. req[p].old = NoInvite
      BY <2>1 DEF IndInv, RequestsPrepared
    <3> QED
      BY <2>2, <2>4, <3>1, <3>2, ReadKeeps DEF Creating
  <2>5. ASSUME NEW i \in OpenForSame(p), req' = [req EXCEPT ![p].old = i],
               Goto(p, "supersede"), UNCHANGED rowVars
        PROVE  IndInv'
    <3> DEFINE r == [req[p] EXCEPT !.old = i]
    <3>1. req' = [req EXCEPT ![p] = r] /\ i \in Invites
      BY <2>5 DEF OpenForSame, IndInv, TypeOK
    <3>2. /\ r \in ReqType /\ r.email = req[p].email /\ r.by = req[p].by
          /\ r.invite = req[p].invite /\ r.old = i
      BY <2>2, <3>1 DEF ReqType
    <3> HIDE DEF r
    <3>3. /\ r.email \in Emails /\ r.by \in Inviters /\ r.invite \in Invites
          /\ row[r.invite].state = "absent" /\ r.old \in Invites
          /\ \A q \in Requests \ {p} : pc[q] \in Creating => req[q].invite # r.invite
      BY <2>2, <3>1, <3>2
    <3> QED
      BY <2>5, <3>1, <3>2, <3>3, ReadKeeps
  <2> QED
    BY <1>3, <2>3, <2>4, <2>5 DEF FindOpen
<1>4. CASE Supersede(p)
  <2>1. pc[p] = "supersede" /\ UNCHANGED rowVars /\ Goto(p, "insert")
        /\ ~LockedByOther(p, req[p].old)
    BY <1>4 DEF Supersede
  <2>2. /\ req[p] \in ReqType /\ req[p].email \in Emails /\ req[p].by \in Inviters
        /\ req[p].invite \in Invites /\ row[req[p].invite].state = "absent"
        /\ \A q \in Requests \ {p} : pc[q] \in Creating => req[q].invite # req[p].invite
    BY <2>1 DEF IndInv, TypeOK, RequestsPrepared, Creating
  <2> DEFINE o == IF row[req[p].old].state \in Stored THEN req[p].old ELSE NoInvite
             r == [req[p] EXCEPT !.old = o]
  <2>3. req' = [req EXCEPT ![p] = r]
    BY <1>4 DEF Supersede, IndInv, TypeOK
  <2>4. /\ r \in ReqType /\ r.email = req[p].email /\ r.by = req[p].by
        /\ r.invite = req[p].invite /\ r.old = o
    BY <2>2 DEF ReqType
  <2> QED
    BY <2>1, <2>2, <2>3, <2>4, ReadKeeps DEF Creating
<1>5. CASE MarkAccepted(p)
  <2>1. pc[p] = "accept" /\ ~LockedByOther(p, req[p].invite)
    BY <1>5 DEF MarkAccepted
  <2>2. /\ req[p] \in ReqType /\ req[p].email \in Emails /\ req[p].by \in Inviters
        /\ req[p].invite \in Invites /\ row[req[p].invite].state # "absent"
        /\ row[req[p].invite].email = req[p].email /\ row[req[p].invite].by = req[p].by
    BY <2>1 DEF IndInv, TypeOK, RequestsPrepared
  <2>3. CASE Fail(p)
    BY <2>3, FailKeeps
  <2>4. CASE Open(req[p].invite) /\ Goto(p, "marked") /\ UNCHANGED <<rowVars, req>>
    <3>1. req' = [req EXCEPT ![p] = req[p]]
      BY <2>4 DEF IndInv, TypeOK
    <3> QED
      BY <2>1, <2>2, <2>4, <3>1, ReadKeeps DEF Creating
  <2> QED
    BY <1>5, <2>3, <2>4 DEF MarkAccepted
<1> QED
  BY <1>1, <1>2, <1>3, <1>4, <1>5

-----------------------------------------------------------------------------
(* The steps that write a row.                                             *)

\* What the transaction of an invitation leaves of every row.
LEMMA InsertKeeps ==
  ASSUME IndInv, NEW p \in Requests, InsertInvitation(p)
  PROVE  IndInv'
<1>1. CASE Fail(p)
  BY <1>1, FailKeeps
<1>2. CASE ~Fail(p)
  <2> DEFINE n == req[p].invite
             o == req[p].old
  <2>1. /\ pc[p] = "insert" /\ req[p].by \in inviters
        /\ row' = Inserted(p) /\ Finish(p)
        /\ UNCHANGED <<lapsed, account, inviters, joined>>
    BY <1>2 DEF InsertInvitation
  <2>2. /\ n \in Invites /\ req[p].email \in Emails /\ row[n].state = "absent"
        /\ \A q \in Requests \ {p} : pc[q] \in Creating => req[q].invite # n
        /\ o # NoInvite => row[o].state \in Stored
    BY <2>1 DEF IndInv, RequestsPrepared, Creating
  <2>3. /\ row'[n] = [state |-> "open", email |-> req[p].email, by |-> req[p].by]
        /\ \A i \in Invites : i # n /\ ~(i = o /\ Open(i)) => row'[i] = row[i]
        /\ o \in Invites /\ o # n /\ Open(o) => row'[o] = [row[o] EXCEPT !.state = "revoked"]
    BY <2>1, <2>2 DEF Inserted
  <2>4. \A i \in Invites : i # n =>
          /\ row'[i].email = row[i].email /\ row'[i].by = row[i].by
          /\ row'[i].state \in Stored <=> row[i].state \in Stored
          /\ row'[i].state = "absent" <=> row[i].state = "absent"
          /\ row'[i].state = row[i].state \/ (row[i].state = "open" /\ row'[i].state = "revoked")
    BY <2>3 DEF IndInv, TypeOK, RowType, Open, Stored
  <2>5. TypeOK'
    <3>1. \A i \in Invites : Inserted(p)[i] \in RowType
      BY <2>1, <2>2 DEF IndInv, TypeOK, Inserted, RowType, Stored
    <3>2. row' \in [Invites -> RowType]
      BY <2>1, <3>1 DEF Inserted
    <3> QED
      BY <2>1, <3>2, FinishOthers DEF IndInv, TypeOK
  <2>6. RowRelied(p)
    <3> SUFFICES ASSUME NEW q \in Requests \ {p}
                 PROVE  /\ pc[q] \in Creating => row'[req[q].invite].state = "absent"
                        /\ pc[q] \in {"accept", "marked"} =>
                             /\ row'[req[q].invite].state # "absent"
                             /\ row'[req[q].invite].email = row[req[q].invite].email
                             /\ row'[req[q].invite].by = row[req[q].invite].by
                        /\ pc[q] = "marked" => row'[req[q].invite].state = "open"
                        /\ pc[q] = "insert" /\ req[q].old # NoInvite =>
                             row'[req[q].old].state \in Stored
      BY DEF RowRelied
    <3>1. pc[q] \in Creating => row'[req[q].invite].state = "absent"
      BY <2>2, <2>4 DEF IndInv, RequestsPrepared, Creating
    <3>2. pc[q] \in {"accept", "marked"} =>
            /\ req[q].invite \in Invites \ {n}
            /\ row'[req[q].invite].state # "absent"
            /\ row'[req[q].invite].email = row[req[q].invite].email
            /\ row'[req[q].invite].by = row[req[q].invite].by
      BY <2>2, <2>4 DEF IndInv, RequestsPrepared
    <3>3. pc[q] = "marked" => row'[req[q].invite].state = "open"
      <4> SUFFICES ASSUME pc[q] = "marked" PROVE row'[req[q].invite].state = "open"
        OBVIOUS
      <4>1. req[q].invite \in Invites \ {n} /\ row[req[q].invite].state = "open"
        BY <3>2 DEF IndInv, MarkedStaysOpen, Open
      <4>2. req[q].invite # o
        BY <2>1, <4>1 DEF IndInv, LocksExclusive, Holds
      <4> QED
        BY <2>3, <4>1, <4>2
    <3>4. pc[q] = "insert" /\ req[q].old # NoInvite => row'[req[q].old].state \in Stored
      <4> SUFFICES ASSUME pc[q] = "insert", req[q].old # NoInvite
                   PROVE  row'[req[q].old].state \in Stored
        OBVIOUS
      <4>1. req[q].old \in Invites /\ row[req[q].old].state \in Stored
        BY DEF IndInv, RequestsPrepared, TypeOK, ReqType
      <4> QED
        BY <2>2, <2>4, <4>1 DEF Stored
    <3> QED
      BY <3>1, <3>2, <3>3, <3>4
  <2>7. AcceptedOnce'
    BY <2>1, <2>2, <2>3, <2>4 DEF IndInv, AcceptedOnce
  <2>8. InvitersExist'
    BY <2>1, <2>2, <2>3, <2>4 DEF IndInv, InvitersExist
  <2> QED
    BY <2>1, <2>5, <2>6, <2>7, <2>8, RequestEnds DEF IndInv
<1> QED
  BY <1>1, <1>2

\* The account and the mark of its invitation.
LEMMA CreateAccountKeeps ==
  ASSUME IndInv, NEW p \in Requests, CreateAccount(p)
  PROVE  IndInv'
<1>1. CASE Fail(p)
  BY <1>1, FailKeeps
<1>2. CASE ~Fail(p)
  <2> DEFINE n == req[p].invite
  <2>1. /\ pc[p] = "marked" /\ SetState(n, "accepted") /\ Finish(p)
        /\ account' = [account EXCEPT ![req[p].email] = OrgOf[req[p].by]]
        /\ joined' = [joined EXCEPT ![n] = @ + 1]
        /\ UNCHANGED <<lapsed, inviters>>
    BY <1>2 DEF CreateAccount
  <2>2. n \in Invites /\ row[n].state = "open" /\ req[p].by \in Inviters
    BY <2>1 DEF IndInv, RequestsPrepared, MarkedStaysOpen, Open
  <2>3. /\ row'[n] = [row[n] EXCEPT !.state = "accepted"]
        /\ \A i \in Invites : i # n => row'[i] = row[i]
    BY <2>1, <2>2 DEF SetState, IndInv, TypeOK
  <2>4. row'[n].state = "accepted" /\ row'[n].email = row[n].email /\ row'[n].by = row[n].by
    BY <2>2, <2>3 DEF IndInv, TypeOK, RowType
  <2>5. TypeOK'
    <3>1. row' \in [Invites -> RowType]
      BY <2>1, <2>2 DEF SetState, IndInv, TypeOK, RowType, Stored
    <3>2. account' \in [Emails -> Orgs \cup {Nobody, Elsewhere}]
      BY <2>1, <2>2 DEF IndInv, TypeOK
    <3>3. joined' \in [Invites -> Nat]
      BY <2>1, <2>2 DEF IndInv, TypeOK
    <3> QED
      BY <2>1, <3>1, <3>2, <3>3, FinishOthers DEF IndInv, TypeOK
  <2>6. \A q \in Requests \ {p} : pc[q] = "marked" => req[q].invite # n
    BY <2>1, <2>2 DEF IndInv, LocksExclusive, Holds
  <2>7. RowRelied(p)
    <3> SUFFICES ASSUME NEW q \in Requests \ {p}
                 PROVE  /\ pc[q] \in Creating => row'[req[q].invite].state = "absent"
                        /\ pc[q] \in {"accept", "marked"} =>
                             /\ row'[req[q].invite].state # "absent"
                             /\ row'[req[q].invite].email = row[req[q].invite].email
                             /\ row'[req[q].invite].by = row[req[q].invite].by
                        /\ pc[q] = "marked" => row'[req[q].invite].state = "open"
                        /\ pc[q] = "insert" /\ req[q].old # NoInvite =>
                             row'[req[q].old].state \in Stored
      BY DEF RowRelied
    <3>1. pc[q] \in Creating => row'[req[q].invite].state = "absent"
      BY <2>2, <2>3 DEF IndInv, RequestsPrepared, Creating
    <3>2. pc[q] \in {"accept", "marked"} =>
            /\ row'[req[q].invite].state # "absent"
            /\ row'[req[q].invite].email = row[req[q].invite].email
            /\ row'[req[q].invite].by = row[req[q].invite].by
      BY <2>3, <2>4 DEF IndInv, RequestsPrepared
    <3>3. pc[q] = "marked" => row'[req[q].invite].state = "open"
      BY <2>3, <2>6 DEF IndInv, RequestsPrepared, MarkedStaysOpen, Open
    <3>4. pc[q] = "insert" /\ req[q].old # NoInvite => row'[req[q].old].state \in Stored
      <4> SUFFICES ASSUME pc[q] = "insert", req[q].old # NoInvite
                   PROVE  row'[req[q].old].state \in Stored
        OBVIOUS
      <4>1. req[q].old \in Invites /\ row[req[q].old].state \in Stored
        BY DEF IndInv, RequestsPrepared, TypeOK, ReqType
      <4>2. CASE req[q].old = n
        BY <2>4, <4>2 DEF Stored
      <4>3. CASE req[q].old # n
        BY <2>3, <4>1, <4>3
      <4> QED
        BY <4>2, <4>3
    <3> QED
      BY <3>1, <3>2, <3>3, <3>4
  <2>8. AcceptedOnce'
    <3>1. joined[n] = 0 /\ joined'[n] = joined[n] + 1
      BY <2>1, <2>2 DEF IndInv, AcceptedOnce, TypeOK
    <3>2. \A i \in Invites : i # n => joined'[i] = joined[i]
      BY <2>1 DEF IndInv, TypeOK
    <3>3. joined'[n] = 1
      BY <3>1
    <3> SUFFICES ASSUME NEW i \in Invites
                 PROVE  /\ joined'[i] \in {0, 1}
                        /\ row'[i].state = "accepted" => joined'[i] = 1
                        /\ row'[i].state \in {"absent", "open", "revoked"} => joined'[i] = 0
      BY DEF AcceptedOnce
    <3>4. CASE i = n
      BY <2>4, <3>3, <3>4
    <3>5. CASE i # n
      BY <2>3, <3>2, <3>5 DEF IndInv, AcceptedOnce
    <3> QED
      BY <3>4, <3>5
  <2>9. InvitersExist'
    BY <2>1, <2>2, <2>3, <2>4 DEF IndInv, InvitersExist, Stored
  <2> QED
    BY <2>1, <2>5, <2>7, <2>8, <2>9, RequestEnds DEF IndInv
<1> QED
  BY <1>1, <1>2

\* A step that ends no request, and keeps apart from what the requests hold.
LEMMA OutsideKeeps ==
  ASSUME IndInv, UNCHANGED <<pc, req, joined>>,
         row' \in [Invites -> RowType], lapsed' \in [Invites -> SUBSET Clocks],
         account' \in [Emails -> Orgs \cup {Nobody, Elsewhere}], inviters' \subseteq inviters,
         \A i \in Invites :
           /\ row'[i].email = row[i].email /\ row'[i].by = row[i].by
           /\ \/ row'[i].state = row[i].state
              \/ /\ row[i].state \in Stored /\ ~Locked(i)
                 /\ row'[i].state = "deleted"
              \/ /\ row[i].state = "open" /\ ~Locked(i)
                 /\ row'[i].state = "revoked"
           /\ row'[i].state \in Stored => row[i].by \in inviters'
  PROVE  IndInv'
<1>1. TypeOK'
  BY DEF IndInv, TypeOK
<1>2. \A q \in Requests, i \in Invites : Holds(q, i) => row'[i].state = row[i].state
  BY DEF Locked, Stored
<1>3. RequestsPrepared'
  <2> SUFFICES ASSUME NEW p \in Requests
               PROVE  /\ pc[p] \in Creating => row'[req[p].invite].state = "absent"
                      /\ pc[p] \in {"accept", "marked"} =>
                           /\ row'[req[p].invite].state # "absent"
                           /\ row'[req[p].invite].email = req[p].email
                           /\ row'[req[p].invite].by = req[p].by
                      /\ pc[p] = "insert" /\ req[p].old # NoInvite =>
                           row'[req[p].old].state \in Stored
    BY DEF IndInv, RequestsPrepared
  <2>1. pc[p] \in Creating => row'[req[p].invite].state = "absent"
    BY DEF IndInv, RequestsPrepared, Creating, Stored
  <2>2. pc[p] \in {"accept", "marked"} =>
          /\ row'[req[p].invite].state # "absent"
          /\ row'[req[p].invite].email = req[p].email
          /\ row'[req[p].invite].by = req[p].by
    BY DEF IndInv, RequestsPrepared
  <2>3. ASSUME pc[p] = "insert", req[p].old # NoInvite PROVE row'[req[p].old].state \in Stored
    <3>1. req[p].old \in Invites /\ Holds(p, req[p].old) /\ row[req[p].old].state \in Stored
      BY <2>3 DEF IndInv, RequestsPrepared, TypeOK, ReqType, Holds
    <3> QED
      BY <1>2, <3>1
  <2> QED
    BY <2>1, <2>2, <2>3
<1>4. MarkedStaysOpen'
  BY <1>2 DEF IndInv, MarkedStaysOpen, RequestsPrepared, Holds, Open
<1>5. LocksExclusive'
  BY DEF IndInv, LocksExclusive, Holds
<1>6. AcceptedOnce'
  BY DEF IndInv, AcceptedOnce, Stored
<1>7. InvitersExist'
  BY DEF IndInv, InvitersExist, Stored
<1> QED
  BY <1>1, <1>3, <1>4, <1>5, <1>6, <1>7 DEF IndInv

\* Revocations, clocks, signups, departures, and the cascade from an inviter.
LEMMA OutsideStepsKeep ==
  ASSUME IndInv,
         \/ \E i \in Invites, by \in Inviters : RevokeInvitation(by, i)
         \/ \E i \in Invites, c \in Clocks : Lapse(i, c)
         \/ \E e \in Emails : SignUp(e) \/ LeaveTeam(e)
         \/ \E c \in Inviters : RemoveInviter(c)
  PROVE  IndInv'
<1>1. ASSUME NEW i \in Invites, NEW by \in Inviters, RevokeInvitation(by, i) PROVE IndInv'
  <2>1. /\ row[i].state = "open" /\ ~Locked(i) /\ row' = [row EXCEPT ![i].state = "revoked"]
        /\ UNCHANGED <<lapsed, account, inviters, joined, pc, req>>
    BY <1>1 DEF RevokeInvitation, SetState, Open
  <2>2. /\ row'[i].state = "revoked" /\ row'[i].email = row[i].email /\ row'[i].by = row[i].by
        /\ \A j \in Invites : j # i => row'[j] = row[j]
        /\ row' \in [Invites -> RowType]
    BY <2>1 DEF IndInv, TypeOK, RowType, Stored
  <2> QED
    BY <2>1, <2>2, OutsideKeeps DEF IndInv, TypeOK, InvitersExist, Stored
<1>2. ASSUME NEW i \in Invites, NEW c \in Clocks, Lapse(i, c) PROVE IndInv'
  <2>1. lapsed' \in [Invites -> SUBSET Clocks]
    BY <1>2 DEF Lapse, IndInv, TypeOK
  <2> QED
    BY <1>2, <2>1, OutsideKeeps DEF Lapse, IndInv, TypeOK, InvitersExist
<1>3. ASSUME NEW e \in Emails, SignUp(e) \/ LeaveTeam(e) PROVE IndInv'
  <2>1. account' \in [Emails -> Orgs \cup {Nobody, Elsewhere}]
    BY <1>3 DEF SignUp, LeaveTeam, IndInv, TypeOK
  <2> QED
    BY <1>3, <2>1, OutsideKeeps DEF SignUp, LeaveTeam, IndInv, TypeOK, InvitersExist
<1>4. ASSUME NEW c \in Inviters, RemoveInviter(c) PROVE IndInv'
  <2>1. \A i \in Invites :
          row'[i] = IF row[i].by = c /\ row[i].state \in Stored
                      THEN [row[i] EXCEPT !.state = "deleted"] ELSE row[i]
    BY <1>4 DEF RemoveInviter
  <2>2. ASSUME NEW i \in Invites
        PROVE  /\ row'[i].email = row[i].email /\ row'[i].by = row[i].by
               /\ row'[i].state = IF row[i].by = c /\ row[i].state \in Stored
                                    THEN "deleted" ELSE row[i].state
               /\ row'[i] \in RowType
    <3>1. row[i] \in RowType
      BY DEF IndInv, TypeOK
    <3>2. CASE row[i].by = c /\ row[i].state \in Stored
      BY <2>1, <3>1, <3>2 DEF RowType
    <3>3. CASE ~(row[i].by = c /\ row[i].state \in Stored)
      BY <2>1, <3>1, <3>3
    <3> QED
      BY <3>2, <3>3
  <2>3. row' \in [Invites -> RowType]
    BY <1>4, <2>2 DEF RemoveInviter
  <2>4. /\ UNCHANGED <<lapsed, account, joined, pc, req>> /\ inviters' = inviters \ {c}
        /\ \A i \in Invites : row[i].by = c => ~Locked(i)
    BY <1>4 DEF RemoveInviter
  <2> QED
    BY <2>2, <2>3, <2>4, OutsideKeeps DEF IndInv, TypeOK, InvitersExist, Stored
<1> QED
  BY <1>1, <1>2, <1>3, <1>4

\* No invitation, no request.
LEMMA IndInvInit == Init => IndInv
<1> SUFFICES ASSUME Init PROVE IndInv
  OBVIOUS
<1>1. TypeOK
  BY DEF Init, TypeOK, RowType, ReqType, NoRow, NoReq
<1>2. RequestsPrepared /\ MarkedStaysOpen /\ LocksExclusive
  BY DEF Init, RequestsPrepared, MarkedStaysOpen, LocksExclusive, Holds, Creating
<1>3. AcceptedOnce /\ InvitersExist
  BY DEF Init, AcceptedOnce, InvitersExist, NoRow, Stored
<1> QED
  BY <1>1, <1>2, <1>3 DEF IndInv

\* Every step keeps the invariant.
LEMMA IndInvStep == IndInv /\ [Next]_vars => IndInv'
<1> SUFFICES ASSUME IndInv, [Next]_vars PROVE IndInv'
  OBVIOUS
<1>1. CASE Next
  BY <1>1, ReadStepsKeep, InsertKeeps, CreateAccountKeeps, FailKeeps, OutsideStepsKeep
    DEF Next, Step, Abort
<1>2. CASE UNCHANGED vars
  BY <1>2 DEF vars, IndInv, TypeOK, RequestsPrepared, MarkedStaysOpen, LocksExclusive, Holds,
    AcceptedOnce, InvitersExist, Open
<1> QED
  BY <1>1, <1>2

\* The invariant behind the refinement holds in every reachable state.
THEOREM IndInvCorrect == Spec => []IndInv
BY IndInvInit, IndInvStep, PTL DEF Spec

-----------------------------------------------------------------------------
(* The refinement.                                                         *)

\* A step that uses no invitation moves every token legally or not at all.
LEMMA KeptOrMoved ==
  ASSUME IndInv, IndInv', UNCHANGED joined,
         \A i \in Invites :
           \/ row'[i].state = row[i].state
           \/ row[i].state = "absent" /\ row'[i].state = "open"
           \/ row[i].state = "open" /\ row'[i].state = "revoked"
           \/ row[i].state \in Stored /\ row'[i].state = "deleted"
  PROVE  Token!IssueOrWithdraw
<1> SUFFICES ASSUME NEW i \in Invites
             PROVE  /\ Status(i)' \in {"unissued", "open", "used", "withdrawn"}
                    /\ \/ Status(i)' = Status(i)
                       \/ Status(i) = "unissued" /\ Status(i)' = "open"
                       \/ Status(i) = "open" /\ Status(i)' = "withdrawn"
  BY DEF Token!IssueOrWithdraw, Token!Issued, Token!Withdrawn, Token!Statuses
<1>1. /\ row[i].state \in {"absent", "open", "accepted", "revoked", "deleted"}
      /\ row'[i].state \in {"absent", "open", "accepted", "revoked", "deleted"}
      /\ joined'[i] = joined[i] /\ joined[i] \in {0, 1}
      /\ row[i].state = "accepted" => joined[i] = 1
      /\ row[i].state \in {"absent", "open", "revoked"} => joined[i] = 0
  BY DEF IndInv, AcceptedOnce, TypeOK, RowType, Stored
<1> QED
  BY <1>1 DEF Status, Stored

\* The step that creates an account is the use of its invitation.
LEMMA CreateAccountUses ==
  ASSUME IndInv, NEW p \in Requests, CreateAccount(p), ~Fail(p),
         NEW n, n = req[p].invite
  PROVE  Token!Use(n) /\ n \in Invites
<1>1. /\ pc[p] = "marked" /\ SetState(n, "accepted")
      /\ joined' = [joined EXCEPT ![n] = @ + 1]
  BY DEF CreateAccount
<1>2. n \in Invites /\ row[n].state = "open"
  BY <1>1 DEF IndInv, RequestsPrepared, MarkedStaysOpen, Open
<1>3. /\ row'[n] = [row[n] EXCEPT !.state = "accepted"]
      /\ \A i \in Invites : i # n => row'[i] = row[i] /\ joined'[i] = joined[i]
  BY <1>1, <1>2 DEF SetState, IndInv, TypeOK
<1>4. row'[n].state = "accepted"
  BY <1>2, <1>3 DEF IndInv, TypeOK, RowType
<1>5. Status(n) = "open" /\ Status(n)' = "used"
  BY <1>2, <1>4 DEF Status
<1>6. \A i \in Invites : i # n => Status(i)' = Status(i)
  BY <1>3 DEF Status
<1>7. [i \in Invites |-> Status(i)]' = [[i \in Invites |-> Status(i)] EXCEPT ![n] = "used"]
  BY <1>5, <1>6
<1> QED
  BY <1>1, <1>2, <1>5, <1>7 DEF Token!Use

\* Every step of the invitations is a step of the one-time token, or none.
LEMMA StepRefines == IndInv /\ IndInv' /\ [Next]_vars => [Token!Next]_(Token!vars)
<1> SUFFICES ASSUME IndInv, IndInv', [Next]_vars PROVE [Token!Next]_(Token!vars)
  OBVIOUS
<1>1. ASSUME UNCHANGED <<row, joined>> PROVE Token!IssueOrWithdraw
  BY <1>1, KeptOrMoved
<1>2. ASSUME NEW p \in Requests, CreateAccount(p) PROVE Token!Next
  BY <1>1, <1>2, CreateAccountUses DEF Fail, rowVars, Token!Next
<1>3. ASSUME NEW p \in Requests, InsertInvitation(p) PROVE Token!IssueOrWithdraw
  <2>1. CASE Fail(p)
    BY <1>1, <2>1 DEF Fail, rowVars
  <2>2. CASE ~Fail(p)
    <3>1. row' = Inserted(p) /\ UNCHANGED joined /\ row[req[p].invite].state = "absent"
      BY <1>3, <2>2 DEF InsertInvitation, IndInv, RequestsPrepared, Creating
    <3>2. \A i \in Invites :
            \/ row'[i].state = row[i].state
            \/ row[i].state = "absent" /\ row'[i].state = "open"
            \/ row[i].state = "open" /\ row'[i].state = "revoked"
      BY <3>1 DEF Inserted, Open, IndInv, TypeOK, RowType
    <3> QED
      BY <3>1, <3>2, KeptOrMoved
  <2> QED
    BY <2>1, <2>2
<1>4. ASSUME NEW i \in Invites, NEW by \in Inviters, RevokeInvitation(by, i)
      PROVE  Token!IssueOrWithdraw
  <2>1. \A j \in Invites :
          \/ row'[j].state = row[j].state
          \/ row[j].state = "open" /\ row'[j].state = "revoked"
    <3>1. row[i].state = "open" /\ row' = [row EXCEPT ![i].state = "revoked"]
      BY <1>4 DEF RevokeInvitation, SetState, Open
    <3> QED
      BY <3>1 DEF IndInv, TypeOK, RowType, Stored
  <2> QED
    BY <1>4, <2>1, KeptOrMoved DEF RevokeInvitation
<1>5. ASSUME NEW c \in Inviters, RemoveInviter(c) PROVE Token!IssueOrWithdraw
  <2>1. \A j \in Invites :
          \/ row'[j].state = row[j].state
          \/ row[j].state \in Stored /\ row'[j].state = "deleted"
    <3> SUFFICES ASSUME NEW j \in Invites
                 PROVE  \/ row'[j].state = row[j].state
                        \/ row[j].state \in Stored /\ row'[j].state = "deleted"
      OBVIOUS
    <3>1. row[j] \in RowType
      BY DEF IndInv, TypeOK
    <3>2. row'[j] = IF row[j].by = c /\ row[j].state \in Stored
                      THEN [row[j] EXCEPT !.state = "deleted"] ELSE row[j]
      BY <1>5 DEF RemoveInviter
    <3> QED
      BY <3>1, <3>2 DEF RowType
  <2> QED
    BY <1>5, <2>1, KeptOrMoved DEF RemoveInviter
<1>6. CASE UNCHANGED vars
  BY <1>1, <1>6 DEF vars, Token!Next
<1>7. ASSUME NEW p \in Requests,
             \/ FindOpen(p) \/ Supersede(p) \/ MarkAccepted(p) \/ Abort(p)
             \/ \E i \in Invites : BeginAccept(p, i)
             \/ \E i \in Invites, by \in Inviters, e \in Emails : BeginCreate(p, by, e, i)
      PROVE  UNCHANGED <<row, joined>>
  BY <1>7 DEF FindOpen, Supersede, MarkAccepted, Abort, BeginAccept, BeginCreate, Fail, rowVars
<1>8. ASSUME \/ \E i \in Invites, c \in Clocks : Lapse(i, c)
             \/ \E e \in Emails : SignUp(e) \/ LeaveTeam(e)
      PROVE  UNCHANGED <<row, joined>>
  BY <1>8 DEF Lapse, SignUp, LeaveTeam
<1> QED
  BY <1>1, <1>2, <1>3, <1>4, <1>5, <1>6, <1>7, <1>8 DEF Next, Step, Token!Next

\* An invitation is a one-time token: however requests, clocks and departures
\* interleave, it makes at most one account, and none once it is withdrawn.
THEOREM InvitationsAreOneTimeTokens == Spec => IsOneTimeToken
<1>1. Init => Token!Init
  BY DEF Init, Token!Init, Status, NoRow
<1> QED
  BY <1>1, StepRefines, IndInvCorrect, PTL DEF Spec, IsOneTimeToken, Token!Spec

-----------------------------------------------------------------------------
(* Who joins, and what is superseded.                                      *)

\* Only the creation of an account counts for an invitation, and the invitation
\* is open then: its inviter is there.
LEMMA JoinStep ==
  ASSUME IndInv, Next, NEW i \in Invites, joined'[i] # joined[i]
  PROVE  row[i].by \in inviters
<1>1. PICK p \in Requests : CreateAccount(p) /\ ~Fail(p)
  BY DEF Next, Step, FindOpen, Supersede, InsertInvitation, MarkAccepted, Abort, BeginAccept,
         BeginCreate, RevokeInvitation, Lapse, SignUp, LeaveTeam, RemoveInviter, Fail, rowVars
<1>2. pc[p] = "marked" /\ joined' = [joined EXCEPT ![req[p].invite] = @ + 1]
  BY <1>1 DEF CreateAccount
<1>3. i = req[p].invite
  BY <1>2 DEF IndInv, TypeOK
<1>4. row[i].state = "open"
  BY <1>2, <1>3 DEF IndInv, MarkedStaysOpen, Open
<1> QED
  BY <1>4 DEF IndInv, InvitersExist, Stored

\* Whoever joins was invited by somebody who is still there: removing a member
\* takes that member's invitations along.
THEOREM JoinNeedsInviterCorrect == Spec => JoinNeedsInviter
<1>1. IndInv /\ [Next]_vars
        => [\A i \in Invites : joined'[i] # joined[i] => row[i].by \in inviters]_vars
  BY JoinStep
<1> QED
  BY <1>1, IndInvCorrect, PTL DEF Spec, JoinNeedsInviter

\* A clock that has passed an expiry does not go back.
LEMMA LapsedGrows ==
  ASSUME IndInv, [Next]_vars, NEW i \in Invites, "app" \in lapsed[i]
  PROVE  "app" \in lapsed'[i]
<1>1. CASE UNCHANGED lapsed
  BY <1>1
<1>2. ASSUME NEW j \in Invites, NEW c \in Clocks, Lapse(j, c) PROVE "app" \in lapsed'[i]
  BY <1>2 DEF Lapse, IndInv, TypeOK
<1> QED
  BY <1>1, <1>2 DEF Next, vars, Step, FindOpen, Supersede, InsertInvitation, MarkAccepted,
     CreateAccount, Abort, BeginAccept, BeginCreate, RevokeInvitation, SignUp, LeaveTeam,
     RemoveInviter, Fail, rowVars

\* Where a request stands after a step: where it stood, at its end, or further on.
LEMMA OldHasLapsedStep == IndInv /\ OldHasLapsed /\ [Next]_vars => OldHasLapsed'
<1> SUFFICES ASSUME IndInv, OldHasLapsed, [Next]_vars, NEW p \in Requests,
                    pc'[p] \in {"supersede", "insert"}, req'[p].old # NoInvite
             PROVE  "app" \in lapsed'[req'[p].old]
  BY DEF OldHasLapsed
<1> SUFFICES ASSUME NEW i \in Invites, i = req'[p].old
             PROVE  "app" \in lapsed[i]
  <2>1. req'[p].old \in Invites
    <3>1. req' \in [Requests -> ReqType]
      BY IndInvStep DEF IndInv, TypeOK
    <3> QED
      BY <3>1 DEF ReqType
  <2> QED
    BY <2>1, LapsedGrows
<1>1. CASE pc'[p] = pc[p] /\ req'[p] = req[p]
  BY <1>1 DEF OldHasLapsed
<1>2. CASE ~(pc'[p] = pc[p] /\ req'[p] = req[p])
  <2>1. PICK q \in Requests :
          \/ Step(q) \/ Abort(q)
          \/ \E j \in Invites :
               \/ BeginAccept(q, j)
               \/ \E by \in Inviters, e \in Emails : BeginCreate(q, by, e, j)
    BY <1>2 DEF Next, vars, RevokeInvitation, Lapse, SignUp, LeaveTeam, RemoveInviter
  <2>2. ASSUME Finish(q) PROVE FALSE
    BY <1>2, <2>2, FinishOthers DEF IndInv
  <2>3. CASE FindOpen(q)
    <3>1. CASE OpenForSame(q) = {} /\ Goto(q, "insert") /\ UNCHANGED <<rowVars, req>>
      <4>1. p = q /\ req'[p] = req[p] /\ pc[p] = "create"
        BY <1>2, <2>3, <3>1 DEF Goto, FindOpen, IndInv, TypeOK
      <4> QED
        BY <4>1 DEF IndInv, RequestsPrepared
    <3>2. ASSUME NEW j \in OpenForSame(q), "app" \in lapsed[j],
                 req' = [req EXCEPT ![q].old = j], Goto(q, "supersede")
          PROVE  "app" \in lapsed[i]
      <4>1. p = q
        BY <1>2, <3>2 DEF Goto, IndInv, TypeOK
      <4>2. req'[p].old = j
        BY <3>2, <4>1 DEF IndInv, TypeOK, ReqType
      <4> QED
        BY <3>2, <4>2
    <3> QED
      BY <2>2, <2>3, <3>1, <3>2 DEF FindOpen, Fail
  <2>4. CASE Supersede(q)
    <3>1. p = q /\ pc[p] = "supersede"
      BY <1>2, <2>4 DEF Supersede, Goto, IndInv, TypeOK
    <3>2. req'[p].old \in {req[p].old, NoInvite}
      BY <2>4, <3>1 DEF Supersede, IndInv, TypeOK, ReqType
    <3> QED
      BY <3>1, <3>2 DEF OldHasLapsed
  <2>5. CASE InsertInvitation(q) \/ CreateAccount(q) \/ Abort(q)
    BY <2>2, <2>5 DEF InsertInvitation, CreateAccount, Abort, Fail
  <2>6. CASE MarkAccepted(q)
    BY <1>2, <2>2, <2>6 DEF MarkAccepted, Goto, Fail, IndInv, TypeOK
  <2>7. CASE \E j \in Invites :
               \/ BeginAccept(q, j)
               \/ \E by \in Inviters, e \in Emails : BeginCreate(q, by, e, j)
    BY <1>2, <2>7 DEF BeginAccept, BeginCreate, Goto, IndInv, TypeOK
  <2> QED
    BY <2>1, <2>3, <2>4, <2>5, <2>6, <2>7 DEF Step
<1> QED
  BY <1>1, <1>2

\* A request that supersedes an invitation has seen that it had expired.
THEOREM OldHasLapsedCorrect == Spec => []OldHasLapsed
<1>1. Init => OldHasLapsed
  BY DEF Init, OldHasLapsed
<1> QED
  BY <1>1, OldHasLapsedStep, IndInvCorrect, PTL DEF Spec

\* Of the rows that are there, an insertion revokes only the old one.
LEMMA SupersedingStep ==
  ASSUME IndInv, OldHasLapsed, Next, NEW p \in Requests, NEW i \in Invites,
         pc[p] = "insert", Open(i), row'[i].state = "revoked", pc'[p] = "idle"
  PROVE  "app" \in lapsed[i]
<1>1. row[i].state = "open" /\ row' # row
  BY DEF Open
<1>2. InsertInvitation(p) /\ row' = Inserted(p)
  <2>1. pc' # pc
    BY DEF IndInv, TypeOK
  <2>2. PICK q \in Requests :
          \/ Step(q) \/ Abort(q)
          \/ \E j \in Invites :
               \/ BeginAccept(q, j)
               \/ \E by \in Inviters, e \in Emails : BeginCreate(q, by, e, j)
    BY <2>1 DEF Next, RevokeInvitation, Lapse, SignUp, LeaveTeam, RemoveInviter
  <2>3. q = p
    <3>1. CASE Finish(q)
      BY <3>1, FinishOthers DEF IndInv
    <3>2. CASE \E l \in {"create", "supersede", "insert", "accept", "marked"} : Goto(q, l)
      BY <3>2 DEF Goto, IndInv, TypeOK
    <3> QED
      BY <2>2, <3>1, <3>2 DEF Step, FindOpen, Supersede, InsertInvitation, MarkAccepted,
         CreateAccount, Abort, BeginAccept, BeginCreate, Fail
  <2>4. InsertInvitation(p) \/ Abort(p)
    BY <2>2, <2>3 DEF Step, FindOpen, Supersede, MarkAccepted, CreateAccount, BeginAccept, BeginCreate
  <2>5. ~Fail(p)
    BY <1>1 DEF Fail, rowVars
  <2> QED
    BY <2>4, <2>5 DEF Abort, InsertInvitation
<1>3. i # req[p].invite
  BY <1>1 DEF IndInv, RequestsPrepared, Creating
<1>4. i = req[p].old
  BY <1>1, <1>2, <1>3 DEF Inserted
<1> QED
  BY <1>4 DEF OldHasLapsed

\* An invitation that can still be accepted is not taken back by inviting the
\* same address again: only an expired one is superseded.
THEOREM LiveNotSupersededCorrect == Spec => LiveNotSuperseded
<1>1. IndInv /\ OldHasLapsed /\ [Next]_vars
        => [\A p \in Requests, i \in Invites :
              pc[p] = "insert" /\ Open(i) /\ row'[i].state = "revoked" /\ pc'[p] = "idle"
                => "app" \in lapsed[i]]_vars
  BY SupersedingStep
<1> QED
  BY <1>1, IndInvCorrect, OldHasLapsedCorrect, PTL DEF Spec, LiveNotSuperseded
=============================================================================
