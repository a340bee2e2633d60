----------------------------- MODULE Mailboxes -----------------------------
(***************************************************************************)
(* The mailboxes of a domain in the two systems that keep them: rows of    *)
(* the database and accounts of the mail cluster, written one after the    *)
(* other by the handlers (backend/internal/handlers/mailboxes.go,          *)
(* mailbox_settings.go, mailbox_repair.go) and by the expiration sweep     *)
(* (expiration_job.go).  A row is addressed by its id, an account by the   *)
(* mailbox's name, which a later mailbox may take again.                   *)
(*                                                                         *)
(* A request works through jobs: one for a handler, one per expired        *)
(* mailbox for a sweep.  A job is a call to the cluster (Call) and, for    *)
(* most, a statement in the database after it (Record).  Looking an        *)
(* account up by name and changing it by id are one step: ids are not      *)
(* reused, so a change in between makes the call fail, as CallFails does.  *)
(***************************************************************************)
EXTENDS Naturals, FiniteSets

CONSTANTS
  Ids,        \* identifiers of mailboxes rows
  Names,      \* local parts, in lower case
  Standard,   \* StandardAddresses: they do not count toward the plan
  Limit,      \* mailboxes per domain of the plan
  Requests,   \* requests and sweeps in flight at the same time
  Ops,        \* what clients ask for in this instance
  Faults,     \* what goes wrong in this instance
  NoId,       \* no row
  NoName      \* no name

ClientOps == {"create", "delete", "suspend", "activate", "password", "repair", "expiration"}

ASSUME StandardAssumption == Standard \subseteq Names
ASSUME LimitAssumption == Limit \in Nat
ASSUME RequestsAssumption == IsFiniteSet(Requests) /\ Requests # {}
ASSUME IdsAssumption == IsFiniteSet(Ids)
ASSUME OpsAssumption == Ops \subseteq ClientOps
ASSUME FaultsAssumption == Faults \subseteq {"call", "answer", "record", "crash"}
ASSUME NoneAssumption == NoId \notin Ids /\ NoName \notin Names

VARIABLES
  row,       \* mailboxes, by id; "gone" once deleted
  account,   \* the cluster's account of each name: none, open or blocked
  pc,        \* where each request is
  job,       \* what it is doing
  todo,      \* what a sweep still has on its list
  asked,     \* history: rows whose deletion was asked for, or has come due
  loose      \* history: names an operation has stopped half way for, or two
             \* were at work on together

vars == <<row, account, pc, job, todo, asked, loose>>

-----------------------------------------------------------------------------
Statuses == {"absent", "active", "suspended", "gone"}
Accounts == {"none", "open", "blocked"}
JobOps == {"create", "delete", "suspend", "activate", "password", "repair",
           "sweep_delete", "sweep_suspend"}
Deletes == {"delete", "sweep_delete"}
Suspends == {"suspend", "sweep_suspend"}
\* (fault) the sweep takes the next mailbox before it has recorded a suspension.
Recorded_NotSwept == {"create", "activate", "suspend"} \cup Deletes
\* The operations that go on to write the database.
Recorded == {"create", "activate"} \cup Deletes \cup Suspends

RowType == [status : Statuses, name : Names \cup {NoName}, expired : BOOLEAN, remove : BOOLEAN]
JobType == [op : JobOps, id : Ids \cup {NoId}, name : Names]
NoRow == [status |-> "absent", name |-> NoName, expired |-> FALSE, remove |-> FALSE]
NoJob == [op |-> "none", id |-> NoId, name |-> NoName]

Live(i) == row[i].status \in {"active", "suspended"}
Fresh == {i \in Ids : row[i].status = "absent"}
Creating == {p \in Requests : pc[p] # "idle" /\ job[p].op = "create"}

\* CountMailboxes: rows that count toward the plan.
Counted == {i \in Ids : Live(i) /\ row[i].name \notin Standard}
CreatingCounted == {p \in Creating : job[p].name \notin Standard}

Init ==
  /\ row = [i \in Ids |-> NoRow]
  /\ account = [n \in Names |-> "none"]
  /\ pc = [p \in Requests |-> "idle"]
  /\ job = [p \in Requests |-> NoJob]
  /\ todo = [p \in Requests |-> {}]
  /\ asked = {}
  /\ loose = {}

-----------------------------------------------------------------------------
Start(p, j, rest) ==
  /\ pc' = [pc EXCEPT ![p] = "call"]
  /\ job' = [job EXCEPT ![p] = j]
  /\ todo' = [todo EXCEPT ![p] = rest]

\* The request is over, or a sweep goes on to any other mailbox of its list.
Stop(p) ==
  /\ pc' = [pc EXCEPT ![p] = "idle"]
  /\ job' = [job EXCEPT ![p] = NoJob]
  /\ todo' = [todo EXCEPT ![p] = {}]

Proceed(p) ==
  \/ todo[p] = {} /\ Stop(p)
  \/ \E j \in todo[p] : Start(p, j, todo[p] \ {j})

\* A request or a sweep has something to do to mailboxes of these names.
AtWork(n) ==
  \E p \in Requests :
    (pc[p] # "idle" /\ job[p].name = n) \/ \E j \in todo[p] : j.name = n

Begins(names) == loose' = loose \cup {n \in names : AtWork(n)}

(* What the cluster does with a call.                                      *)
Accepts(j) ==
  CASE j.op = "create" -> account[j.name] = "none"
    [] j.op \in Deletes \cup {"repair"} -> TRUE
    [] OTHER -> account[j.name] # "none"

\* A password replaces the whole credential, the date that blocks it included.
Effect(j) ==
  CASE j.op \in Deletes -> "none"
    [] j.op \in Suspends -> "blocked"
    [] j.op = "repair" /\ account[j.name] # "none" -> account[j.name]
    [] OTHER -> "open"

-----------------------------------------------------------------------------
(* Requests.                                                               *)

\* (fault) the limit may be reached and exceeded by one.
BeginCreate_OffByOne(p, n) ==
  /\ "create" \in Ops /\ pc[p] = "idle"
  /\ Cardinality(Creating) < Cardinality(Fresh)
  /\ n \in Standard \/ Cardinality(Counted) <= Limit
  /\ Start(p, [op |-> "create", id |-> NoId, name |-> n], {})
  /\ Begins({n})
  /\ UNCHANGED <<row, account, asked>>

\* createMailbox up to its call: the plan's limit.  (bound) An id is left for
\* every creation in flight.
BeginCreate(p, n) ==
  /\ "create" \in Ops /\ pc[p] = "idle"
  /\ Cardinality(Creating) < Cardinality(Fresh)
  /\ n \in Standard \/ Cardinality(Counted) < Limit
  /\ Start(p, [op |-> "create", id |-> NoId, name |-> n], {})
  /\ Begins({n})
  /\ UNCHANGED <<row, account, asked>>

\* The other handlers load the mailbox (loadOwnedMailbox) and call the cluster.
BeginChange(p, op, i) ==
  /\ op \in Ops \ {"create", "expiration"} /\ pc[p] = "idle"
  /\ Live(i)
  /\ Start(p, [op |-> op, id |-> i, name |-> row[i].name], {})
  /\ asked' = IF op = "delete" THEN asked \cup {i} ELSE asked
  /\ Begins({row[i].name})
  /\ UNCHANGED <<row, account>>

\* UpdateMailboxExpiration: one statement; a new date, or none.
SetExpiration(i, remove) ==
  /\ "expiration" \in Ops /\ Live(i)
  /\ row' = [row EXCEPT ![i].expired = FALSE, ![i].remove = remove]
  /\ UNCHANGED <<account, pc, job, todo, asked, loose>>

\* The database's clock passes expires_at.
Expire(i) ==
  /\ "expiration" \in Ops /\ Live(i)
  /\ row' = [row EXCEPT ![i].expired = TRUE]
  /\ UNCHANGED <<account, pc, job, todo, asked, loose>>

(* RunExpirationSweep.                                                     *)
Expired == {i \in Ids : row[i].status = "active" /\ row[i].expired}

SweepJob(i) ==
  [op |-> IF row[i].remove THEN "sweep_delete" ELSE "sweep_suspend",
   id |-> i, name |-> row[i].name]

BeginSweep(p) ==
  /\ pc[p] = "idle"
  /\ \E i \in Expired : Start(p, SweepJob(i), {SweepJob(k) : k \in Expired \ {i}})
  /\ asked' = asked \cup {i \in Expired : row[i].remove}
  /\ Begins({row[i].name : i \in Expired})
  /\ UNCHANGED <<row, account>>

-----------------------------------------------------------------------------
(* A job.                                                                  *)

\* (fault) an account that is already gone is an error to DeleteMailbox too.
Call_DeleteNotFoundFails(p) ==
  /\ pc[p] = "call"
  /\ LET j == job[p]
         accepted == Accepts(j) /\ (j.op \in Deletes => account[j.name] # "none")
     IN  /\ account' = IF accepted THEN [account EXCEPT ![j.name] = Effect(j)] ELSE account
         /\ IF accepted /\ j.op \in Recorded
              THEN pc' = [pc EXCEPT ![p] = "record"] /\ UNCHANGED <<job, todo>>
              ELSE Proceed(p)
  /\ UNCHANGED <<row, asked, loose>>

\* The cluster answers: done, or refused.
Call(p) ==
  /\ pc[p] = "call"
  /\ LET j == job[p] IN
       /\ account' = IF Accepts(j) THEN [account EXCEPT ![j.name] = Effect(j)] ELSE account
       /\ IF Accepts(j) /\ j.op \in Recorded
            THEN pc' = [pc EXCEPT ![p] = "record"] /\ UNCHANGED <<job, todo>>
            ELSE Proceed(p)
  /\ UNCHANGED <<row, asked, loose>>

\* (fault) the request goes on to its records although the call failed.
CallFails_Unnoticed(p) ==
  /\ pc[p] = "call" /\ "call" \in Faults
  /\ IF job[p].op \in Recorded
       THEN pc' = [pc EXCEPT ![p] = "record"] /\ UNCHANGED <<job, todo>>
       ELSE Proceed(p)
  /\ UNCHANGED <<row, account, asked, loose>>

\* The call does not reach the cluster, or fails there: the job is given up.
CallFails(p) ==
  /\ pc[p] = "call" /\ "call" \in Faults
  /\ Proceed(p)
  /\ UNCHANGED <<row, account, asked, loose>>

\* The cluster does it, but the answer is lost: the job is given up.
AnswerLost(p) ==
  /\ pc[p] = "call" /\ "answer" \in Faults
  /\ Accepts(job[p])
  /\ account' = [account EXCEPT ![job[p].name] = Effect(job[p])]
  /\ Proceed(p)
  /\ loose' = IF job[p].op \in Recorded THEN loose \cup {job[p].name} ELSE loose
  /\ UNCHANGED <<row, asked>>

\* INSERT: the pair of domain and local part is unique.
InsertMailbox(p) ==
  /\ pc[p] = "record" /\ job[p].op = "create"
  /\ IF \E i \in Ids : Live(i) /\ row[i].name = job[p].name
       THEN UNCHANGED row
       ELSE \E i \in Fresh :
              row' = [row EXCEPT ![i] = [NoRow EXCEPT !.status = "active", !.name = job[p].name]]
  /\ Proceed(p)
  /\ UNCHANGED <<account, asked, loose>>

\* UPDATE or DELETE by id: a row that is gone is not found.
RecordedStatus(op) ==
  CASE op \in Deletes -> "gone" [] op \in Suspends -> "suspended" [] OTHER -> "active"

RecordChange(p) ==
  /\ pc[p] = "record" /\ job[p].op # "create"
  /\ row' = IF Live(job[p].id)
              THEN [row EXCEPT ![job[p].id].status = RecordedStatus(job[p].op)] ELSE row
  /\ Proceed(p)
  /\ UNCHANGED <<account, asked, loose>>

\* The statement fails: the cluster has changed, the records have not.
RecordFails(p) ==
  /\ pc[p] = "record" /\ "record" \in Faults
  /\ Proceed(p)
  /\ loose' = loose \cup {job[p].name}
  /\ UNCHANGED <<row, account, asked>>

\* The server stops or the request is cancelled, a sweep with all its list.
Crash(p) ==
  /\ pc[p] # "idle" /\ "crash" \in Faults
  /\ Stop(p)
  /\ loose' = IF pc[p] = "record" THEN loose \cup {job[p].name} ELSE loose
  /\ UNCHANGED <<row, account, asked>>

-----------------------------------------------------------------------------
Record(p) == InsertMailbox(p) \/ RecordChange(p)

Next ==
  \/ \E p \in Requests :
       \/ \E n \in Names : BeginCreate(p, n)
       \/ \E op \in Ops, i \in Ids : BeginChange(p, op, i)
       \/ BeginSweep(p)
       \/ Call(p) \/ CallFails(p) \/ AnswerLost(p)
       \/ Record(p) \/ RecordFails(p) \/ Crash(p)
  \/ \E i \in Ids : Expire(i) \/ \E remove \in BOOLEAN : SetExpiration(i, remove)

Spec == Init /\ [][Next]_vars

Sweeping(p, i) == job[p].id = i /\ job[p].op \in {"sweep_delete", "sweep_suspend"}

\* Requests run on, and a sweep starts again and again (every 15 minutes).
\* What fails does not fail forever: a call or a statement for a mailbox that
\* sweeps try over and over succeeds.
FairSpec ==
  /\ Spec
  /\ \A p \in Requests : WF_vars(Call(p) \/ Record(p))
  /\ SF_vars(\E p \in Requests : BeginSweep(p))
  /\ \A i \in Ids :
       /\ SF_vars(\E p \in Requests : Sweeping(p, i) /\ Call(p))
       /\ SF_vars(\E p \in Requests : Sweeping(p, i) /\ RecordChange(p))

-----------------------------------------------------------------------------
(* Properties.                                                             *)

TypeOK ==
  /\ row \in [Ids -> RowType]
  /\ account \in [Names -> Accounts]
  /\ pc \in [Requests -> {"idle", "call", "record"}]
  /\ job \in [Requests -> JobType \cup {NoJob}]
  /\ todo \in [Requests -> SUBSET JobType]
  /\ asked \subseteq Ids

\* The plan's limit is checked before the cluster is called and the row
\* inserted after it: the mailboxes of a domain exceed the plan by no more than
\* the requests that were in flight together (createMailbox).
PlanOvershoot == Cardinality(Counted) < Limit + Cardinality(Requests)

\* A mailbox on record loses its account only to the deletion of a mailbox of
\* that name: itself, or an earlier one whose deletion arrives late.
LostOnlyByDeletion ==
  \A i \in Ids : Live(i) /\ account[row[i].name] = "none" =>
    \E j \in asked : row[j].name = row[i].name

\* When no request is under way, the two systems hold the same mailboxes, and
\* none is blocked that the records call active, but for names for which an
\* operation stopped between the two, or two went on together.
InStep ==
  \A n \in Names \ loose : ~AtWork(n) =>
    /\ account[n] # "none" <=> \E i \in Ids : Live(i) /\ row[i].name = n
    /\ \A i \in Ids : row[i].status = "active" /\ row[i].name = n => account[n] = "open"

\* A suspended mailbox cannot log in (stalwart.SuspendMailbox "blocks a mailbox
\* from authenticating").
SuspendedIsBlocked ==
  \A i \in Ids : row[i].status = "suspended" /\ (\A p \in Requests : pc[p] = "idle")
    => account[row[i].name] = "blocked"

\* Running a sweep twice is safe: it does not touch the account of a mailbox
\* that is not on its list (handlers.RunExpirationSweepJob).
SweepSparesOthers ==
  [][\A p \in Requests, i \in Ids :
       /\ pc[p] = "call" /\ job[p].op \in {"sweep_delete", "sweep_suspend"}
       /\ Live(i) /\ i # job[p].id
       /\ <<pc'[p], job'[p]>> # <<pc[p], job[p]>>
       => account'[row[i].name] = account[row[i].name]]_vars

\* Every mailbox that expires is dealt with, whichever sweeps fail half way:
\* deleted, suspended, or given another date meanwhile (RunExpirationSweep).
\* Only one that is to be suspended and has lost its account, to a deletion
\* that went half way, has to be repaired first.
ExpiredDealtWith ==
  \A i \in Ids :
    i \in Expired ~> i \notin Expired \/ (~row[i].remove /\ account[row[i].name] = "none")

-----------------------------------------------------------------------------
(* The inductive invariant behind PlanOvershoot and LostOnlyByDeletion.    *)

RowsNamed == \A i \in Ids : row[i].status # "absent" => row[i].name \in Names

\* What a request does, or a sweep has on its list, is about a row that was
\* there, by the name it has always had.
Sound(j) ==
  IF j.op = "create" THEN j.id = NoId
  ELSE /\ j.id \in Ids
       /\ row[j.id].status # "absent"
       /\ row[j.id].name = j.name
       /\ j.op \in Deletes => j.id \in asked

JobsSound ==
  \A p \in Requests :
    /\ pc[p] = "idle" => todo[p] = {}
    /\ pc[p] # "idle" => job[p] \in JobType /\ Sound(job[p])
    /\ \A j \in todo[p] : Sound(j) /\ j.op # "create"

AskedThere == \A i \in asked : row[i].status # "absent"

\* LostOnlyByDeletion, and the same of an account about to be recorded.
LossExplained(n) == account[n] = "none" => \E j \in asked : row[j].name = n
LossesExplained ==
  /\ \A i \in Ids : Live(i) => LossExplained(row[i].name)
  /\ \A p \in Requests : pc[p] = "record" /\ job[p].op = "create" => LossExplained(job[p].name)

WithinReach == Cardinality(Counted) + Cardinality(CreatingCounted) < Limit + Cardinality(Requests)

IndInv ==
  /\ TypeOK /\ RowsNamed /\ JobsSound /\ AskedThere
  /\ LossesExplained /\ WithinReach

-----------------------------------------------------------------------------
(* The inductive invariant behind InStep, beside IndInv.                   *)

LiveUnique ==
  \A i, k \in Ids : Live(i) /\ Live(k) /\ row[i].name = row[k].name => i = k

\* Of a name that is not loose one request has one thing to do, and the row it is
\* about is there until then.
OneAtWork ==
  \A p, q \in Requests :
    /\ pc[p] # "idle" /\ job[p].name \notin loose =>
         /\ pc[q] # "idle" /\ job[q].name = job[p].name => p = q
         /\ \A k \in todo[q] : k.name # job[p].name
    /\ \A j \in todo[p], k \in todo[q] :
         j.name \notin loose /\ j.name = k.name => p = q /\ j = k

WorkedOnLive ==
  \A p \in Requests :
    /\ pc[p] # "idle" /\ job[p].op # "create" /\ job[p].name \notin loose => Live(job[p].id)
    /\ \A j \in todo[p] : j.name \notin loose => Live(j.id)

Agree(n) ==
  /\ account[n] # "none" <=> \E i \in Ids : Live(i) /\ row[i].name = n
  /\ \A i \in Ids : row[i].status = "active" /\ row[i].name = n => account[n] = "open"

\* Between its call and its statement a request has made of the account what it is
\* about to record.
HalfDone(p) ==
  LET j == job[p] IN
  /\ j.op \in Recorded
  /\ j.name \notin loose =>
       /\ account[j.name] = Effect(j)
       /\ j.op = "create" => \A i \in Ids : Live(i) => row[i].name # j.name

BetweenTheTwo ==
  /\ \A p \in Requests : pc[p] = "record" => HalfDone(p)
  /\ \A n \in Names \ loose :
       Agree(n) \/ \E p \in Requests : pc[p] = "record" /\ job[p].name = n

StepInv == LiveUnique /\ OneAtWork /\ WorkedOnLive /\ BetweenTheTwo
=============================================================================
