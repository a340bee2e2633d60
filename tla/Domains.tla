------------------------------ MODULE Domains ------------------------------
(***************************************************************************)
(* The domains of an organization in the two systems that keep them: rows  *)
(* of the database, with the rows of their mailboxes, and domains of the   *)
(* mail cluster, with their accounts and their DKIM keys                   *)
(* (backend/internal/handlers/domains.go, domain_settings.go, dns.go,      *)
(* admin.go, mailbox_repair.go and backend/internal/stalwart/domains.go).  *)
(* A row is addressed by its id, a domain of the cluster by its name: the  *)
(* name of a deleted row may be taken again, and a domain the cluster has  *)
(* already is adopted.                                                     *)
(*                                                                         *)
(* A request is a sequence of statements and calls, each a step; looking a *)
(* name up in the cluster and changing what was found are one step.  Of    *)
(* mailboxes there is what bears on the domain: their creation and repair. *)
(***************************************************************************)
EXTENDS Naturals, FiniteSets

CONSTANTS
  Ids,        \* identifiers of domains rows
  Names,      \* domain names
  Boxes,      \* local parts of mailboxes
  Limit,      \* max_domains of the organization's plan
  Requests,   \* requests in flight at the same time
  Ops,        \* what clients ask for in this instance
  Faults,     \* what goes wrong in this instance
  NoId,       \* no row
  NoName      \* no domain name, no local part

Toggles == {"deactivate", "reactivate"}
BoxOps == {"mailbox", "repair"}
JobOps == {"create", "delete", "check"} \cup Toggles \cup BoxOps

ASSUME LimitAssumption == Limit \in Nat
ASSUME IdsAssumption == IsFiniteSet(Ids)
ASSUME OpsAssumption == Ops \subseteq JobOps \cup {"verify"}
ASSUME FaultsAssumption == Faults \subseteq {"call", "answer", "record", "crash"}
ASSUME NoneAssumption == NoId \notin Ids /\ NoName \notin Names \cup Boxes

VARIABLES
  row,       \* domains, by id, with the local parts of their mailboxes
  cluster,   \* the mail cluster's domain of each name
  pc,        \* where each request is
  job,       \* what it is doing
  todo,      \* mailboxes a deletion still has on its list
  asked,     \* history: rows whose deletion was asked for
  vouched,   \* history: rows verified without a look at the cluster
  loose      \* history: names an operation stopped half way for, or whose
             \* creation or repair went on while a deletion did

vars == <<row, cluster, pc, job, todo, asked, vouched, loose>>

-----------------------------------------------------------------------------
Statuses == {"provisioning", "dns_pending", "active", "suspended", "failed"}
RowType == [status : Statuses \cup {"absent", "gone"}, name : Names \cup {NoName},
            boxes : SUBSET Boxes]
ClusterType == [domain : {"none", "enabled", "disabled"}, keys : BOOLEAN,
                accounts : SUBSET Boxes]
JobType == [op : JobOps, id : Ids \cup {NoId}, name : Names, box : Boxes \cup {NoName},
            status : Statuses \cup {"none"}]

NoRow == [status |-> "absent", name |-> NoName, boxes |-> {}]
NoDomain == [domain |-> "none", keys |-> FALSE, accounts |-> {}]
NewDomain == [domain |-> "enabled", keys |-> TRUE, accounts |-> {}]
NoJob == [op |-> "none", id |-> NoId, name |-> NoName, box |-> NoName, status |-> "none"]

Live(i) == i \in Ids /\ row[i].status \in Statuses
Fresh == {i \in Ids : row[i].status = "absent"}
Inserting == {p \in Requests : pc[p] = "insert"}

\* CountDomainsForOrganization: failed ones do not count.
Occupying == {i \in Ids : Live(i) /\ row[i].status # "failed"}

Init ==
  /\ row = [i \in Ids |-> NoRow]
  /\ cluster = [n \in Names |-> NoDomain]
  /\ pc = [p \in Requests |-> "idle"]
  /\ job = [p \in Requests |-> NoJob]
  /\ todo = [p \in Requests |-> {}]
  /\ asked = {} /\ vouched = {} /\ loose = {}

-----------------------------------------------------------------------------
Goto(p, l) == pc' = [pc EXCEPT ![p] = l] /\ UNCHANGED <<job, todo>>

Start(p, l, j) ==
  /\ pc[p] = "idle" /\ j.op \in Ops
  /\ pc' = [pc EXCEPT ![p] = l]
  /\ job' = [job EXCEPT ![p] = j]
  /\ UNCHANGED <<row, cluster, todo, vouched>>

Stop(p) ==
  /\ pc' = [pc EXCEPT ![p] = "idle"]
  /\ job' = [job EXCEPT ![p] = NoJob]
  /\ todo' = [todo EXCEPT ![p] = {}]

SetStatus(i, s) == row' = IF Live(i) THEN [row EXCEPT ![i].status = s] ELSE row

\* DELETE FROM domains, and by cascade its mailboxes.
DropRow(i) ==
  row' = IF Live(i) THEN [row EXCEPT ![i].status = "gone", ![i].boxes = {}] ELSE row

\* Row i meets a request of one of these kinds that is under way for it.
Meets(i, ops) ==
  loose' = IF \E p \in Requests : job[p].id = i /\ job[p].op \in ops
             THEN loose \cup {row[i].name} ELSE loose

-----------------------------------------------------------------------------
(* Requests.                                                               *)

\* CreateDomain up to its count of domains.  (bound) An id is left for every
\* creation in flight.
BeginCreate(p, n) ==
  /\ Cardinality(Inserting) < Cardinality(Fresh)
  /\ Cardinality(Occupying) < Limit
  /\ Start(p, "insert", [op |-> "create", id |-> NoId, name |-> n, box |-> NoName,
                         status |-> "dns_pending"])
  /\ UNCHANGED <<asked, loose>>

\* DeactivateDomain, ReactivateDomain and GetDomainDNS load the domain.
\* GetDomainDNS goes by the status it read.
Recorded(op, i) ==
  CASE op = "deactivate" -> "suspended" [] op = "check" -> row[i].status [] OTHER -> "dns_pending"

BeginChange(p, op, i) ==
  /\ Live(i) /\ op \in Toggles \cup {"check"}
  /\ Start(p, "call", [op |-> op, id |-> i, name |-> row[i].name, box |-> NoName,
                       status |-> Recorded(op, i)])
  /\ UNCHANGED <<asked, loose>>

\* createMailbox and repairMailbox: the domain and the mailbox are loaded.
BeginBox(p, op, i, b) ==
  /\ Live(i) /\ op \in BoxOps
  /\ op = "repair" => b \in row[i].boxes
  /\ Start(p, "call", [op |-> op, id |-> i, name |-> row[i].name, box |-> b,
                       status |-> "dns_pending"])
  /\ IF op = "repair" THEN Meets(i, {"delete"}) ELSE UNCHANGED loose
  /\ UNCHANGED asked

\* (fault) a domain still being set up is taken for one that never was.
BeginDelete_SkipsPending(p, i) ==
  /\ Live(i)
  /\ Start(p, IF row[i].status \in {"failed", "dns_pending"} THEN "record" ELSE "list",
           [op |-> "delete", id |-> i, name |-> row[i].name, box |-> NoName, status |-> "none"])
  /\ asked' = asked \cup {i}
  /\ Meets(i, {"create", "repair"})

\* DeleteDomain, AdminDeleteDomain: nothing is removed from the cluster for a
\* failed domain.
BeginDelete(p, i) ==
  /\ Live(i)
  /\ Start(p, IF row[i].status = "failed" THEN "record" ELSE "list",
           [op |-> "delete", id |-> i, name |-> row[i].name, box |-> NoName, status |-> "none"])
  /\ asked' = asked \cup {i}
  /\ Meets(i, {"create", "repair"})

\* AdminVerifyDomain, DomainVerifiedJob: MarkDomainVerified by id alone.
Verify(i) ==
  /\ "verify" \in Ops /\ Live(i)
  /\ SetStatus(i, "active")
  /\ vouched' = vouched \cup {i}
  /\ UNCHANGED <<cluster, pc, job, todo, asked, loose>>

\* INSERT: the name is unique.
InsertDomain(p) ==
  /\ pc[p] = "insert"
  /\ IF \E i \in Ids : Live(i) /\ row[i].name = job[p].name
       THEN Stop(p) /\ UNCHANGED row
       ELSE \E i \in Fresh :
              /\ row' = [row EXCEPT ![i] = [status |-> "provisioning",
                                            name |-> job[p].name, boxes |-> {}]]
              /\ job' = [job EXCEPT ![p].id = i]
              /\ pc' = [pc EXCEPT ![p] = "call"] /\ UNCHANGED todo
  /\ UNCHANGED <<cluster, asked, vouched, loose>>

-----------------------------------------------------------------------------
(* Calls to the cluster.                                                   *)

\* The next account of the list is deleted, then the domain's keys.
NextAccount(p, list) ==
  \/ /\ list = {}
     /\ pc' = [pc EXCEPT ![p] = "keys"]
     /\ UNCHANGED <<job, todo>>
  \/ \E b \in list :
       /\ pc' = [pc EXCEPT ![p] = "account"]
       /\ job' = [job EXCEPT ![p].box = b]
       /\ todo' = [todo EXCEPT ![p] = list \ {b}]

\* destroyDomainInStalwart reads the mailboxes once.
ListBoxes(p) ==
  /\ pc[p] = "list"
  /\ NextAccount(p, row[job[p].id].boxes)
  /\ UNCHANGED <<row, cluster, asked, vouched, loose>>

Calls == {"call", "account", "keys", "domain", "box"}
There(p) == cluster[job[p].name]

\* What the cluster accepts: an unknown domain has no accounts and cannot be
\* changed, and one with accounts or keys linked to it cannot be deleted.
Allowed(p) ==
  CASE pc[p] = "call" /\ job[p].op = "mailbox" ->
         There(p).domain # "none" /\ job[p].box \notin There(p).accounts
    [] pc[p] = "call" /\ job[p].op \in Toggles \cup {"check"} -> There(p).domain # "none"
    [] pc[p] = "box" -> There(p).domain # "none"
    [] pc[p] = "domain" ->
         There(p).domain # "none" /\ ~There(p).keys /\ There(p).accounts = {}
    [] OTHER -> TRUE

\* A domain that exists is adopted as it is.
After(p) ==
  LET there == There(p)
      op == job[p].op
  IN  CASE pc[p] = "call" /\ op \in {"create", "repair"} ->
             IF there.domain = "none" THEN NewDomain ELSE there
        [] pc[p] = "call" /\ op = "deactivate" -> [there EXCEPT !.domain = "disabled"]
        [] pc[p] = "call" /\ op = "reactivate" -> [there EXCEPT !.domain = "enabled"]
        [] (pc[p] = "call" /\ op = "mailbox") \/ pc[p] = "box" ->
             [there EXCEPT !.accounts = @ \cup {job[p].box}]
        [] pc[p] = "account" -> [there EXCEPT !.accounts = @ \ {job[p].box}]
        [] pc[p] = "keys" -> [there EXCEPT !.keys = FALSE]
        [] pc[p] = "domain" -> NoDomain
        [] OTHER -> there

\* GetDomainDNS compares the records the cluster expects with those published,
\* and acts on what differs from the status it read.
Checked(p, published) ==
  IF published <=> job[p].status = "active"
    THEN Stop(p)
    ELSE /\ pc' = [pc EXCEPT ![p] = "record"]
         /\ job' = [job EXCEPT ![p].status = IF published THEN "active" ELSE "dns_pending"]
         /\ UNCHANGED todo

Forward(p) ==
  CASE pc[p] = "account" -> NextAccount(p, todo[p])
    [] pc[p] = "keys" -> Goto(p, IF There(p).domain = "none" THEN "record" ELSE "domain")
    [] pc[p] = "box" -> Stop(p)
    [] pc[p] = "call" /\ job[p].op = "check" -> \E published \in BOOLEAN : Checked(p, published)
    [] pc[p] = "call" /\ job[p].op = "repair" /\ There(p).domain # "none" -> Goto(p, "box")
    [] OTHER -> Goto(p, "record")

\* (fault) a creation goes on whatever the cluster answers.
GiveUp_CreateGoesOn(p) ==
  IF job[p].op = "create" THEN Goto(p, "record") ELSE Stop(p)

\* A creation that fails takes its row back; anything else just ends.
GiveUp(p) == IF job[p].op = "create" THEN Goto(p, "undo") ELSE Stop(p)

Call(p) ==
  /\ pc[p] \in Calls
  /\ cluster' = IF Allowed(p) THEN [cluster EXCEPT ![job[p].name] = After(p)] ELSE cluster
  /\ IF Allowed(p) THEN Forward(p) ELSE GiveUp(p)
  /\ UNCHANGED <<row, asked, vouched, loose>>

\* The call does not reach the cluster, or fails there.
CallFails(p) ==
  /\ pc[p] \in Calls /\ "call" \in Faults
  /\ GiveUp(p)
  /\ UNCHANGED <<row, cluster, asked, vouched, loose>>

\* The cluster does it, but the answer is lost.
AnswerLost(p) ==
  /\ pc[p] \in Calls /\ "answer" \in Faults /\ Allowed(p)
  /\ cluster' = [cluster EXCEPT ![job[p].name] = After(p)]
  /\ loose' = loose \cup {job[p].name}
  /\ GiveUp(p)
  /\ UNCHANGED <<row, asked, vouched>>

-----------------------------------------------------------------------------
(* Statements after the calls.                                             *)

\* UpdateDomainStatus, MarkDomainVerified: a row that is gone is no error.
\* A repair that recreated the domain goes on to the mailbox.
RecordStatus(p) ==
  /\ pc[p] = "record" /\ job[p].op \notin {"delete", "mailbox"}
  /\ SetStatus(job[p].id, job[p].status)
  /\ IF job[p].op = "repair" THEN Goto(p, "box") ELSE Stop(p)
  /\ UNCHANGED <<cluster, asked, vouched, loose>>

\* The mailbox's row refers to the domain's, which must be there.
RecordBox(p) ==
  /\ pc[p] = "record" /\ job[p].op = "mailbox"
  /\ row' = IF Live(job[p].id)
              THEN [row EXCEPT ![job[p].id].boxes = @ \cup {job[p].box}] ELSE row
  /\ loose' = IF Live(job[p].id) THEN loose ELSE loose \cup {job[p].name}
  /\ Stop(p)
  /\ UNCHANGED <<cluster, asked, vouched>>

RecordDelete(p) ==
  /\ pc[p] = "record" /\ job[p].op = "delete"
  /\ DropRow(job[p].id)
  /\ Stop(p)
  /\ UNCHANGED <<cluster, asked, vouched, loose>>

\* CreateDomain after the cluster's refusal: the row is dropped.
Undo(p) ==
  /\ pc[p] = "undo"
  /\ DropRow(job[p].id)
  /\ Stop(p)
  /\ UNCHANGED <<cluster, asked, vouched, loose>>

\* If that failed, it is marked.
MarkFailed(p) ==
  /\ pc[p] = "mark"
  /\ SetStatus(job[p].id, "failed")
  /\ Stop(p)
  /\ UNCHANGED <<cluster, asked, vouched, loose>>

\* A statement fails.  A repair ignores that.
RecordFails(p) ==
  /\ pc[p] \in {"record", "undo", "mark"} /\ "record" \in Faults
  /\ IF pc[p] = "undo" THEN Goto(p, "mark")
     ELSE IF job[p].op = "repair" THEN Goto(p, "box") ELSE Stop(p)
  /\ loose' = loose \cup {job[p].name}
  /\ UNCHANGED <<row, cluster, asked, vouched>>

\* The server stops, or the client goes away and takes the request's context.
Crash(p) ==
  /\ pc[p] # "idle" /\ "crash" \in Faults
  /\ Stop(p)
  /\ loose' = IF pc[p] \in {"record", "undo", "mark"} THEN loose \cup {job[p].name} ELSE loose
  /\ UNCHANGED <<row, cluster, asked, vouched>>

-----------------------------------------------------------------------------
Step(p) ==
  \/ InsertDomain(p) \/ ListBoxes(p) \/ Call(p) \/ CallFails(p) \/ AnswerLost(p)
  \/ RecordStatus(p) \/ RecordBox(p) \/ RecordDelete(p)
  \/ Undo(p) \/ MarkFailed(p) \/ RecordFails(p) \/ Crash(p)

Next ==
  \/ \E p \in Requests :
       \/ \E n \in Names : BeginCreate(p, n)
       \/ \E i \in Ids : \/ BeginDelete(p, i)
                         \/ \E op \in Ops : BeginChange(p, op, i)
                         \/ \E op \in Ops, b \in Boxes : BeginBox(p, op, i, b)
       \/ Step(p)
  \/ \E i \in Ids : Verify(i)

Spec == Init /\ [][Next]_vars

-----------------------------------------------------------------------------
(* Properties.                                                             *)

TypeOK ==
  /\ row \in [Ids -> RowType]
  /\ cluster \in [Names -> ClusterType]
  /\ pc \in [Requests -> {"idle", "insert", "list", "record", "undo", "mark"} \cup Calls]
  /\ job \in [Requests -> JobType \cup {NoJob}]
  /\ todo \in [Requests -> SUBSET Boxes]
  /\ asked \subseteq Ids /\ vouched \subseteq Ids /\ loose \subseteq Names

\* The deletion of a domain of this name was asked for at some time.
DeletionAsked(n) == \E j \in asked : row[j].name = n

\* A domain on record lacks what it should have in the cluster - itself, its
\* keys, the accounts of its mailboxes - only after the deletion of a domain of
\* that name was asked for: its own, which may have been refused half way, or
\* that of an earlier one whose calls arrive late.  (Not so one that was marked
\* verified without a look at the cluster.)
DamageOnlyByDeletion ==
  \A i \in Ids : Live(i) /\ ~DeletionAsked(row[i].name) =>
    LET there == cluster[row[i].name] IN
      /\ row[i].status \in {"dns_pending", "active", "suspended"} /\ i \notin vouched
           => there.domain # "none"
      /\ there.domain # "none" => there.keys
      /\ row[i].boxes \subseteq there.accounts

\* The cluster keeps a domain or an account that no row accounts for, and that
\* no request is about to record, only when an operation stopped half way, or a
\* domain was created or repaired while it was being deleted.  (A mailbox that is
\* created meanwhile makes the deletion fail.)
OrphansExplained ==
  \A n \in Names \ loose :
    LET rows == {i \in Ids : Live(i) /\ row[i].name = n}
        Creating(b) == \E p \in Requests : job[p].op = "mailbox" /\ pc[p] = "record"
                                             /\ job[p].name = n /\ job[p].box = b
    IN  /\ cluster[n].domain # "none" => rows # {}
        /\ \A b \in cluster[n].accounts : Creating(b) \/ \E i \in rows : b \in row[i].boxes

\* A deactivated domain is shown as deactivated until it is reactivated.
SuspendedUntilReactivated ==
  [][\A i \in Ids : row[i].status = "suspended" /\ Live(i) /\ row'[i].status # "suspended"
       => row'[i].status = "gone" \/ cluster[row[i].name].domain # "disabled"]_vars

-----------------------------------------------------------------------------
(* The inductive invariant behind DamageOnlyByDeletion and                 *)
(* OrphansExplained.                                                       *)

RowsNamed ==
  /\ \A i \in Ids : row[i].status # "absent" => row[i].name \in Names
  /\ \A i \in Ids : ~Live(i) => row[i].boxes = {}
  /\ \A i, j \in Ids : Live(i) /\ Live(j) /\ row[i].name = row[j].name => i = j

\* What kind of request may be where; each is about a row that was there.
Places(op) ==
  CASE op = "create" -> {"insert", "call", "record", "undo", "mark"}
    [] op = "delete" -> {"list", "account", "keys", "domain", "record"}
    [] op = "repair" -> {"call", "record", "box"}
    [] OTHER -> {"call", "record"}

JobsSound ==
  \A p \in Requests :
    IF pc[p] = "idle" THEN job[p] = NoJob
    ELSE /\ job[p] \in JobType
         /\ pc[p] \in Places(job[p].op)
         /\ IF pc[p] = "insert" THEN job[p].id = NoId
            ELSE /\ job[p].id \in Ids
                 /\ row[job[p].id].status # "absent"
                 /\ row[job[p].id].name = job[p].name
         /\ job[p].op = "delete" => job[p].id \in asked
         /\ job[p].op \in BoxOps => job[p].box \in Boxes
         /\ job[p].op \notin {"delete", "check"} => job[p].status \in {"dns_pending", "suspended"}
         /\ job[p].op = "check" /\ pc[p] = "record" => job[p].status \in {"dns_pending", "active"}

AskedThere == \A i \in asked : row[i].status # "absent"

\* The cluster's own consistency.
ClusterSound ==
  \A n \in Names :
    /\ cluster[n].domain = "none" => cluster[n].accounts = {}
    /\ cluster[n].domain # "none" /\ ~DeletionAsked(n) => cluster[n].keys

\* What is about to be recorded is there, unless a deletion took it.
RecordsTrue ==
  \A p \in Requests : pc[p] = "record" /\ job[p].op # "delete" /\ ~DeletionAsked(job[p].name) =>
    /\ There(p).domain # "none"
    /\ job[p].op = "mailbox" => job[p].box \in There(p).accounts

\* Only a creation that stopped half way leaves a row marked failed.
FailedLoose ==
  /\ \A i \in Ids : row[i].status = "failed" => row[i].name \in loose
  /\ \A p \in Requests : pc[p] = "mark" => job[p].name \in loose

\* Every creation has inserted a row of its own.
CreationsApart ==
  \A p, q \in Requests :
    /\ job[p].op = "create" /\ job[q].op = "create"
    /\ pc[p] # "insert" /\ pc[q] # "insert" /\ job[p].id = job[q].id
    => p = q

\* A creation's domain is not in the cluster before its call, and nobody
\* repairs or fills it.
CreationsAlone ==
  \A p \in Requests :
    job[p].op = "create" /\ pc[p] \in {"call", "undo"} /\ job[p].name \notin loose =>
      /\ Live(job[p].id) /\ row[job[p].id].boxes = {}
      /\ There(p).domain = "none"
      /\ \A q \in Requests : job[q].op = "repair" => job[q].name # job[p].name
      /\ \A q \in Requests :
           job[q].op = "mailbox" /\ pc[q] = "record" => job[q].id # job[p].id

\* A row does not go while a creation or a repair is about it.
RepairsLive ==
  \A p \in Requests :
    /\ job[p].op \in {"create", "repair"} /\ pc[p] # "insert" /\ job[p].name \notin loose
         => Live(job[p].id) /\ \A q \in Requests : job[q].op = "delete" => job[q].id # job[p].id
    /\ job[p].op = "repair" /\ Live(job[p].id) => job[p].box \in row[job[p].id].boxes

\* A deletion drops its row when the cluster has nothing of that name left.
DeletionsClean ==
  \A p \in Requests :
    /\ job[p].op = "delete" /\ pc[p] = "record" /\ Live(job[p].id) /\ job[p].name \notin loose
    => There(p).domain = "none"

IndInv ==
  /\ TypeOK /\ RowsNamed /\ JobsSound /\ AskedThere
  /\ ClusterSound /\ RecordsTrue /\ DamageOnlyByDeletion
  /\ FailedLoose /\ CreationsApart /\ CreationsAlone /\ RepairsLive /\ DeletionsClean
  /\ OrphansExplained
=============================================================================
