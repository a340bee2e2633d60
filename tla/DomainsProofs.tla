--------------------------- MODULE DomainsProofs ---------------------------
(***************************************************************************)
(* What holds of Domains for any number of rows, names, mailboxes and      *)
(* requests, whatever fails: a domain on record is damaged in the cluster  *)
(* only by the deletion of a domain of its name, and nothing is left there *)
(* that no row accounts for but by what OrphansExplained names.            *)
(***************************************************************************)
EXTENDS Domains, TLAPS

Where == {"idle", "insert", "list", "record", "undo", "mark"} \cup Calls

-----------------------------------------------------------------------------
(* The initial states.                                                     *)

LEMMA InitHolds == Init => IndInv
<1> SUFFICES ASSUME Init PROVE IndInv
  OBVIOUS
<1>0. /\ \A i \in Ids : row[i] = NoRow /\ ~Live(i)
      /\ \A n \in Names : cluster[n] = NoDomain
      /\ \A p \in Requests : pc[p] = "idle" /\ job[p] = NoJob
  BY DEF Init, Live, NoRow, Statuses
<1>1. TypeOK
  <2>1. NoRow \in RowType /\ NoDomain \in ClusterType
    BY DEF NoRow, RowType, NoDomain, ClusterType
  <2> QED
    BY <2>1 DEF Init, TypeOK
<1>2. RowsNamed
  BY <1>0 DEF RowsNamed, NoRow
<1>3. JobsSound
  BY <1>0 DEF JobsSound
<1>4. AskedThere /\ FailedLoose
  BY <1>0 DEF Init, AskedThere, FailedLoose, NoRow
<1>5. ClusterSound
  BY <1>0 DEF ClusterSound, NoDomain
<1>6. RecordsTrue /\ DamageOnlyByDeletion
  BY <1>0 DEF RecordsTrue, DamageOnlyByDeletion
<1>7. CreationsApart /\ CreationsAlone /\ RepairsLive /\ DeletionsClean
  BY <1>0 DEF CreationsApart, CreationsAlone, RepairsLive, DeletionsClean, NoJob
<1>8. OrphansExplained
  BY <1>0 DEF OrphansExplained, NoDomain
<1> QED
  BY <1>1, <1>2, <1>3, <1>4, <1>5, <1>6, <1>7, <1>8 DEF IndInv

-----------------------------------------------------------------------------
(* What the statements do to the rows.                                     *)

LEMMA SetStatusRows ==
  ASSUME TypeOK, NEW i \in Ids, NEW s \in Statuses, SetStatus(i, s)
  PROVE  /\ row' \in [Ids -> RowType]
         /\ \A j \in Ids : /\ row'[j].name = row[j].name /\ row'[j].boxes = row[j].boxes
                           /\ row'[j].status = IF j = i /\ Live(i) THEN s ELSE row[j].status
                           /\ Live(j)' = Live(j)
<1>1. CASE Live(i)
  <2>1. row' = [row EXCEPT ![i].status = s]
    BY <1>1 DEF SetStatus
  <2>2. row[i] \in RowType
    BY DEF TypeOK
  <2> DEFINE r == [row[i] EXCEPT !.status = s]
  <2>3. r \in RowType /\ r.status = s /\ r.name = row[i].name /\ r.boxes = row[i].boxes
    BY <2>2 DEF RowType
  <2>4. row'[i] = r /\ \A j \in Ids \ {i} : row'[j] = row[j]
    BY <2>1 DEF TypeOK
  <2>5. row' = [j \in Ids |-> row'[j]]
    BY <2>1 DEF TypeOK
  <2> HIDE DEF r
  <2>6. \A j \in Ids : row'[j] \in RowType
    BY <2>3, <2>4 DEF TypeOK
  <2> QED
    BY <1>1, <2>3, <2>4, <2>5, <2>6 DEF Live
<1>2. CASE ~Live(i)
  BY <1>2 DEF SetStatus, TypeOK, Live
<1> QED
  BY <1>1, <1>2

LEMMA DropRowRows ==
  ASSUME TypeOK, NEW i \in Ids, DropRow(i)
  PROVE  /\ row' \in [Ids -> RowType]
         /\ \A j \in Ids \ {i} : row'[j] = row[j] /\ Live(j)' = Live(j)
         /\ row'[i].name = row[i].name /\ ~Live(i)'
         /\ row'[i].status = "absent" => row[i].status = "absent"
         /\ row'[i].status # "failed"
         /\ Live(i) => row'[i].boxes = {}
         /\ ~Live(i) => row' = row
<1>1. CASE Live(i)
  <2>1. row' = [row EXCEPT ![i].status = "gone", ![i].boxes = {}]
    BY <1>1 DEF DropRow
  <2>2. row[i] \in RowType
    BY DEF TypeOK
  <2> DEFINE r == [row[i] EXCEPT !.status = "gone", !.boxes = {}]
  <2>3. r \in RowType /\ r.status = "gone" /\ r.name = row[i].name /\ r.boxes = {}
    BY <2>2 DEF RowType
  <2>4. row'[i] = r /\ \A j \in Ids \ {i} : row'[j] = row[j]
    BY <2>1 DEF TypeOK
  <2>5. row' = [j \in Ids |-> row'[j]]
    BY <2>1 DEF TypeOK
  <2> HIDE DEF r
  <2>6. \A j \in Ids : row'[j] \in RowType
    BY <2>3, <2>4 DEF TypeOK
  <2> QED
    BY <1>1, <2>3, <2>4, <2>5, <2>6 DEF Live, Statuses
<1>2. CASE ~Live(i)
  BY <1>2 DEF DropRow, TypeOK, Live, Statuses
<1> QED
  BY <1>1, <1>2

-----------------------------------------------------------------------------
(* Steps of a request under way.                                           *)

\* Every row keeps its name, and is there as before.
RowsStay ==
  \A j \in Ids : /\ row'[j].name = row[j].name
                 /\ row'[j].status = "absent" <=> row[j].status = "absent"

\* Request p ends, or goes on with the row and the name it has.
GoesOn(p) ==
  /\ pc[p] # "insert" /\ pc'[p] \in Places(job[p].op) \ {"insert"}
  /\ job'[p] \in JobType
  /\ job'[p].op = job[p].op /\ job'[p].id = job[p].id /\ job'[p].name = job[p].name
  /\ job[p].op \in BoxOps => job'[p].box = job[p].box
  /\ job[p].op \notin {"delete", "check"} => job'[p].status = job[p].status
  /\ job[p].op = "check" /\ pc'[p] = "record" => job'[p].status \in {"dns_pending", "active"}

Onward(p) ==
  /\ pc[p] # "idle"
  /\ pc' \in [Requests -> Where]
  /\ job' \in [Requests -> JobType \cup {NoJob}]
  /\ todo' \in [Requests -> SUBSET Boxes]
  /\ asked' = asked /\ vouched' = vouched
  /\ \A q \in Requests \ {p} : pc'[q] = pc[q] /\ job'[q] = job[q]
  /\ \/ pc'[p] = "idle" /\ job'[p] = NoJob
     \/ GoesOn(p)

\* What is known of a request from where it is.
LEMMA JobFacts ==
  ASSUME TypeOK, JobsSound, NEW p \in Requests
  PROVE  /\ job[p].op # "none" => pc[p] # "idle"
         /\ pc[p] # "idle" => job[p] \in JobType /\ pc[p] \in Places(job[p].op)
         /\ pc[p] # "idle" /\ pc[p] # "insert" =>
              /\ job[p].id \in Ids /\ row[job[p].id].status # "absent"
              /\ row[job[p].id].name = job[p].name
         /\ job[p].op # "none" => job[p].name \in Names
BY DEF JobsSound, NoJob, JobType

LEMMA OnwardKeepsAsked ==
  ASSUME IndInv, NEW p \in Requests, Onward(p), RowsStay
  PROVE  AskedThere' /\ \A n : DeletionAsked(n)' <=> DeletionAsked(n)
<1>1. asked \subseteq Ids /\ asked' = asked
  BY DEF IndInv, TypeOK, Onward
<1> QED
  BY <1>1 DEF IndInv, AskedThere, DeletionAsked, RowsStay

LEMMA OnwardKeepsJobs ==
  ASSUME IndInv, NEW p \in Requests, Onward(p), RowsStay
  PROVE  JobsSound'
<1> USE DEF IndInv
<1> SUFFICES ASSUME NEW q \in Requests
    PROVE IF pc'[q] = "idle" THEN job'[q] = NoJob
          ELSE /\ job'[q] \in JobType
               /\ pc'[q] \in Places(job'[q].op)
               /\ IF pc'[q] = "insert" THEN job'[q].id = NoId
                  ELSE /\ job'[q].id \in Ids
                       /\ row'[job'[q].id].status # "absent"
                       /\ row'[job'[q].id].name = job'[q].name
               /\ job'[q].op = "delete" => job'[q].id \in asked'
               /\ job'[q].op \in BoxOps => job'[q].box \in Boxes
               /\ job'[q].op \notin {"delete", "check"}
                    => job'[q].status \in {"dns_pending", "suspended"}
               /\ job'[q].op = "check" /\ pc'[q] = "record"
                    => job'[q].status \in {"dns_pending", "active"}
  BY DEF JobsSound
<1>1. CASE q # p
  BY <1>1 DEF JobsSound, Onward, RowsStay
<1>2. CASE q = p /\ pc'[p] = "idle" /\ job'[p] = NoJob
  BY <1>2
<1>3. CASE q = p /\ GoesOn(p)
  <2>1. pc[p] # "idle" /\ pc'[p] # "idle" /\ pc'[p] # "insert"
    BY <1>3 DEF Onward, GoesOn, Places
  <2>2. /\ job[p].id \in Ids /\ row'[job[p].id].status # "absent"
        /\ row'[job[p].id].name = job[p].name
        /\ job[p].op = "delete" => job[p].id \in asked'
        /\ job[p].op \in BoxOps => job[p].box \in Boxes
        /\ job[p].op \notin {"delete", "check"} => job[p].status \in {"dns_pending", "suspended"}
    BY <1>3, <2>1 DEF JobsSound, Onward, RowsStay, GoesOn
  <2> QED
    BY <1>3, <2>1, <2>2 DEF GoesOn
<1> QED
  BY <1>1, <1>2, <1>3 DEF Onward

LEMMA OnwardKeepsApart ==
  ASSUME IndInv, NEW p \in Requests, Onward(p)
  PROVE  CreationsApart'
<1> SUFFICES ASSUME NEW q \in Requests, NEW o \in Requests,
                    job'[q].op = "create", job'[o].op = "create",
                    pc'[q] # "insert", pc'[o] # "insert", job'[q].id = job'[o].id
    PROVE q = o
  BY DEF CreationsApart
<1>1. ASSUME NEW r \in Requests, job'[r].op = "create", pc'[r] # "insert"
      PROVE  job[r].op = "create" /\ pc[r] # "insert" /\ job[r].id = job'[r].id
  BY <1>1 DEF Onward, GoesOn, NoJob
<1> QED
  BY <1>1 DEF IndInv, CreationsApart

\* A step that leaves rows and cluster alone keeps the invariant when the
\* request is not about to record anything, and what it leaves undone is loose.
LEMMA RestKeeps ==
  ASSUME IndInv, NEW p \in Requests, Onward(p), row' = row, cluster' = cluster,
         loose \subseteq loose', loose' \subseteq Names,
         pc'[p] \notin {"record", "call"},
         pc'[p] = "undo" => pc[p] = "call",
         pc'[p] = "mark" => job[p].name \in loose',
         job[p].op = "mailbox" /\ pc[p] = "record" => job[p].name \in loose'
  PROVE  IndInv'
<1> USE DEF IndInv
<1>0. RowsStay /\ \A i : Live(i)' = Live(i)
  BY DEF RowsStay, Live
<1>a. \A n : DeletionAsked(n)' <=> DeletionAsked(n)
  BY <1>0, OnwardKeepsAsked
<1>b. ASSUME NEW q \in Requests, job'[q].op # "none"
      PROVE  /\ job'[q].op = job[q].op /\ job'[q].id = job[q].id /\ job'[q].name = job[q].name
             /\ job'[q].op \in BoxOps => job'[q].box = job[q].box
             /\ pc'[q] # "insert" => pc[q] # "insert"
             /\ q # p => pc'[q] = pc[q]
  BY <1>b DEF Onward, GoesOn, NoJob
<1>c. \A q \in Requests : pc'[q] = "record" => q # p /\ pc[q] = "record" /\ job'[q] = job[q]
  BY DEF Onward
<1>1. TypeOK'
  BY DEF TypeOK, Onward, Where
<1>2. RowsNamed'
  BY <1>0 DEF RowsNamed
<1>3. JobsSound' /\ CreationsApart'
  BY <1>0, OnwardKeepsJobs, OnwardKeepsApart
<1>4. AskedThere'
  BY <1>0, OnwardKeepsAsked
<1>5. ClusterSound'
  BY <1>a DEF ClusterSound
<1>6. RecordsTrue'
  BY <1>a, <1>c DEF RecordsTrue, There
<1>7. DamageOnlyByDeletion'
  <2> SUFFICES ASSUME NEW i \in Ids, Live(i), ~DeletionAsked(row[i].name)
      PROVE /\ row[i].status \in {"dns_pending", "active", "suspended"} /\ i \notin vouched
                 => cluster[row[i].name].domain # "none"
            /\ cluster[row[i].name].domain # "none" => cluster[row[i].name].keys
            /\ row[i].boxes \subseteq cluster[row[i].name].accounts
    BY <1>0, <1>a DEF DamageOnlyByDeletion, Onward
  <2> QED
    BY DEF DamageOnlyByDeletion
<1>8. FailedLoose'
  BY DEF FailedLoose, Onward, GoesOn
<1>9. CreationsAlone'
  <2> SUFFICES ASSUME NEW q \in Requests, job'[q].op = "create", pc'[q] \in {"call", "undo"},
                      job'[q].name \notin loose'
      PROVE /\ Live(job'[q].id) /\ row[job'[q].id].boxes = {}
            /\ cluster[job'[q].name].domain = "none"
            /\ \A o \in Requests : job'[o].op = "repair" => job'[o].name # job'[q].name
            /\ \A o \in Requests :
                 job'[o].op = "mailbox" /\ pc'[o] = "record" => job'[o].id # job'[q].id
    BY <1>0 DEF CreationsAlone, There, Live
  <2>1. job[q].op = "create" /\ pc[q] \in {"call", "undo"} /\ job[q].name \notin loose
        /\ job[q].id = job'[q].id /\ job[q].name = job'[q].name
    BY <1>b
  <2>2. /\ Live(job[q].id) /\ row[job[q].id].boxes = {}
        /\ cluster[job[q].name].domain = "none"
        /\ \A o \in Requests : job[o].op = "repair" => job[o].name # job[q].name
        /\ \A o \in Requests :
             job[o].op = "mailbox" /\ pc[o] = "record" => job[o].id # job[q].id
    BY <2>1 DEF CreationsAlone, There
  <2> QED
    BY <1>0, <1>b, <1>c, <2>1, <2>2
<1>10. RepairsLive'
  <2> SUFFICES ASSUME NEW q \in Requests, job'[q].op # "none"
      PROVE /\ job'[q].op \in {"create", "repair"} /\ pc'[q] # "insert" /\ job'[q].name \notin loose'
                 => /\ Live(job'[q].id)
                    /\ \A o \in Requests : job'[o].op = "delete" => job'[o].id # job'[q].id
            /\ job'[q].op = "repair" /\ Live(job'[q].id) => job'[q].box \in row[job'[q].id].boxes
    BY <1>0 DEF RepairsLive, Live
  <2> QED
    BY <1>b DEF RepairsLive, BoxOps
<1>11. DeletionsClean'
  BY <1>0, <1>c DEF DeletionsClean, There, Live
<1>12. OrphansExplained'
  <2> SUFFICES ASSUME NEW n \in Names \ loose'
      PROVE /\ cluster[n].domain # "none" => {i \in Ids : Live(i) /\ row[i].name = n} # {}
            /\ \A b \in cluster[n].accounts :
                 \/ \E q \in Requests : job'[q].op = "mailbox" /\ pc'[q] = "record"
                                          /\ job'[q].name = n /\ job'[q].box = b
                 \/ \E i \in {i \in Ids : Live(i) /\ row[i].name = n} : b \in row[i].boxes
    BY <1>0 DEF OrphansExplained
  <2>1. /\ cluster[n].domain # "none" => {i \in Ids : Live(i) /\ row[i].name = n} # {}
        /\ \A b \in cluster[n].accounts :
             \/ \E q \in Requests : job[q].op = "mailbox" /\ pc[q] = "record"
                                      /\ job[q].name = n /\ job[q].box = b
             \/ \E i \in {i \in Ids : Live(i) /\ row[i].name = n} : b \in row[i].boxes
    BY DEF OrphansExplained
  <2>2. \A q \in Requests : job[q].op = "mailbox" /\ pc[q] = "record" /\ job[q].name = n
           => job'[q] = job[q] /\ pc'[q] = pc[q]
    BY DEF Onward
  <2> QED
    BY <2>1, <2>2
<1> QED
  BY <1>1, <1>2, <1>3, <1>4, <1>5, <1>6, <1>7, <1>8, <1>9, <1>10, <1>11, <1>12

-----------------------------------------------------------------------------
(* Requests begin.                                                         *)

\* A request may begin when it is about a live row that nobody else's rests on.
MayBegin(p, l, j) ==
  /\ l \in Places(j.op)
  /\ j.op \in BoxOps => j.box \in Boxes
  /\ j.op \notin {"delete", "check"} => j.status \in {"dns_pending", "suspended"}
  /\ IF l = "insert" THEN j.op = "create" /\ j.id = NoId
     ELSE j.op # "create" /\ Live(j.id) /\ row[j.id].name = j.name
  /\ l = "record" => j.op = "delete" /\ row[j.id].status = "failed"
  /\ l # "undo" /\ l # "mark" /\ l # "idle"
  /\ j.op = "repair" => /\ j.box \in row[j.id].boxes
                        /\ \/ j.name \in loose'
                           \/ \A q \in Requests : job[q].op = "delete" => job[q].id # j.id
  /\ j.op = "delete" => /\ j.id \in asked'
                        /\ \A q \in Requests :
                             job[q].op \in {"create", "repair"} /\ job[q].id = j.id
                               => job[q].name \in loose'

LEMMA BeginKeeps ==
  ASSUME IndInv, NEW p \in Requests, NEW l \in Where, NEW j \in JobType, Start(p, l, j),
         asked \subseteq asked', asked' \subseteq Ids, \A i \in asked' \ asked : Live(i),
         loose \subseteq loose', loose' \subseteq Names, MayBegin(p, l, j)
  PROVE  IndInv'
<1> USE DEF IndInv
<1>0. /\ row' = row /\ cluster' = cluster /\ todo' = todo /\ vouched' = vouched
      /\ pc[p] = "idle" /\ job[p] = NoJob /\ pc'[p] = l /\ job'[p] = j
      /\ \A q \in Requests \ {p} : pc'[q] = pc[q] /\ job'[q] = job[q]
      /\ \A i : Live(i)' = Live(i)
  BY DEF Start, TypeOK, JobsSound, Live
<1>a. \A n : DeletionAsked(n) => DeletionAsked(n)'
  BY <1>0 DEF DeletionAsked
<1>b. Live(j.id) => j.id \in Ids /\ row[j.id].status # "absent"
  BY DEF Live, Statuses
<1>1. TypeOK'
  BY <1>0 DEF TypeOK, Start, Where
<1>2. RowsNamed'
  BY <1>0 DEF RowsNamed
<1>3. JobsSound'
  <2> SUFFICES ASSUME NEW q \in Requests
      PROVE IF pc'[q] = "idle" THEN job'[q] = NoJob
            ELSE /\ job'[q] \in JobType
                 /\ pc'[q] \in Places(job'[q].op)
                 /\ IF pc'[q] = "insert" THEN job'[q].id = NoId
                    ELSE /\ job'[q].id \in Ids
                         /\ row[job'[q].id].status # "absent"
                         /\ row[job'[q].id].name = job'[q].name
                 /\ job'[q].op = "delete" => job'[q].id \in asked'
                 /\ job'[q].op \in BoxOps => job'[q].box \in Boxes
                 /\ job'[q].op \notin {"delete", "check"}
                      => job'[q].status \in {"dns_pending", "suspended"}
                 /\ job'[q].op = "check" /\ pc'[q] = "record"
                      => job'[q].status \in {"dns_pending", "active"}
    BY <1>0 DEF JobsSound
  <2>1. CASE q # p
    BY <1>0, <2>1 DEF JobsSound
  <2>2. CASE q = p
    BY <1>0, <1>b, <2>2 DEF MayBegin
  <2> QED
    BY <2>1, <2>2
<1>4. CreationsApart'
  BY <1>0 DEF CreationsApart, MayBegin
<1>5. AskedThere'
  BY <1>0 DEF AskedThere, Live, Statuses
<1>6. ClusterSound'
  BY <1>0, <1>a DEF ClusterSound
<1>7. RecordsTrue'
  BY <1>0, <1>a DEF RecordsTrue, There, MayBegin
<1>8. DamageOnlyByDeletion'
  <2> SUFFICES ASSUME NEW i \in Ids, Live(i), ~DeletionAsked(row[i].name)
      PROVE /\ row[i].status \in {"dns_pending", "active", "suspended"} /\ i \notin vouched
                 => cluster[row[i].name].domain # "none"
            /\ cluster[row[i].name].domain # "none" => cluster[row[i].name].keys
            /\ row[i].boxes \subseteq cluster[row[i].name].accounts
    BY <1>0, <1>a DEF DamageOnlyByDeletion
  <2> QED
    BY DEF DamageOnlyByDeletion
<1>9. FailedLoose'
  BY <1>0 DEF FailedLoose, MayBegin
<1>10. CreationsAlone'
  <2> SUFFICES ASSUME NEW q \in Requests, job'[q].op = "create", pc'[q] \in {"call", "undo"},
                      job'[q].name \notin loose'
      PROVE /\ Live(job'[q].id) /\ row[job'[q].id].boxes = {}
            /\ cluster[job'[q].name].domain = "none"
            /\ \A o \in Requests : job'[o].op = "repair" => job'[o].name # job'[q].name
            /\ \A o \in Requests :
                 job'[o].op = "mailbox" /\ pc'[o] = "record" => job'[o].id # job'[q].id
    BY <1>0 DEF CreationsAlone, There, Live
  <2>1. q # p /\ job'[q] = job[q] /\ pc[q] = pc'[q] /\ job[q].name \notin loose
    BY <1>0 DEF MayBegin
  <2>2. /\ Live(job[q].id) /\ row[job[q].id].boxes = {} /\ row[job[q].id].name = job[q].name
        /\ cluster[job[q].name].domain = "none"
        /\ \A o \in Requests : job[o].op = "repair" => job[o].name # job[q].name
        /\ \A o \in Requests :
             job[o].op = "mailbox" /\ pc[o] = "record" => job[o].id # job[q].id
    BY <2>1 DEF CreationsAlone, There, JobsSound
  <2>3. j.op = "repair" => j.name # job[q].name
    BY <2>2 DEF MayBegin, RowsNamed, Live
  <2>4. ASSUME NEW o \in Requests
        PROVE  /\ job'[o].op = "repair" => job'[o].name # job'[q].name
               /\ job'[o].op = "mailbox" /\ pc'[o] = "record" => job'[o].id # job'[q].id
    BY <1>0, <2>1, <2>2, <2>3 DEF MayBegin
  <2> QED
    BY <2>1, <2>2, <2>4
<1>11. RepairsLive'
  <2> SUFFICES ASSUME NEW q \in Requests
      PROVE /\ job'[q].op \in {"create", "repair"} /\ pc'[q] # "insert" /\ job'[q].name \notin loose'
                 => /\ Live(job'[q].id)
                    /\ \A o \in Requests : job'[o].op = "delete" => job'[o].id # job'[q].id
            /\ job'[q].op = "repair" /\ Live(job'[q].id) => job'[q].box \in row[job'[q].id].boxes
    BY <1>0 DEF RepairsLive, Live
  <2>1. CASE q = p
    BY <1>0, <2>1 DEF MayBegin
  <2>2. CASE q # p
    BY <1>0, <2>2 DEF RepairsLive, MayBegin
  <2> QED
    BY <2>1, <2>2
<1>12. DeletionsClean'
  BY <1>0 DEF DeletionsClean, There, MayBegin, FailedLoose, Live
<1>13. OrphansExplained'
  <2> SUFFICES ASSUME NEW n \in Names \ loose'
      PROVE /\ cluster[n].domain # "none" => {i \in Ids : Live(i) /\ row[i].name = n} # {}
            /\ \A b \in cluster[n].accounts :
                 \/ \E q \in Requests : job'[q].op = "mailbox" /\ pc'[q] = "record"
                                          /\ job'[q].name = n /\ job'[q].box = b
                 \/ \E i \in {i \in Ids : Live(i) /\ row[i].name = n} : b \in row[i].boxes
    BY <1>0 DEF OrphansExplained
  <2>1. /\ cluster[n].domain # "none" => {i \in Ids : Live(i) /\ row[i].name = n} # {}
        /\ \A b \in cluster[n].accounts :
             \/ \E q \in Requests : job[q].op = "mailbox" /\ pc[q] = "record"
                                      /\ job[q].name = n /\ job[q].box = b
             \/ \E i \in {i \in Ids : Live(i) /\ row[i].name = n} : b \in row[i].boxes
    BY DEF OrphansExplained
  <2>2. \A q \in Requests : pc[q] = "record" => job'[q] = job[q] /\ pc'[q] = pc[q]
    BY <1>0
  <2> QED
    BY <2>1, <2>2
<1> QED
  BY <1>1, <1>2, <1>3, <1>4, <1>5, <1>6, <1>7, <1>8, <1>9, <1>10, <1>11, <1>12, <1>13

LEMMA BeginCreateKeeps ==
  ASSUME IndInv, NEW p \in Requests, NEW n \in Names, BeginCreate(p, n)
  PROVE  IndInv'
<1> DEFINE j == [op |-> "create", id |-> NoId, name |-> n, box |-> NoName,
                 status |-> "dns_pending"]
<1>1. j \in JobType /\ "insert" \in Where
  BY DEF JobType, JobOps, Statuses, Where
<1>2. Start(p, "insert", j) /\ asked' = asked /\ loose' = loose
  BY DEF BeginCreate
<1>3. MayBegin(p, "insert", j)
  BY DEF MayBegin, Places, BoxOps
<1> HIDE DEF j
<1> QED
  BY <1>1, <1>2, <1>3, BeginKeeps DEF IndInv, TypeOK

\* Names of live rows are names.
LEMMA LiveNamed == ASSUME IndInv, NEW i, Live(i) PROVE row[i].name \in Names /\ i \in Ids
BY DEF IndInv, RowsNamed, Live, Statuses

LEMMA BeginChangeKeeps ==
  ASSUME IndInv, NEW p \in Requests, NEW i \in Ids, NEW op \in Ops, BeginChange(p, op, i)
  PROVE  IndInv'
<1> DEFINE j == [op |-> op, id |-> i, name |-> row[i].name, box |-> NoName,
                 status |-> Recorded(op, i)]
<1>1. Live(i) /\ op \in Toggles \cup {"check"} /\ row[i].name \in Names
  BY LiveNamed DEF BeginChange
<1>2. j \in JobType /\ "call" \in Where
  BY <1>1 DEF JobType, JobOps, Statuses, Where, Calls, Recorded, Live, Toggles
<1>3. Start(p, "call", j) /\ asked' = asked /\ loose' = loose
  BY DEF BeginChange
<1>4. MayBegin(p, "call", j)
  BY <1>1 DEF MayBegin, Places, BoxOps, Toggles, Recorded
<1> HIDE DEF j
<1> QED
  BY <1>2, <1>3, <1>4, BeginKeeps DEF IndInv, TypeOK

LEMMA BeginBoxKeeps ==
  ASSUME IndInv, NEW p \in Requests, NEW i \in Ids, NEW op \in Ops, NEW b \in Boxes,
         BeginBox(p, op, i, b)
  PROVE  IndInv'
<1> DEFINE j == [op |-> op, id |-> i, name |-> row[i].name, box |-> b,
                 status |-> "dns_pending"]
<1>1. Live(i) /\ op \in BoxOps /\ row[i].name \in Names
  BY LiveNamed DEF BeginBox
<1>2. j \in JobType /\ "call" \in Where
  BY <1>1 DEF JobType, JobOps, Statuses, Where, Calls
<1>3. Start(p, "call", j) /\ asked' = asked
  BY DEF BeginBox
<1>4. loose \subseteq loose' /\ loose' \subseteq loose \cup {row[i].name}
  BY DEF BeginBox, Meets
<1>5. MayBegin(p, "call", j)
  BY <1>1 DEF MayBegin, Places, BoxOps, BeginBox, Meets
<1> HIDE DEF j
<1> QED
  BY <1>1, <1>2, <1>3, <1>4, <1>5, BeginKeeps DEF IndInv, TypeOK

LEMMA BeginDeleteKeeps ==
  ASSUME IndInv, NEW p \in Requests, NEW i \in Ids, BeginDelete(p, i)
  PROVE  IndInv'
<1> DEFINE j == [op |-> "delete", id |-> i, name |-> row[i].name, box |-> NoName,
                 status |-> "none"]
           l == IF row[i].status = "failed" THEN "record" ELSE "list"
<1>1. Live(i) /\ row[i].name \in Names
  BY LiveNamed DEF BeginDelete
<1>2. j \in JobType /\ l \in Where
  BY <1>1 DEF JobType, JobOps, Where
<1>3. Start(p, l, j) /\ asked' = asked \cup {i}
  BY DEF BeginDelete
<1>4. loose \subseteq loose' /\ loose' \subseteq loose \cup {row[i].name}
  BY DEF BeginDelete, Meets
<1>5. ASSUME NEW q \in Requests, job[q].op \in {"create", "repair"}, job[q].id = i
      PROVE  job[q].name \in loose'
  <2>1. pc[q] # "idle" /\ (pc[q] = "insert" => job[q].id = NoId)
    BY <1>5 DEF IndInv, JobsSound, NoJob
  <2>2. job[q].name = row[i].name
    BY <1>5, <2>1, NoneAssumption DEF IndInv, JobsSound
  <2> QED
    BY <1>5, <2>2 DEF BeginDelete, Meets
<1>6. MayBegin(p, l, j)
  BY <1>1, <1>3, <1>5 DEF MayBegin, Places, BoxOps
<1> HIDE DEF j, l
<1> QED
  BY <1>1, <1>2, <1>3, <1>4, <1>6, BeginKeeps DEF IndInv, TypeOK

-----------------------------------------------------------------------------
(* Requests end, and go on.                                                *)

LEMMA StopOnward ==
  ASSUME TypeOK, NEW p \in Requests, pc[p] # "idle", Stop(p), UNCHANGED <<asked, vouched>>
  PROVE  Onward(p) /\ pc'[p] = "idle" /\ job'[p] = NoJob
BY DEF Stop, Onward, TypeOK, Where

LEMMA GotoOnward ==
  ASSUME TypeOK, JobsSound, NEW p \in Requests, pc[p] # "idle", pc[p] # "insert",
         NEW l \in Places(job[p].op) \ {"insert"}, Goto(p, l), UNCHANGED <<asked, vouched>>,
         job[p].op = "check" /\ l = "record" => job[p].status \in {"dns_pending", "active"}
  PROVE  Onward(p) /\ pc'[p] = l /\ job'[p] = job[p]
<1>1. pc'[p] = l /\ job' = job /\ todo' = todo /\ l \in Where
  BY DEF Goto, TypeOK, Places, Where, Calls
<1>2. job[p] \in JobType
  BY JobFacts
<1> QED
  BY <1>1, <1>2 DEF Onward, GoesOn, Goto, TypeOK, Where

-----------------------------------------------------------------------------
(* Statuses change.                                                        *)

\* Requests stay where they are, end, or go on to a repair's mailbox.
Settled ==
  /\ pc' \in [Requests -> Where]
  /\ job' \in [Requests -> JobType \cup {NoJob}]
  /\ todo' \in [Requests -> SUBSET Boxes]
  /\ \A q \in Requests :
       \/ pc'[q] = pc[q] /\ job'[q] = job[q]
       \/ pc'[q] = "idle" /\ job'[q] = NoJob /\ job[q].op # "mailbox"
       \/ pc[q] # "insert" /\ pc'[q] = "box" /\ job'[q] = job[q] /\ job[q].op = "repair"

LEMMA StatusKeeps ==
  ASSUME IndInv, NEW i \in Ids, NEW s \in Statuses, SetStatus(i, s), Settled,
         cluster' = cluster, asked' = asked, loose' = loose,
         vouched \subseteq vouched', vouched' \subseteq Ids,
         s = "failed" => row[i].name \in loose,
         i \in vouched' \/ DeletionAsked(row[i].name) \/ s = "failed"
           \/ (Live(i) => cluster[row[i].name].domain # "none")
  PROVE  IndInv'
<1> USE DEF IndInv
<1>0. /\ row' \in [Ids -> RowType]
      /\ \A j \in Ids : /\ row'[j].name = row[j].name /\ row'[j].boxes = row[j].boxes
                        /\ row'[j].status = IF j = i /\ Live(i) THEN s ELSE row[j].status
                        /\ Live(j)' = Live(j)
  BY SetStatusRows
<1>a. RowsStay
  BY <1>0 DEF RowsStay, Live, Statuses
<1>b. \A n : DeletionAsked(n)' <=> DeletionAsked(n)
  BY <1>0 DEF DeletionAsked, TypeOK
<1>c. ASSUME NEW q \in Requests, job'[q].op # "none"
      PROVE  job'[q] = job[q] /\ (pc'[q] = pc[q] \/ (pc'[q] = "box" /\ pc[q] # "insert"))
  BY <1>c DEF Settled, NoJob
<1>d. \A q \in Requests : job[q].op = "mailbox" => pc'[q] = pc[q] /\ job'[q] = job[q]
  BY DEF Settled
<1>e. \A q \in Requests : pc[q] # "idle" /\ pc[q] # "insert" => job[q].id \in Ids
  BY JobFacts
<1>f. \A q \in Requests : job[q].op # "none" => pc[q] # "idle"
  BY JobFacts
<1>1. TypeOK'
  BY <1>0 DEF TypeOK, Settled, Where
<1>2. RowsNamed'
  BY <1>0, <1>a DEF RowsNamed, RowsStay
<1>3. JobsSound'
  <2> SUFFICES ASSUME NEW q \in Requests, pc'[q] # "idle"
      PROVE /\ job'[q] \in JobType
            /\ pc'[q] \in Places(job'[q].op)
            /\ IF pc'[q] = "insert" THEN job'[q].id = NoId
               ELSE /\ job'[q].id \in Ids
                    /\ row'[job'[q].id].status # "absent"
                    /\ row'[job'[q].id].name = job'[q].name
            /\ job'[q].op = "delete" => job'[q].id \in asked'
            /\ job'[q].op \in BoxOps => job'[q].box \in Boxes
            /\ job'[q].op \notin {"delete", "check"}
                 => job'[q].status \in {"dns_pending", "suspended"}
            /\ job'[q].op = "check" /\ pc'[q] = "record"
                 => job'[q].status \in {"dns_pending", "active"}
    BY DEF JobsSound, Settled
  <2>1. job'[q] = job[q] /\ pc[q] # "idle"
        /\ (pc'[q] = pc[q] \/ (pc'[q] = "box" /\ job[q].op = "repair" /\ pc[q] # "insert"))
    <3>1. CASE pc'[q] = pc[q] /\ job'[q] = job[q]
      BY <3>1
    <3>2. CASE pc[q] # "insert" /\ pc'[q] = "box" /\ job'[q] = job[q] /\ job[q].op = "repair"
      BY <3>2, <1>f
    <3> QED
      BY <3>1, <3>2 DEF Settled
  <2>2. "box" \in Places("repair")
    BY DEF Places
  <2> QED
    BY <1>a, <2>1, <2>2 DEF JobsSound, RowsStay
<1>4. CreationsApart'
  BY <1>c DEF CreationsApart
<1>5. AskedThere'
  BY <1>a DEF AskedThere, RowsStay, TypeOK
<1>6. ClusterSound'
  BY <1>b DEF ClusterSound
<1>7. RecordsTrue'
  <2> SUFFICES ASSUME NEW q \in Requests, pc'[q] = "record", job'[q].op # "delete",
                      ~DeletionAsked(job'[q].name)
      PROVE /\ cluster[job'[q].name].domain # "none"
            /\ job'[q].op = "mailbox" => job'[q].box \in cluster[job'[q].name].accounts
    BY <1>b DEF RecordsTrue, There
  <2>1. pc[q] = "record" /\ job'[q] = job[q]
    BY DEF Settled
  <2> QED
    BY <2>1 DEF RecordsTrue, There
<1>8. DamageOnlyByDeletion'
  <2> SUFFICES ASSUME NEW j \in Ids, Live(j), ~DeletionAsked(row[j].name)
      PROVE /\ row'[j].status \in {"dns_pending", "active", "suspended"} /\ j \notin vouched'
                 => cluster[row[j].name].domain # "none"
            /\ cluster[row[j].name].domain # "none" => cluster[row[j].name].keys
            /\ row[j].boxes \subseteq cluster[row[j].name].accounts
    BY <1>0, <1>b DEF DamageOnlyByDeletion
  <2> QED
    BY <1>0 DEF DamageOnlyByDeletion
<1>9. FailedLoose'
  BY <1>0 DEF FailedLoose, Settled
<1>10. CreationsAlone'
  <2> SUFFICES ASSUME NEW q \in Requests, job'[q].op = "create", pc'[q] \in {"call", "undo"},
                      job'[q].name \notin loose
      PROVE /\ job'[q].id \in Ids /\ row'[job'[q].id].status \in Statuses
            /\ row'[job'[q].id].boxes = {}
            /\ cluster[job'[q].name].domain = "none"
            /\ \A o \in Requests : job'[o].op = "repair" => job'[o].name # job'[q].name
            /\ \A o \in Requests :
                 job'[o].op = "mailbox" /\ pc'[o] = "record" => job'[o].id # job'[q].id
    BY DEF CreationsAlone, There, Live
  <2>1. pc[q] = pc'[q] /\ job'[q] = job[q] /\ job[q].id \in Ids
    BY <1>e DEF Settled
  <2>2. /\ Live(job[q].id) /\ row[job[q].id].boxes = {}
        /\ cluster[job[q].name].domain = "none"
        /\ \A o \in Requests : job[o].op = "repair" => job[o].name # job[q].name
        /\ \A o \in Requests :
             job[o].op = "mailbox" /\ pc[o] = "record" => job[o].id # job[q].id
    BY <2>1 DEF CreationsAlone, There
  <2>3. /\ \A o \in Requests : job'[o].op = "repair" => job'[o].name # job'[q].name
        /\ \A o \in Requests :
             job'[o].op = "mailbox" /\ pc'[o] = "record" => job'[o].id # job'[q].id
    BY <1>c, <2>1, <2>2
  <2> QED
    BY <1>0, <2>1, <2>2, <2>3 DEF Live
<1>11. RepairsLive'
  <2> SUFFICES ASSUME NEW q \in Requests, job'[q].op \in {"create", "repair"}
      PROVE /\ pc'[q] # "insert" /\ job'[q].name \notin loose
                 => /\ row'[job'[q].id].status \in Statuses /\ job'[q].id \in Ids
                    /\ \A o \in Requests : job'[o].op = "delete" => job'[o].id # job'[q].id
            /\ job'[q].op = "repair" /\ job'[q].id \in Ids /\ row'[job'[q].id].status \in Statuses
                 => job'[q].box \in row'[job'[q].id].boxes
    BY DEF RepairsLive, Live
  <2>1. job'[q] = job[q] /\ (pc'[q] = pc[q] \/ pc[q] # "insert")
    BY <1>c
  <2> QED
    BY <1>0, <1>c, <2>1 DEF RepairsLive, Live
<1>12. DeletionsClean'
  <2> SUFFICES ASSUME NEW q \in Requests, job'[q].op = "delete", pc'[q] = "record",
                      job'[q].id \in Ids, row'[job'[q].id].status \in Statuses,
                      job'[q].name \notin loose
      PROVE cluster[job'[q].name].domain = "none"
    BY DEF DeletionsClean, There, Live
  <2>1. pc[q] = "record" /\ job'[q] = job[q] /\ job[q].id \in Ids
    BY <1>c, <1>e DEF Settled
  <2>2. Live(job[q].id)
    BY <1>0, <2>1 DEF Live
  <2> QED
    BY <2>1, <2>2 DEF DeletionsClean, There
<1>13. OrphansExplained'
  <2> SUFFICES ASSUME NEW n \in Names \ loose
      PROVE /\ cluster[n].domain # "none" => {j \in Ids : Live(j)' /\ row'[j].name = n} # {}
            /\ \A b \in cluster[n].accounts :
                 \/ \E q \in Requests : job'[q].op = "mailbox" /\ pc'[q] = "record"
                                          /\ job'[q].name = n /\ job'[q].box = b
                 \/ \E j \in {j \in Ids : Live(j)' /\ row'[j].name = n} : b \in row'[j].boxes
    BY DEF OrphansExplained
  <2>1. /\ cluster[n].domain # "none" => {j \in Ids : Live(j) /\ row[j].name = n} # {}
        /\ \A b \in cluster[n].accounts :
             \/ \E q \in Requests : job[q].op = "mailbox" /\ pc[q] = "record"
                                      /\ job[q].name = n /\ job[q].box = b
             \/ \E j \in {j \in Ids : Live(j) /\ row[j].name = n} : b \in row[j].boxes
    BY DEF OrphansExplained
  <2>2. {j \in Ids : Live(j)' /\ row'[j].name = n} = {j \in Ids : Live(j) /\ row[j].name = n}
    BY <1>0
  <2> QED
    BY <1>0, <1>d, <2>1, <2>2
<1> QED
  BY <1>1, <1>2, <1>3, <1>4, <1>5, <1>6, <1>7, <1>8, <1>9, <1>10, <1>11, <1>12, <1>13

LEMMA VerifyKeeps ==
  ASSUME IndInv, NEW i \in Ids, Verify(i)
  PROVE  IndInv'
<1>1. Settled
  BY DEF Verify, Settled, IndInv, TypeOK, Where
<1>2. "active" \in Statuses /\ i \in vouched' /\ vouched \subseteq vouched' /\ vouched' \subseteq Ids
  BY DEF Statuses, Verify, IndInv, TypeOK
<1> QED
  BY <1>1, <1>2, StatusKeeps DEF Verify

\* The status recorded is one the request found the domain in the cluster with.
LEMMA RecordStatusKeeps ==
  ASSUME IndInv, NEW p \in Requests, RecordStatus(p)
  PROVE  IndInv'
<1> USE DEF IndInv
<1>0. /\ pc[p] = "record" /\ job[p].op \notin {"delete", "mailbox"}
      /\ SetStatus(job[p].id, job[p].status)
      /\ job[p].id \in Ids /\ row[job[p].id].name = job[p].name /\ job[p] \in JobType
      /\ job[p].status \in {"dns_pending", "suspended", "active"}
  BY JobFacts DEF RecordStatus, JobsSound
<1>1. UNCHANGED <<cluster, asked, vouched, loose>>
  BY DEF RecordStatus
<1>2. Settled
  <2>1. CASE job[p].op = "repair" /\ Goto(p, "box")
    BY <1>0, <2>1 DEF Goto, Settled, TypeOK, Where, Calls
  <2>2. CASE Stop(p)
    BY <1>0, <2>2 DEF Stop, Settled, TypeOK, Where
  <2> QED
    BY <2>1, <2>2 DEF RecordStatus
<1>3. DeletionAsked(row[job[p].id].name) \/ cluster[row[job[p].id].name].domain # "none"
  BY <1>0 DEF RecordsTrue, There
<1>4. job[p].status \in Statuses /\ job[p].status # "failed" /\ vouched \subseteq Ids
  BY <1>0 DEF Statuses, TypeOK
<1> QED
  BY <1>0, <1>1, <1>2, <1>3, <1>4, StatusKeeps

LEMMA MarkFailedKeeps ==
  ASSUME IndInv, NEW p \in Requests, MarkFailed(p)
  PROVE  IndInv'
<1> USE DEF IndInv
<1>0. /\ pc[p] = "mark" /\ SetStatus(job[p].id, "failed") /\ Stop(p)
      /\ job[p].id \in Ids /\ row[job[p].id].name = job[p].name /\ job[p].op = "create"
  BY JobFacts DEF MarkFailed, Places
<1>1. UNCHANGED <<cluster, asked, vouched, loose>>
  BY DEF MarkFailed
<1>2. Settled
  BY <1>0 DEF Stop, Settled, TypeOK, Where
<1>3. row[job[p].id].name \in loose /\ "failed" \in Statuses /\ vouched \subseteq Ids
  BY <1>0 DEF FailedLoose, Statuses, TypeOK
<1> QED
  BY <1>0, <1>1, <1>2, <1>3, StatusKeeps

-----------------------------------------------------------------------------
(* Requests that leave rows and cluster as they are.                       *)

LEMMA GiveUpKeeps ==
  ASSUME IndInv, NEW p \in Requests, pc[p] \in Calls, GiveUp(p),
         UNCHANGED <<row, cluster, asked, vouched, loose>>
  PROVE  IndInv'
<1> USE DEF IndInv
<1>0. pc[p] # "idle" /\ pc[p] # "insert" /\ pc[p] # "record" /\ pc[p] \in Places(job[p].op)
  BY JobFacts DEF Calls
<1>1. CASE job[p].op = "create" /\ Goto(p, "undo")
  <2>1. "undo" \in Places("create") \ {"insert"} /\ pc[p] = "call"
    BY <1>0, <1>1 DEF Places, Calls
  <2>2. Onward(p) /\ pc'[p] = "undo"
    BY <1>0, <1>1, <2>1, GotoOnward
  <2> QED
    BY <1>1, <2>1, <2>2, RestKeeps DEF TypeOK
<1>2. CASE Stop(p)
  <2>1. Onward(p) /\ pc'[p] = "idle"
    BY <1>0, <1>2, StopOnward
  <2> QED
    BY <1>0, <2>1, RestKeeps DEF TypeOK
<1> QED
  BY <1>1, <1>2 DEF GiveUp

LEMMA CallFailsKeeps ==
  ASSUME IndInv, NEW p \in Requests, CallFails(p)
  PROVE  IndInv'
BY GiveUpKeeps DEF CallFails

LEMMA NextAccountOnward ==
  ASSUME TypeOK, JobsSound, NEW p \in Requests, pc[p] \notin {"idle", "insert"},
         job[p].op = "delete", NEW list \in SUBSET Boxes, NextAccount(p, list),
         UNCHANGED <<asked, vouched>>
  PROVE  Onward(p) /\ pc'[p] \in {"keys", "account"}
<1>0. job[p] \in JobType
  BY JobFacts
<1>1. CASE list = {} /\ pc' = [pc EXCEPT ![p] = "keys"] /\ UNCHANGED <<job, todo>>
  BY <1>0, <1>1 DEF Onward, GoesOn, TypeOK, Where, Calls, Places, BoxOps
<1>2. ASSUME NEW b \in list, pc' = [pc EXCEPT ![p] = "account"],
             job' = [job EXCEPT ![p].box = b], todo' = [todo EXCEPT ![p] = list \ {b}]
      PROVE  Onward(p) /\ pc'[p] \in {"keys", "account"}
  <2> DEFINE r == [job[p] EXCEPT !.box = b]
  <2>1. r \in JobType /\ r.op = job[p].op /\ r.id = job[p].id /\ r.name = job[p].name
    BY <1>0 DEF JobType
  <2>2. job'[p] = r /\ \A q \in Requests \ {p} : job'[q] = job[q]
    BY <1>2 DEF TypeOK
  <2>3. job' = [q \in Requests |-> job'[q]]
    BY <1>2 DEF TypeOK
  <2> HIDE DEF r
  <2>4. \A q \in Requests : job'[q] \in JobType \cup {NoJob}
    BY <2>1, <2>2 DEF TypeOK
  <2>5. job' \in [Requests -> JobType \cup {NoJob}]
    BY <2>3, <2>4
  <2>6. /\ pc' \in [Requests -> Where] /\ pc'[p] = "account"
        /\ todo' \in [Requests -> SUBSET Boxes]
        /\ \A q \in Requests \ {p} : pc'[q] = pc[q]
    BY <1>2 DEF TypeOK, Where, Calls
  <2> QED
    BY <2>1, <2>2, <2>5, <2>6 DEF Onward, GoesOn, Places, BoxOps
<1> QED
  BY <1>1, <1>2 DEF NextAccount

LEMMA ListBoxesKeeps ==
  ASSUME IndInv, NEW p \in Requests, ListBoxes(p)
  PROVE  IndInv'
<1> USE DEF IndInv
<1>1. pc[p] = "list" /\ job[p].op = "delete" /\ job[p].id \in Ids
  BY JobFacts DEF ListBoxes, Places, JobType, JobOps, Toggles, BoxOps
<1>2. row[job[p].id].boxes \in SUBSET Boxes
  BY <1>1 DEF TypeOK, RowType
<1>3. Onward(p) /\ pc'[p] \in {"keys", "account"}
  BY <1>1, <1>2, NextAccountOnward DEF ListBoxes
<1> QED
  BY <1>1, <1>3, RestKeeps DEF ListBoxes, TypeOK

LEMMA RecordFailsKeeps ==
  ASSUME IndInv, NEW p \in Requests, RecordFails(p)
  PROVE  IndInv'
<1> USE DEF IndInv
<1>0. /\ pc[p] \in {"record", "undo", "mark"} /\ pc[p] \in Places(job[p].op)
      /\ job[p].name \in Names /\ job[p].name \in loose'
      /\ loose \subseteq loose' /\ loose' \subseteq Names
      /\ row' = row /\ cluster' = cluster /\ UNCHANGED <<asked, vouched>>
  BY JobFacts DEF RecordFails, JobType, TypeOK
<1>1. CASE pc[p] = "undo" /\ Goto(p, "mark")
  <2>1. job[p].op = "create" /\ "mark" \in Places("create")
    BY <1>0, <1>1 DEF Places
  <2>2. Onward(p) /\ pc'[p] = "mark"
    BY <1>0, <1>1, <2>1, GotoOnward
  <2> QED
    BY <1>0, <2>1, <2>2, RestKeeps
<1>2. CASE job[p].op = "repair" /\ Goto(p, "box")
  <2>1. "box" \in Places("repair")
    BY DEF Places
  <2>2. Onward(p) /\ pc'[p] = "box"
    BY <1>0, <1>2, <2>1, GotoOnward
  <2> QED
    BY <1>0, <2>2, RestKeeps
<1>3. CASE Stop(p)
  <2>1. Onward(p) /\ pc'[p] = "idle"
    BY <1>0, <1>3, StopOnward
  <2> QED
    BY <1>0, <2>1, RestKeeps
<1> QED
  BY <1>1, <1>2, <1>3 DEF RecordFails

LEMMA CrashKeeps ==
  ASSUME IndInv, NEW p \in Requests, Crash(p)
  PROVE  IndInv'
<1> USE DEF IndInv
<1>1. /\ pc[p] # "idle" /\ job[p].name \in Names /\ Stop(p)
      /\ loose \subseteq loose' /\ loose' \subseteq loose \cup {job[p].name}
      /\ pc[p] = "record" => job[p].name \in loose'
      /\ row' = row /\ cluster' = cluster /\ UNCHANGED <<asked, vouched>>
  BY JobFacts DEF Crash, JobType
<1>2. Onward(p) /\ pc'[p] = "idle"
  BY <1>1, StopOnward
<1> QED
  BY <1>1, <1>2, RestKeeps DEF TypeOK

-----------------------------------------------------------------------------
(* Rows are dropped.                                                       *)

\* Dropping a row keeps the invariant when no creation or repair is about it, and
\* the cluster has nothing of its name.
LEMMA DropKeeps ==
  ASSUME IndInv, NEW p \in Requests, pc[p] \in {"record", "undo"}, job[p].op # "mailbox",
         DropRow(job[p].id), Stop(p), UNCHANGED <<cluster, asked, vouched, loose>>,
         Live(job[p].id) /\ job[p].name \notin loose => cluster[job[p].name].domain = "none",
         \A q \in Requests \ {p} :
           /\ job[q].op \in {"create", "repair"} /\ pc[q] # "insert"
           /\ job[q].name \notin loose /\ Live(job[q].id)
           => job[q].id # job[p].id
  PROVE  IndInv'
<1> USE DEF IndInv
<1>0. PICK i \in Ids : /\ i = job[p].id /\ row[i].name = job[p].name
                       /\ row[i].status # "absent"
  BY JobFacts
<1>1. /\ row' \in [Ids -> RowType]
      /\ \A j \in Ids \ {i} : row'[j] = row[j] /\ Live(j)' = Live(j)
      /\ row'[i].name = row[i].name /\ ~Live(i)'
      /\ row'[i].status = "absent" => row[i].status = "absent"
      /\ row'[i].status # "failed"
      /\ Live(i) => row'[i].boxes = {}
      /\ ~Live(i) => row' = row
  BY <1>0, DropRowRows
<1>2. Onward(p) /\ pc'[p] = "idle" /\ job'[p] = NoJob
  BY StopOnward
<1>a. RowsStay
  BY <1>0, <1>1 DEF RowsStay
<1>b. \A n : DeletionAsked(n)' <=> DeletionAsked(n)
  BY <1>2, <1>a, OnwardKeepsAsked
<1>c. \A q \in Requests : job'[q].op # "none" =>
        q # p /\ job'[q] = job[q] /\ pc'[q] = pc[q] /\ pc[q] # "idle"
  BY <1>2, JobFacts DEF Onward, NoJob
<1>d. \A q \in Requests : pc[q] # "idle" /\ pc[q] # "insert" => job[q].id \in Ids
  BY JobFacts
<1>3. TypeOK'
  BY <1>1, <1>2 DEF TypeOK, Onward, Where
<1>4. RowsNamed'
  <2>1. \A j \in Ids : row'[j].status # "absent" => row'[j].name \in Names
    BY <1>a DEF RowsNamed, RowsStay
  <2>2. \A j \in Ids : ~Live(j)' => row'[j].boxes = {}
    BY <1>1 DEF RowsNamed
  <2>3. \A j \in Ids : Live(j)' => j # i /\ Live(j) /\ row'[j] = row[j]
    BY <1>1
  <2>4. \A j, k \in Ids : Live(j)' /\ Live(k)' /\ row'[j].name = row'[k].name => j = k
    BY <2>3 DEF RowsNamed
  <2> QED
    BY <2>1, <2>2, <2>4 DEF RowsNamed
<1>5. JobsSound' /\ AskedThere' /\ CreationsApart'
  BY <1>2, <1>a, OnwardKeepsJobs, OnwardKeepsAsked, OnwardKeepsApart
<1>6. ClusterSound'
  BY <1>b DEF ClusterSound
<1>7. RecordsTrue'
  <2> SUFFICES ASSUME NEW q \in Requests, pc'[q] = "record", job'[q].op # "delete",
                      ~DeletionAsked(job'[q].name)
      PROVE /\ cluster[job'[q].name].domain # "none"
            /\ job'[q].op = "mailbox" => job'[q].box \in cluster[job'[q].name].accounts
    BY <1>b DEF RecordsTrue, There
  <2>1. pc[q] = "record" /\ job'[q] = job[q]
    BY <1>2 DEF Onward
  <2> QED
    BY <2>1 DEF RecordsTrue, There
<1>8. DamageOnlyByDeletion'
  <2> SUFFICES ASSUME NEW j \in Ids, Live(j)', ~DeletionAsked(row'[j].name)
      PROVE /\ row'[j].status \in {"dns_pending", "active", "suspended"} /\ j \notin vouched
                 => cluster[row'[j].name].domain # "none"
            /\ cluster[row'[j].name].domain # "none" => cluster[row'[j].name].keys
            /\ row'[j].boxes \subseteq cluster[row'[j].name].accounts
    BY <1>b DEF DamageOnlyByDeletion
  <2>1. Live(j) /\ row'[j] = row[j]
    BY <1>1
  <2> QED
    BY <2>1 DEF DamageOnlyByDeletion
<1>9. FailedLoose'
  BY <1>0, <1>1, <1>2 DEF FailedLoose, Onward
<1>10. CreationsAlone'
  <2> SUFFICES ASSUME NEW q \in Requests, job'[q].op = "create", pc'[q] \in {"call", "undo"},
                      job'[q].name \notin loose
      PROVE /\ job'[q].id \in Ids /\ row'[job'[q].id].status \in Statuses
            /\ row'[job'[q].id].boxes = {}
            /\ cluster[job'[q].name].domain = "none"
            /\ \A o \in Requests : job'[o].op = "repair" => job'[o].name # job'[q].name
            /\ \A o \in Requests :
                 job'[o].op = "mailbox" /\ pc'[o] = "record" => job'[o].id # job'[q].id
    BY DEF CreationsAlone, There, Live
  <2>1. q # p /\ pc[q] = pc'[q] /\ job'[q] = job[q] /\ job[q].id \in Ids
    BY <1>c, <1>d
  <2>2. /\ Live(job[q].id) /\ row[job[q].id].boxes = {}
        /\ cluster[job[q].name].domain = "none"
        /\ \A o \in Requests : job[o].op = "repair" => job[o].name # job[q].name
        /\ \A o \in Requests :
             job[o].op = "mailbox" /\ pc[o] = "record" => job[o].id # job[q].id
    BY <2>1 DEF CreationsAlone, There
  <2>3. /\ \A o \in Requests : job'[o].op = "repair" => job'[o].name # job'[q].name
        /\ \A o \in Requests :
             job'[o].op = "mailbox" /\ pc'[o] = "record" => job'[o].id # job'[q].id
    BY <1>c, <2>1, <2>2
  <2>4. job[q].id # i
    BY <1>0, <2>1, <2>2
  <2> QED
    BY <1>1, <2>1, <2>2, <2>3, <2>4 DEF Live
<1>11. RepairsLive'
  <2> SUFFICES ASSUME NEW q \in Requests, job'[q].op \in {"create", "repair"}
      PROVE /\ pc'[q] # "insert" /\ job'[q].name \notin loose
                 => /\ row'[job'[q].id].status \in Statuses /\ job'[q].id \in Ids
                    /\ \A o \in Requests : job'[o].op = "delete" => job'[o].id # job'[q].id
            /\ job'[q].op = "repair" /\ job'[q].id \in Ids /\ row'[job'[q].id].status \in Statuses
                 => job'[q].box \in row'[job'[q].id].boxes
    BY DEF RepairsLive, Live
  <2>1. q # p /\ job'[q] = job[q] /\ pc'[q] = pc[q]
    BY <1>c
  <2>2. ASSUME pc[q] # "insert", job[q].name \notin loose
        PROVE  /\ Live(job[q].id) /\ job[q].id # i /\ job[q].id \in Ids
               /\ \A o \in Requests : job'[o].op = "delete" => job'[o].id # job[q].id
    BY <1>0, <1>c, <2>1, <2>2 DEF RepairsLive, Live
  <2>3. ASSUME job[q].op = "repair", job[q].id \in Ids, row'[job[q].id].status \in Statuses
        PROVE  job[q].box \in row'[job[q].id].boxes
    <3>1. PICK j \in Ids : j = job[q].id
      BY <2>3
    <3>2. Live(j)' /\ Live(j) /\ j # i
      BY <1>1, <2>3, <3>1 DEF Live
    <3> QED
      BY <1>1, <2>1, <2>3, <3>1, <3>2 DEF RepairsLive
  <2> QED
    BY <1>1, <2>1, <2>2, <2>3 DEF Live
<1>12. DeletionsClean'
  <2> SUFFICES ASSUME NEW q \in Requests, job'[q].op = "delete", pc'[q] = "record",
                      job'[q].id \in Ids, row'[job'[q].id].status \in Statuses,
                      job'[q].name \notin loose
      PROVE cluster[job'[q].name].domain = "none"
    BY DEF DeletionsClean, There, Live
  <2>1. pc[q] = "record" /\ job'[q] = job[q] /\ job[q].id \in Ids
    BY <1>c, <1>d
  <2>2. Live(job[q].id)
    BY <1>1, <2>1 DEF Live
  <2> QED
    BY <2>1, <2>2 DEF DeletionsClean, There
<1>13. OrphansExplained'
  <2> SUFFICES ASSUME NEW n \in Names \ loose
      PROVE /\ cluster[n].domain # "none" => {j \in Ids : Live(j)' /\ row'[j].name = n} # {}
            /\ \A b \in cluster[n].accounts :
                 \/ \E q \in Requests : job'[q].op = "mailbox" /\ pc'[q] = "record"
                                          /\ job'[q].name = n /\ job'[q].box = b
                 \/ \E j \in {j \in Ids : Live(j)' /\ row'[j].name = n} : b \in row'[j].boxes
    BY DEF OrphansExplained
  <2>1. /\ cluster[n].domain # "none" => {j \in Ids : Live(j) /\ row[j].name = n} # {}
        /\ \A b \in cluster[n].accounts :
             \/ \E q \in Requests : job[q].op = "mailbox" /\ pc[q] = "record"
                                      /\ job[q].name = n /\ job[q].box = b
             \/ \E j \in {j \in Ids : Live(j) /\ row[j].name = n} : b \in row[j].boxes
    BY DEF OrphansExplained
  <2>2. CASE Live(i) /\ row[i].name = n
    <3>1. cluster[n].domain = "none"
      BY <1>0, <2>2
    <3> QED
      BY <3>1 DEF ClusterSound
  <2>3. CASE ~(Live(i) /\ row[i].name = n)
    <3>1. \A j \in Ids : Live(j) /\ row[j].name = n => Live(j)' /\ row'[j] = row[j]
      BY <1>1, <2>3
    <3>2. {j \in Ids : Live(j)' /\ row'[j].name = n} = {j \in Ids : Live(j) /\ row[j].name = n}
      BY <1>1, <3>1
    <3>3. \A q \in Requests : job[q].op = "mailbox" => job'[q] = job[q] /\ pc'[q] = pc[q]
      BY <1>2 DEF Onward
    <3> QED
      BY <2>1, <3>1, <3>2, <3>3
  <2> QED
    BY <2>2, <2>3
<1> QED
  BY <1>3, <1>4, <1>5, <1>6, <1>7, <1>8, <1>9, <1>10, <1>11, <1>12, <1>13

LEMMA RecordDeleteKeeps ==
  ASSUME IndInv, NEW p \in Requests, RecordDelete(p)
  PROVE  IndInv'
<1>1. Live(job[p].id) /\ job[p].name \notin loose => cluster[job[p].name].domain = "none"
  BY DEF IndInv, DeletionsClean, There, RecordDelete
<1>2. \A q \in Requests \ {p} :
        /\ job[q].op \in {"create", "repair"} /\ pc[q] # "insert"
        /\ job[q].name \notin loose /\ Live(job[q].id)
        => job[q].id # job[p].id
  BY DEF IndInv, RepairsLive, RecordDelete
<1> QED
  BY <1>1, <1>2, DropKeeps DEF RecordDelete

LEMMA UndoKeeps ==
  ASSUME IndInv, NEW p \in Requests, Undo(p)
  PROVE  IndInv'
<1>1. pc[p] = "undo" /\ job[p].op = "create"
      /\ job[p].id \in Ids /\ row[job[p].id].name = job[p].name
  BY JobFacts DEF IndInv, Undo, Places
<1>2. Live(job[p].id) /\ job[p].name \notin loose => cluster[job[p].name].domain = "none"
  BY <1>1 DEF IndInv, CreationsAlone, There
<1>3. ASSUME NEW q \in Requests \ {p}, job[q].op \in {"create", "repair"}, pc[q] # "insert",
             job[q].name \notin loose
      PROVE  job[q].id # job[p].id
  <2>1. CASE job[q].op = "create"
    BY <1>1, <1>3, <2>1 DEF IndInv, CreationsApart
  <2>2. CASE job[q].op = "repair"
    <3>1. row[job[q].id].name = job[q].name
      BY <1>3, <2>2, JobFacts DEF IndInv
    <3> QED
      BY <1>1, <1>3, <2>2, <3>1 DEF IndInv, CreationsAlone
  <2> QED
    BY <1>3, <2>1, <2>2
<1> QED
  BY <1>1, <1>2, <1>3, DropKeeps DEF Undo

-----------------------------------------------------------------------------
(* Rows are added to.                                                      *)

\* The account is there before its row, and the row's domain is not one whose
\* creation may be undone.
LEMMA RecordBoxKeeps ==
  ASSUME IndInv, NEW p \in Requests, RecordBox(p)
  PROVE  IndInv'
<1> USE DEF IndInv
<1>0. /\ pc[p] = "record" /\ job[p].op = "mailbox" /\ job[p].box \in Boxes
      /\ job[p].name \in Names /\ Stop(p) /\ UNCHANGED <<cluster, asked, vouched>>
  BY JobFacts DEF RecordBox, JobsSound, BoxOps
<1>1. PICK i \in Ids : /\ i = job[p].id /\ row[i].name = job[p].name
                       /\ row[i].status # "absent"
  BY <1>0, JobFacts
<1>2. PICK b \in Boxes : b = job[p].box
  BY <1>0
<1>3. Onward(p) /\ pc'[p] = "idle" /\ job'[p] = NoJob
  BY <1>0, StopOnward
<1>4. CASE ~Live(i)
  <2>1. row' = row /\ loose' = loose \cup {job[p].name}
    BY <1>1, <1>4 DEF RecordBox
  <2> QED
    BY <1>0, <1>3, <2>1, RestKeeps DEF TypeOK
<1>5. CASE Live(i)
  <2>0. row' = [row EXCEPT ![i].boxes = @ \cup {b}] /\ loose' = loose
    BY <1>1, <1>2, <1>5 DEF RecordBox
  <2>1. /\ row' \in [Ids -> RowType]
        /\ \A j \in Ids : /\ row'[j].name = row[j].name /\ row'[j].status = row[j].status
                          /\ row'[j].boxes = IF j = i THEN row[i].boxes \cup {b} ELSE row[j].boxes
                          /\ Live(j)' = Live(j)
    <3>1. row[i] \in RowType
      BY DEF TypeOK
    <3> DEFINE r == [row[i] EXCEPT !.boxes = @ \cup {b}]
    <3>2. r \in RowType /\ r.status = row[i].status /\ r.name = row[i].name
          /\ r.boxes = row[i].boxes \cup {b}
      BY <3>1 DEF RowType
    <3>3. row'[i] = r /\ \A j \in Ids \ {i} : row'[j] = row[j]
      BY <2>0 DEF TypeOK
    <3>4. row' = [j \in Ids |-> row'[j]]
      BY <2>0 DEF TypeOK
    <3> HIDE DEF r
    <3>5. \A j \in Ids : row'[j] \in RowType
      BY <3>2, <3>3 DEF TypeOK
    <3> QED
      BY <3>2, <3>3, <3>4, <3>5 DEF Live
  <2>a. RowsStay
    BY <2>1 DEF RowsStay
  <2>b. \A n : DeletionAsked(n)' <=> DeletionAsked(n)
    BY <1>3, <2>a, OnwardKeepsAsked
  <2>c. \A q \in Requests : job'[q].op # "none" =>
          q # p /\ job'[q] = job[q] /\ pc'[q] = pc[q]
          /\ (pc[q] # "insert" => job[q].id \in Ids)
    BY <1>3, JobFacts DEF Onward, NoJob
  <2>3. TypeOK'
    BY <1>0, <1>3, <2>0, <2>1 DEF TypeOK, Onward, Where
  <2>4. RowsNamed'
    BY <1>5, <2>1 DEF RowsNamed
  <2>5. JobsSound' /\ AskedThere' /\ CreationsApart'
    BY <1>3, <2>a, OnwardKeepsJobs, OnwardKeepsAsked, OnwardKeepsApart
  <2>6. ClusterSound'
    BY <1>0, <2>b DEF ClusterSound
  <2>7. RecordsTrue'
    <3> SUFFICES ASSUME NEW q \in Requests, pc'[q] = "record", job'[q].op # "delete",
                        ~DeletionAsked(job'[q].name)
        PROVE /\ cluster[job'[q].name].domain # "none"
              /\ job'[q].op = "mailbox" => job'[q].box \in cluster[job'[q].name].accounts
      BY <1>0, <2>b DEF RecordsTrue, There
    <3>1. pc[q] = "record" /\ job'[q] = job[q]
      BY <1>3 DEF Onward
    <3> QED
      BY <3>1 DEF RecordsTrue, There
  <2>8. DamageOnlyByDeletion'
    <3> SUFFICES ASSUME NEW j \in Ids, Live(j), ~DeletionAsked(row[j].name)
        PROVE /\ row[j].status \in {"dns_pending", "active", "suspended"} /\ j \notin vouched
                   => cluster[row[j].name].domain # "none"
              /\ cluster[row[j].name].domain # "none" => cluster[row[j].name].keys
              /\ row'[j].boxes \subseteq cluster[row[j].name].accounts
      BY <1>0, <2>1, <2>b DEF DamageOnlyByDeletion
    <3>1. j = i => b \in cluster[row[j].name].accounts
      BY <1>0, <1>1, <1>2 DEF RecordsTrue, There
    <3> QED
      BY <2>1, <3>1 DEF DamageOnlyByDeletion
  <2>9. FailedLoose'
    BY <1>3, <2>0, <2>1 DEF FailedLoose, Onward
  <2>10. CreationsAlone'
    <3> SUFFICES ASSUME NEW q \in Requests, job'[q].op = "create", pc'[q] \in {"call", "undo"},
                        job'[q].name \notin loose
        PROVE /\ job'[q].id \in Ids /\ row'[job'[q].id].status \in Statuses
              /\ row'[job'[q].id].boxes = {}
              /\ cluster[job'[q].name].domain = "none"
              /\ \A o \in Requests : job'[o].op = "repair" => job'[o].name # job'[q].name
              /\ \A o \in Requests :
                   job'[o].op = "mailbox" /\ pc'[o] = "record" => job'[o].id # job'[q].id
      BY <1>0, <2>0 DEF CreationsAlone, There, Live
    <3>1. pc[q] = pc'[q] /\ job'[q] = job[q] /\ job[q].id \in Ids
      BY <2>c
    <3>2. /\ Live(job[q].id) /\ row[job[q].id].boxes = {}
          /\ cluster[job[q].name].domain = "none"
          /\ \A o \in Requests : job[o].op = "repair" => job[o].name # job[q].name
          /\ \A o \in Requests :
               job[o].op = "mailbox" /\ pc[o] = "record" => job[o].id # job[q].id
      BY <3>1 DEF CreationsAlone, There
    <3>3. /\ \A o \in Requests : job'[o].op = "repair" => job'[o].name # job'[q].name
          /\ \A o \in Requests :
               job'[o].op = "mailbox" /\ pc'[o] = "record" => job'[o].id # job'[q].id
      BY <2>c, <3>1, <3>2
    <3>4. job[q].id # i
      BY <1>0, <1>1, <3>2
    <3> QED
      BY <2>1, <3>1, <3>2, <3>3, <3>4 DEF Live
  <2>11. RepairsLive'
    <3> SUFFICES ASSUME NEW q \in Requests, job'[q].op \in {"create", "repair"}
        PROVE /\ pc'[q] # "insert" /\ job'[q].name \notin loose
                   => /\ row'[job'[q].id].status \in Statuses /\ job'[q].id \in Ids
                      /\ \A o \in Requests : job'[o].op = "delete" => job'[o].id # job'[q].id
              /\ job'[q].op = "repair" /\ job'[q].id \in Ids /\ row'[job'[q].id].status \in Statuses
                   => job'[q].box \in row'[job'[q].id].boxes
      BY <2>0 DEF RepairsLive, Live
    <3>1. job'[q] = job[q] /\ pc'[q] = pc[q]
      BY <2>c
    <3> QED
      BY <2>1, <2>c, <3>1 DEF RepairsLive, Live
  <2>12. DeletionsClean'
    <3> SUFFICES ASSUME NEW q \in Requests, job'[q].op = "delete", pc'[q] = "record",
                        job'[q].id \in Ids, row'[job'[q].id].status \in Statuses,
                        job'[q].name \notin loose
        PROVE cluster[job'[q].name].domain = "none"
      BY <1>0, <2>0 DEF DeletionsClean, There, Live
    <3>1. pc[q] = "record" /\ job'[q] = job[q] /\ Live(job[q].id)
      BY <2>1, <2>c DEF Live
    <3> QED
      BY <3>1 DEF DeletionsClean, There
  <2>13. OrphansExplained'
    <3> SUFFICES ASSUME NEW n \in Names \ loose
        PROVE /\ cluster[n].domain # "none" => {j \in Ids : Live(j)' /\ row'[j].name = n} # {}
              /\ \A a \in cluster[n].accounts :
                   \/ \E q \in Requests : job'[q].op = "mailbox" /\ pc'[q] = "record"
                                            /\ job'[q].name = n /\ job'[q].box = a
                   \/ \E j \in {j \in Ids : Live(j)' /\ row'[j].name = n} : a \in row'[j].boxes
      BY <1>0, <2>0 DEF OrphansExplained
    <3>1. /\ cluster[n].domain # "none" => {j \in Ids : Live(j) /\ row[j].name = n} # {}
          /\ \A a \in cluster[n].accounts :
               \/ \E q \in Requests : job[q].op = "mailbox" /\ pc[q] = "record"
                                        /\ job[q].name = n /\ job[q].box = a
               \/ \E j \in {j \in Ids : Live(j) /\ row[j].name = n} : a \in row[j].boxes
      BY DEF OrphansExplained
    <3>2. {j \in Ids : Live(j)' /\ row'[j].name = n} = {j \in Ids : Live(j) /\ row[j].name = n}
      BY <2>1
    <3>3. job[p].name = n => b \in row'[i].boxes /\ i \in {j \in Ids : Live(j) /\ row[j].name = n}
      BY <1>1, <1>5, <2>1
    <3>4. \A q \in Requests \ {p} : job'[q] = job[q] /\ pc'[q] = pc[q]
      BY <1>3 DEF Onward
    <3>5. \A j \in Ids : row[j].boxes \subseteq row'[j].boxes
      BY <2>1
    <3>6. ASSUME NEW a \in cluster[n].accounts, NEW q \in Requests,
                 job[q].op = "mailbox", pc[q] = "record", job[q].name = n, job[q].box = a
          PROVE  \/ \E o \in Requests : job'[o].op = "mailbox" /\ pc'[o] = "record"
                                          /\ job'[o].name = n /\ job'[o].box = a
                 \/ \E j \in {j \in Ids : Live(j) /\ row[j].name = n} : a \in row'[j].boxes
      BY <1>2, <3>3, <3>4, <3>6
    <3> QED
      BY <3>1, <3>2, <3>5, <3>6
  <2> QED
    BY <2>3, <2>4, <2>5, <2>6, <2>7, <2>8, <2>9, <2>10, <2>11, <2>12, <2>13
<1> QED
  BY <1>4, <1>5

\* The row inserted is nobody else's, and the cluster has nothing of its name.
LEMMA InsertDomainKeeps ==
  ASSUME IndInv, NEW p \in Requests, InsertDomain(p)
  PROVE  IndInv'
<1> USE DEF IndInv
<1>0. /\ pc[p] = "insert" /\ job[p].op = "create" /\ job[p].name \in Names
      /\ job[p] \in JobType /\ UNCHANGED <<cluster, asked, vouched, loose>>
  BY JobFacts DEF InsertDomain, Places, JobType, JobOps, Toggles, BoxOps
<1>1. CASE Stop(p) /\ UNCHANGED row
  <2>1. Onward(p) /\ pc'[p] = "idle"
    BY <1>0, <1>1, StopOnward
  <2> QED
    BY <1>0, <1>1, <2>1, RestKeeps DEF TypeOK
<1>2. ASSUME NEW i \in Fresh, ~\E j \in Ids : Live(j) /\ row[j].name = job[p].name,
             row' = [row EXCEPT ![i] = [status |-> "provisioning",
                                        name |-> job[p].name, boxes |-> {}]],
             job' = [job EXCEPT ![p].id = i], pc' = [pc EXCEPT ![p] = "call"], UNCHANGED todo
      PROVE  IndInv'
  <2> PICK n \in Names : n = job[p].name
    BY <1>0
  <2>1. /\ i \in Ids /\ row[i].status = "absent" /\ ~Live(i) /\ Live(i)'
        /\ row'[i].status = "provisioning" /\ row'[i].name = n /\ row'[i].boxes = {}
        /\ \A j \in Ids \ {i} : row'[j] = row[j] /\ Live(j)' = Live(j)
    BY <1>2 DEF Fresh, TypeOK, Live, Statuses
  <2>2. row' \in [Ids -> RowType]
    <3>1. [status |-> "provisioning", name |-> job[p].name, boxes |-> {}] \in RowType
      BY <1>0 DEF RowType, Statuses
    <3> QED
      BY <1>2, <3>1 DEF TypeOK
  <2>3. /\ job' \in [Requests -> JobType \cup {NoJob}] /\ job'[p] \in JobType
        /\ job'[p].op = "create" /\ job'[p].id = i /\ job'[p].name = n
        /\ job'[p].status = job[p].status
        /\ \A q \in Requests \ {p} : job'[q] = job[q]
    <3> DEFINE r == [job[p] EXCEPT !.id = i]
    <3>1. r \in JobType /\ r.op = "create" /\ r.id = i /\ r.name = n
          /\ r.status = job[p].status
      BY <1>0, <2>1 DEF JobType
    <3>2. job'[p] = r /\ \A q \in Requests \ {p} : job'[q] = job[q]
      BY <1>2 DEF TypeOK
    <3>3. job' = [q \in Requests |-> job'[q]]
      BY <1>2 DEF TypeOK
    <3> HIDE DEF r
    <3>4. \A q \in Requests : job'[q] \in JobType \cup {NoJob}
      BY <3>1, <3>2 DEF TypeOK
    <3> QED
      BY <3>1, <3>2, <3>3, <3>4
  <2>4. pc'[p] = "call" /\ pc' \in [Requests -> Where]
        /\ \A q \in Requests \ {p} : pc'[q] = pc[q]
    BY <1>2 DEF TypeOK, Where, Calls
  <2>5. \A j \in Ids : Live(j) => j # i /\ row[j].name # n
    BY <1>2, <2>1
  <2>6. \A q \in Requests : pc[q] # "idle" /\ pc[q] # "insert" => job[q].id \in Ids \ {i}
    BY <2>1, JobFacts
  <2>7. \A m : DeletionAsked(m)' <=> DeletionAsked(m)
    <3>1. asked \subseteq Ids \ {i}
      BY <2>1 DEF AskedThere, TypeOK
    <3> QED
      BY <1>0, <2>1, <3>1 DEF DeletionAsked
  <2>8. \A q \in Requests : job'[q].op \notin {"none", "create"} =>
          /\ q # p /\ job'[q] = job[q] /\ pc'[q] = pc[q] /\ job[q].id \in Ids \ {i}
          /\ pc[q] # "insert" /\ row[job[q].id].name = job[q].name
    <3> SUFFICES ASSUME NEW q \in Requests, job'[q].op \notin {"none", "create"}
        PROVE  /\ q # p /\ job'[q] = job[q] /\ pc'[q] = pc[q] /\ job[q].id \in Ids \ {i}
               /\ pc[q] # "insert" /\ row[job[q].id].name = job[q].name
      OBVIOUS
    <3>1. q # p /\ job'[q] = job[q] /\ pc'[q] = pc[q] /\ pc[q] # "idle"
      BY <2>3, <2>4, JobFacts
    <3>2. pc[q] # "insert"
      BY <3>1, JobFacts DEF Places
    <3> QED
      BY <2>6, <3>1, <3>2, JobFacts
  <2>11. TypeOK'
    BY <1>0, <1>2, <2>2, <2>3, <2>4 DEF TypeOK, Where
  <2>12. RowsNamed'
    BY <2>1, <2>5 DEF RowsNamed
  <2>13. JobsSound'
    <3> SUFFICES ASSUME NEW q \in Requests
        PROVE IF pc'[q] = "idle" THEN job'[q] = NoJob
              ELSE /\ job'[q] \in JobType
                   /\ pc'[q] \in Places(job'[q].op)
                   /\ IF pc'[q] = "insert" THEN job'[q].id = NoId
                      ELSE /\ job'[q].id \in Ids
                           /\ row'[job'[q].id].status # "absent"
                           /\ row'[job'[q].id].name = job'[q].name
                   /\ job'[q].op = "delete" => job'[q].id \in asked'
                   /\ job'[q].op \in BoxOps => job'[q].box \in Boxes
                   /\ job'[q].op \notin {"delete", "check"}
                        => job'[q].status \in {"dns_pending", "suspended"}
                   /\ job'[q].op = "check" /\ pc'[q] = "record"
                        => job'[q].status \in {"dns_pending", "active"}
      BY DEF JobsSound
    <3>1. CASE q # p
      BY <1>0, <2>1, <2>3, <2>4, <2>6, <3>1 DEF JobsSound
    <3>2. CASE q = p
      BY <1>0, <2>1, <2>3, <2>4, <3>2 DEF Places, BoxOps, JobsSound
    <3> QED
      BY <3>1, <3>2
  <2>14. AskedThere'
    BY <1>0, <2>1 DEF AskedThere, TypeOK
  <2>15. CreationsApart'
    <3>1. ASSUME NEW q \in Requests \ {p}, job'[q].op = "create", pc'[q] # "insert"
          PROVE  job'[q] = job[q] /\ pc'[q] = pc[q] /\ job[q].id # i
      BY <2>3, <2>4, <2>6, <3>1, JobFacts
    <3> QED
      BY <2>3, <2>4, <3>1 DEF CreationsApart
  <2>16. ClusterSound'
    BY <1>0, <2>7 DEF ClusterSound
  <2>17. RecordsTrue'
    <3> SUFFICES ASSUME NEW q \in Requests, pc'[q] = "record", job'[q].op # "delete",
                        ~DeletionAsked(job'[q].name)
        PROVE /\ cluster[job'[q].name].domain # "none"
              /\ job'[q].op = "mailbox" => job'[q].box \in cluster[job'[q].name].accounts
      BY <1>0, <2>7 DEF RecordsTrue, There
    <3>1. pc[q] = "record" /\ job'[q] = job[q]
      BY <2>3, <2>4
    <3> QED
      BY <3>1 DEF RecordsTrue, There
  <2>18. DamageOnlyByDeletion'
    <3> SUFFICES ASSUME NEW j \in Ids, Live(j)', ~DeletionAsked(row'[j].name)
        PROVE /\ row'[j].status \in {"dns_pending", "active", "suspended"} /\ j \notin vouched
                   => cluster[row'[j].name].domain # "none"
              /\ cluster[row'[j].name].domain # "none" => cluster[row'[j].name].keys
              /\ row'[j].boxes \subseteq cluster[row'[j].name].accounts
      BY <1>0, <2>7 DEF DamageOnlyByDeletion
    <3>1. CASE j = i
      BY <2>1, <3>1 DEF ClusterSound
    <3>2. CASE j # i
      BY <2>1, <3>2 DEF DamageOnlyByDeletion
    <3> QED
      BY <3>1, <3>2
  <2>19. FailedLoose'
    BY <1>0, <2>1, <2>3, <2>4 DEF FailedLoose
  <2>20. CreationsAlone'
    <3> SUFFICES ASSUME NEW q \in Requests, job'[q].op = "create", pc'[q] \in {"call", "undo"},
                        job'[q].name \notin loose
        PROVE /\ job'[q].id \in Ids /\ row'[job'[q].id].status \in Statuses
              /\ row'[job'[q].id].boxes = {}
              /\ cluster[job'[q].name].domain = "none"
              /\ \A o \in Requests : job'[o].op = "repair" => job'[o].name # job'[q].name
              /\ \A o \in Requests :
                   job'[o].op = "mailbox" /\ pc'[o] = "record" => job'[o].id # job'[q].id
      BY <1>0 DEF CreationsAlone, There, Live
    <3>1. CASE q = p
      <4>1. n \notin loose
        BY <2>3, <3>1
      <4>2. cluster[n].domain = "none"
        BY <2>5, <4>1 DEF OrphansExplained
      <4>3. \A o \in Requests : job'[o].op = "repair" => job'[o].name # n
        BY <2>5, <2>8, <4>1 DEF RepairsLive
      <4>4. \A o \in Requests : job'[o].op = "mailbox" => job'[o].id # i
        BY <2>8
      <4> QED
        BY <2>1, <2>3, <3>1, <4>2, <4>3, <4>4 DEF Live
    <3>2. CASE q # p
      <4>1. pc[q] = pc'[q] /\ job'[q] = job[q] /\ job[q].id \in Ids \ {i}
        BY <2>3, <2>4, <2>6, <3>2, JobFacts
      <4>2. /\ Live(job[q].id) /\ row[job[q].id].boxes = {}
            /\ cluster[job[q].name].domain = "none"
            /\ \A o \in Requests : job[o].op = "repair" => job[o].name # job[q].name
            /\ \A o \in Requests :
                 job[o].op = "mailbox" /\ pc[o] = "record" => job[o].id # job[q].id
        BY <4>1 DEF CreationsAlone, There
      <4>3. /\ \A o \in Requests : job'[o].op = "repair" => job'[o].name # job'[q].name
            /\ \A o \in Requests :
                 job'[o].op = "mailbox" /\ pc'[o] = "record" => job'[o].id # job'[q].id
        BY <2>8, <4>1, <4>2
      <4> QED
        BY <2>1, <4>1, <4>2, <4>3 DEF Live
    <3> QED
      BY <3>1, <3>2
  <2>21. RepairsLive'
    <3> SUFFICES ASSUME NEW q \in Requests, job'[q].op \in {"create", "repair"}
        PROVE /\ pc'[q] # "insert" /\ job'[q].name \notin loose
                   => /\ row'[job'[q].id].status \in Statuses /\ job'[q].id \in Ids
                      /\ \A o \in Requests : job'[o].op = "delete" => job'[o].id # job'[q].id
              /\ job'[q].op = "repair" /\ job'[q].id \in Ids /\ row'[job'[q].id].status \in Statuses
                   => job'[q].box \in row'[job'[q].id].boxes
      BY <1>0 DEF RepairsLive, Live
    <3>1. CASE q = p
      BY <2>1, <2>3, <2>8, <3>1 DEF Live
    <3>2. CASE q # p
      <4>1. job'[q] = job[q] /\ pc'[q] = pc[q]
            /\ (pc[q] # "insert" => job[q].id \in Ids \ {i})
        BY <2>3, <2>4, <2>6, <3>2, JobFacts
      <4>2. job[q].op = "repair" => job[q].id \in Ids \ {i}
        BY <2>8, <4>1
      <4> QED
        BY <2>1, <2>8, <4>1, <4>2 DEF RepairsLive, Live
    <3> QED
      BY <3>1, <3>2
  <2>22. DeletionsClean'
    <3> SUFFICES ASSUME NEW q \in Requests, job'[q].op = "delete", pc'[q] = "record",
                        job'[q].id \in Ids, row'[job'[q].id].status \in Statuses,
                        job'[q].name \notin loose
        PROVE cluster[job'[q].name].domain = "none"
      BY <1>0 DEF DeletionsClean, There, Live
    <3>1. pc[q] = "record" /\ job'[q] = job[q] /\ job[q].id \in Ids \ {i}
      BY <2>8
    <3>2. Live(job[q].id)
      BY <2>1, <3>1 DEF Live
    <3> QED
      BY <3>1, <3>2 DEF DeletionsClean, There
  <2>23. OrphansExplained'
    <3> SUFFICES ASSUME NEW m \in Names \ loose
        PROVE /\ cluster[m].domain # "none" => {j \in Ids : Live(j)' /\ row'[j].name = m} # {}
              /\ \A a \in cluster[m].accounts :
                   \/ \E q \in Requests : job'[q].op = "mailbox" /\ pc'[q] = "record"
                                            /\ job'[q].name = m /\ job'[q].box = a
                   \/ \E j \in {j \in Ids : Live(j)' /\ row'[j].name = m} : a \in row'[j].boxes
      BY <1>0 DEF OrphansExplained
    <3>1. /\ cluster[m].domain # "none" => {j \in Ids : Live(j) /\ row[j].name = m} # {}
          /\ \A a \in cluster[m].accounts :
               \/ \E q \in Requests : job[q].op = "mailbox" /\ pc[q] = "record"
                                        /\ job[q].name = m /\ job[q].box = a
               \/ \E j \in {j \in Ids : Live(j) /\ row[j].name = m} : a \in row[j].boxes
      BY DEF OrphansExplained
    <3>2. \A j \in Ids : Live(j) => Live(j)' /\ row'[j] = row[j]
      BY <2>1
    <3>3. \A q \in Requests : job[q].op = "mailbox" => job'[q] = job[q] /\ pc'[q] = pc[q]
      BY <1>0, <2>3, <2>4
    <3> QED
      BY <3>1, <3>2, <3>3
  <2> QED
    BY <2>11, <2>12, <2>13, <2>14, <2>15, <2>16, <2>17, <2>18, <2>19, <2>20, <2>21, <2>22, <2>23
<1> QED
  BY <1>0, <1>1, <1>2 DEF InsertDomain

-----------------------------------------------------------------------------
(* Calls that reach the cluster.                                           *)

\* What the cluster does to the domain, by the kind of call.
Provides(p) ==
  /\ pc[p] = "call" /\ job[p].op \in {"create", "repair"}
  /\ After(p) = IF There(p).domain = "none" THEN NewDomain ELSE There(p)

Looks(p) ==
  /\ pc[p] = "call" /\ job[p].op \in Toggles \cup {"check"}
  /\ There(p).domain # "none" /\ After(p).domain # "none"
  /\ After(p).keys = There(p).keys /\ After(p).accounts = There(p).accounts

Fills(p) ==
  /\ \/ pc[p] = "call" /\ job[p].op = "mailbox"
     \/ pc[p] = "box" /\ job[p].op = "repair"
  /\ There(p).domain # "none" /\ After(p).domain = There(p).domain
  /\ After(p).keys = There(p).keys /\ After(p).accounts = There(p).accounts \cup {job[p].box}

Takes(p) ==
  /\ pc[p] \in {"account", "keys", "domain"} /\ job[p].op = "delete"
  /\ After(p).accounts \subseteq There(p).accounts
  /\ \/ After(p).domain = There(p).domain
     \/ After(p).domain = "none" /\ After(p).accounts = {}
  /\ pc[p] = "domain" => After(p).domain = "none"

LEMMA AfterEffect ==
  ASSUME TypeOK, JobsSound, NEW p \in Requests, pc[p] \in Calls, Allowed(p)
  PROVE  /\ After(p) \in ClusterType
         /\ Provides(p) \/ Looks(p) \/ Fills(p) \/ Takes(p)
<1>0. /\ pc[p] \in Places(job[p].op) /\ job[p].name \in Names /\ job[p] \in JobType
      /\ job[p].op \in BoxOps => job[p].box \in Boxes
  BY JobFacts DEF Calls, JobsSound, JobType
<1>1. There(p) \in ClusterType
  BY <1>0 DEF There, TypeOK
<1>2. job[p].op \in JobOps
  BY <1>0 DEF JobType
<1>3. CASE pc[p] = "call" /\ job[p].op \in {"create", "repair"}
  <2>1. After(p) = IF There(p).domain = "none" THEN NewDomain ELSE There(p)
    BY <1>3 DEF After
  <2>2. NewDomain \in ClusterType
    BY DEF NewDomain, ClusterType
  <2> QED
    BY <1>1, <1>3, <2>1, <2>2 DEF Provides
<1>4. CASE pc[p] = "call" /\ job[p].op \in Toggles
  <2>1. There(p).domain # "none"
    BY <1>4 DEF Allowed, Toggles
  <2>2. After(p) = [There(p) EXCEPT !.domain = IF job[p].op = "deactivate" THEN "disabled"
                                               ELSE "enabled"]
    BY <1>1, <1>4 DEF After, Toggles, ClusterType
  <2> QED
    BY <1>1, <1>4, <2>1, <2>2 DEF Looks, ClusterType
<1>5. CASE pc[p] = "call" /\ job[p].op = "check"
  <2>1. There(p).domain # "none"
    BY <1>5 DEF Allowed
  <2>2. After(p) = There(p)
    BY <1>5 DEF After
  <2> QED
    BY <1>1, <1>5, <2>1, <2>2 DEF Looks
<1>6. CASE (pc[p] = "call" /\ job[p].op = "mailbox") \/ pc[p] = "box"
  <2>1. There(p).domain # "none"
    BY <1>6 DEF Allowed
  <2>2. After(p) = [There(p) EXCEPT !.accounts = @ \cup {job[p].box}]
    BY <1>6 DEF After
  <2>3. pc[p] = "box" => job[p].op = "repair"
    BY <1>0, <1>2 DEF Places, JobOps, Toggles, BoxOps
  <2>4. job[p].box \in Boxes
    BY <1>0, <1>6, <2>3 DEF BoxOps
  <2> QED
    BY <1>1, <1>6, <2>1, <2>2, <2>3, <2>4 DEF Fills, ClusterType
<1>7. CASE pc[p] \in {"account", "keys", "domain"}
  <2>1. job[p].op = "delete"
    BY <1>0, <1>2, <1>7 DEF Places, JobOps, Toggles, BoxOps
  <2>2. CASE pc[p] = "account"
    <3>1. After(p) = [There(p) EXCEPT !.accounts = @ \ {job[p].box}]
      BY <2>2 DEF After
    <3> QED
      BY <1>1, <2>1, <2>2, <3>1 DEF Takes, ClusterType
  <2>3. CASE pc[p] = "keys"
    <3>1. After(p) = [There(p) EXCEPT !.keys = FALSE]
      BY <2>3 DEF After
    <3> QED
      BY <1>1, <2>1, <2>3, <3>1 DEF Takes, ClusterType
  <2>4. CASE pc[p] = "domain"
    <3>1. After(p) = NoDomain
      BY <2>4 DEF After
    <3> QED
      BY <2>1, <2>4, <3>1 DEF Takes, ClusterType, NoDomain
  <2> QED
    BY <1>7, <2>2, <2>3, <2>4
<1>8. job[p].op # "delete" \/ pc[p] # "call"
  BY <1>0 DEF Places
<1> QED
  BY <1>2, <1>3, <1>4, <1>5, <1>6, <1>7, <1>8 DEF Calls, JobOps, BoxOps

\* A call that the cluster carries out keeps the invariant, whether its answer
\* arrives or its name is loose from then on.
LEMMA CalledKeeps ==
  ASSUME IndInv, NEW p \in Requests, pc[p] \in Calls, Allowed(p), Onward(p),
         cluster' = [cluster EXCEPT ![job[p].name] = After(p)], row' = row,
         loose \subseteq loose', loose' \subseteq Names,
         pc'[p] \notin {"call", "mark"},
         pc'[p] = "undo" => job[p].name \in loose',
         pc'[p] = "record" /\ job[p].op = "delete" => After(p).domain = "none",
         pc'[p] = "record" /\ job[p].op # "delete" => pc[p] = "call",
         job[p].op = "mailbox" => pc'[p] = "record" \/ job[p].name \in loose'
  PROVE  IndInv'
<1> USE DEF IndInv
<1>0. RowsStay /\ \A i : Live(i)' = Live(i)
  BY DEF RowsStay, Live
<1>1. PICK n \in Names : n = job[p].name
  BY JobFacts DEF Calls, JobType
<1>2. PICK t \in ClusterType : t = There(p) /\ t = cluster[n]
  BY <1>1 DEF There, TypeOK
<1>3. PICK a \in ClusterType : a = After(p) /\ a = cluster'[n]
  BY <1>1, AfterEffect DEF TypeOK
<1>4. \A m \in Names : m # n => cluster'[m] = cluster[m]
  BY <1>1 DEF TypeOK
<1>5. /\ pc[p] # "idle" /\ pc[p] # "insert" /\ pc[p] # "record"
      /\ job[p].id \in Ids /\ row[job[p].id].name = n
      /\ job[p].op = "delete" => job[p].id \in asked
  BY <1>1, JobFacts DEF Calls, JobsSound
\* The kinds of calls.
<1>6. \/ job[p].op \in {"create", "repair"} /\ pc[p] = "call"
           /\ a = (IF t.domain = "none" THEN NewDomain ELSE t)
      \/ job[p].op \in Toggles \cup {"check"} /\ t.domain # "none" /\ a.domain # "none"
           /\ a.keys = t.keys /\ a.accounts = t.accounts
      \/ job[p].op \in BoxOps /\ t.domain # "none" /\ a.domain = t.domain
           /\ a.keys = t.keys /\ a.accounts = t.accounts \cup {job[p].box}
      \/ job[p].op = "delete" /\ a.accounts \subseteq t.accounts
           /\ (a.domain = t.domain \/ (a.domain = "none" /\ a.accounts = {}))
  BY <1>2, <1>3, AfterEffect DEF Provides, Looks, Fills, Takes, BoxOps
<1>7. job[p].op = "delete" => DeletionAsked(n)
  BY <1>5 DEF DeletionAsked
<1>8. t.domain = "none" => t.accounts = {}
  BY <1>2 DEF ClusterSound
\* Except for a deletion, nothing is taken from the cluster.
<1>9. ~DeletionAsked(n) =>
        /\ t.domain # "none" => a.domain # "none" /\ (t.keys => a.keys)
        /\ a.domain # "none" => a.keys
        /\ t.accounts \subseteq a.accounts
  BY <1>2, <1>6, <1>7, <1>8 DEF NewDomain, ClusterSound
<1>a. \A m : DeletionAsked(m)' <=> DeletionAsked(m)
  BY <1>0, OnwardKeepsAsked
<1>b. ASSUME NEW q \in Requests, job'[q].op # "none"
      PROVE  /\ job'[q].op = job[q].op /\ job'[q].id = job[q].id /\ job'[q].name = job[q].name
             /\ job'[q].op \in BoxOps => job'[q].box = job[q].box
             /\ pc'[q] # "insert" => pc[q] # "insert"
             /\ q # p => pc'[q] = pc[q] /\ job'[q] = job[q]
             /\ job[q].name \in Names
  BY <1>b, JobFacts DEF Onward, GoesOn, NoJob
\* A creation or repair has its live row, which nobody deletes.
<1>c. n \notin loose /\ job[p].op \in {"create", "repair"} =>
        /\ Live(job[p].id)
        /\ \A q \in Requests : job[q].op = "delete" => job[q].id # job[p].id
  BY <1>1, <1>5 DEF RepairsLive
<1>d. \A q \in Requests : pc[q] # "idle" /\ pc[q] # "insert" =>
        job[q].id \in Ids /\ row[job[q].id].name = job[q].name
  BY JobFacts
<1>11. TypeOK'
  <2>1. cluster' \in [Names -> ClusterType]
    BY <1>1, <1>3 DEF TypeOK
  <2> QED
    BY <2>1 DEF TypeOK, Onward, Where
<1>12. RowsNamed'
  BY <1>0 DEF RowsNamed
<1>13. JobsSound' /\ CreationsApart' /\ AskedThere'
  BY <1>0, OnwardKeepsJobs, OnwardKeepsApart, OnwardKeepsAsked
<1>14. ClusterSound'
  <2> SUFFICES ASSUME NEW m \in Names
      PROVE /\ cluster'[m].domain = "none" => cluster'[m].accounts = {}
            /\ cluster'[m].domain # "none" /\ ~DeletionAsked(m) => cluster'[m].keys
    BY <1>a DEF ClusterSound
  <2>1. CASE m # n
    BY <1>4, <2>1 DEF ClusterSound
  <2>2. a.domain = "none" => a.accounts = {}
    BY <1>6, <1>8 DEF NewDomain
  <2> QED
    BY <1>3, <1>9, <2>1, <2>2
<1>15. RecordsTrue'
  <2> SUFFICES ASSUME NEW q \in Requests, pc'[q] = "record", job'[q].op # "delete",
                      ~DeletionAsked(job'[q].name)
      PROVE /\ cluster'[job'[q].name].domain # "none"
            /\ job'[q].op = "mailbox" => job'[q].box \in cluster'[job'[q].name].accounts
    BY <1>a DEF RecordsTrue, There
  <2>0. job'[q].op # "none" /\ job'[q].name = job[q].name /\ job[q].op # "delete"
    <3>1. pc'[q] # "idle"
      OBVIOUS
    <3>2. job'[q] \in JobType
      BY <1>13, <3>1 DEF JobsSound
    <3> QED
      BY <1>b, <3>2 DEF JobType, JobOps, Toggles, BoxOps
  <2>1. CASE q # p
    <3>1. job'[q] = job[q] /\ pc[q] = "record"
      BY <1>b, <2>0, <2>1
    <3>2. /\ cluster[job[q].name].domain # "none"
          /\ job[q].op = "mailbox" => job[q].box \in cluster[job[q].name].accounts
      BY <3>1 DEF RecordsTrue, There
    <3> QED
      BY <1>2, <1>3, <1>4, <1>9, <1>b, <2>0, <3>1, <3>2
  <2>2. CASE q = p
    <3>1. pc[p] = "call" /\ job'[p].name = n /\ job[p].op # "delete" /\ job'[p].op = job[p].op
      BY <1>1, <1>b, <2>0, <2>2
    <3>2. a.domain # "none" /\ (job[p].op = "mailbox" => job'[p].box \in a.accounts)
      BY <1>6, <1>b, <2>0, <2>2, <3>1 DEF NewDomain, BoxOps, Toggles
    <3> QED
      BY <1>3, <2>2, <3>1, <3>2
  <2> QED
    BY <2>1, <2>2
<1>16. DamageOnlyByDeletion'
  <2> SUFFICES ASSUME NEW i \in Ids, Live(i), ~DeletionAsked(row[i].name)
      PROVE /\ row[i].status \in {"dns_pending", "active", "suspended"} /\ i \notin vouched
                 => cluster'[row[i].name].domain # "none"
            /\ cluster'[row[i].name].domain # "none" => cluster'[row[i].name].keys
            /\ row[i].boxes \subseteq cluster'[row[i].name].accounts
    BY <1>0, <1>a DEF DamageOnlyByDeletion, Onward
  <2>1. /\ row[i].status \in {"dns_pending", "active", "suspended"} /\ i \notin vouched
             => cluster[row[i].name].domain # "none"
        /\ cluster[row[i].name].domain # "none" => cluster[row[i].name].keys
        /\ row[i].boxes \subseteq cluster[row[i].name].accounts
    BY DEF DamageOnlyByDeletion
  <2>2. row[i].name \in Names
    BY LiveNamed
  <2>3. CASE row[i].name # n
    BY <1>4, <2>1, <2>2, <2>3
  <2>4. CASE row[i].name = n
    BY <1>2, <1>3, <1>9, <2>1, <2>4
  <2> QED
    BY <2>3, <2>4
<1>17. FailedLoose'
  BY DEF FailedLoose, Onward, GoesOn
<1>18. CreationsAlone'
  <2> SUFFICES ASSUME NEW q \in Requests, job'[q].op = "create", pc'[q] \in {"call", "undo"},
                      job'[q].name \notin loose'
      PROVE /\ Live(job'[q].id) /\ row[job'[q].id].boxes = {}
            /\ cluster'[job'[q].name].domain = "none"
            /\ \A o \in Requests : job'[o].op = "repair" => job'[o].name # job'[q].name
            /\ \A o \in Requests :
                 job'[o].op = "mailbox" /\ pc'[o] = "record" => job'[o].id # job'[q].id
    BY <1>0 DEF CreationsAlone, There, Live
  <2>1. q # p /\ job'[q] = job[q] /\ pc'[q] = pc[q] /\ job[q].name \notin loose
        /\ job[q].name \in Names
    BY <1>1, <1>b
  <2>2. /\ Live(job[q].id) /\ row[job[q].id].boxes = {} /\ row[job[q].id].name = job[q].name
        /\ cluster[job[q].name].domain = "none"
        /\ \A o \in Requests : job[o].op = "repair" => job[o].name # job[q].name
        /\ \A o \in Requests :
             job[o].op = "mailbox" /\ pc[o] = "record" => job[o].id # job[q].id
    BY <1>d, <2>1 DEF CreationsAlone, There
  <2>3. CASE job[q].name # n
    <3>1. job[q].id # job[p].id
      BY <1>5, <2>2, <2>3
    <3>2. ASSUME NEW o \in Requests
          PROVE  /\ job'[o].op = "repair" => job'[o].name # job[q].name
                 /\ job'[o].op = "mailbox" /\ pc'[o] = "record" => job'[o].id # job[q].id
      <4>1. CASE o = p
        BY <1>1, <1>b, <2>3, <3>1, <4>1
      <4>2. CASE o # p
        BY <1>b, <2>2, <4>2
      <4> QED
        BY <4>1, <4>2
    <3> QED
      BY <1>4, <2>1, <2>2, <2>3, <3>2
  <2>4. CASE job[q].name = n
    <3>1. t.domain = "none"
      BY <1>2, <2>2, <2>4
    <3>2. job[p].op \notin {"create", "repair"}
      <4>1. job[p].op # "repair"
        BY <1>1, <2>2, <2>4
      <4>2. job[p].op = "create" => job[p].id = job[q].id
        BY <1>5, <1>c, <2>1, <2>2, <2>4 DEF RowsNamed, Live
      <4>3. pc[q] # "insert"
        BY <2>1
      <4> QED
        BY <1>5, <2>1, <4>1, <4>2, <4>3 DEF CreationsApart
    <3>3. job[p].op = "delete" /\ a.domain = "none"
      BY <1>6, <3>1, <3>2
    <3>4. ASSUME NEW o \in Requests
          PROVE  /\ job'[o].op = "repair" => job'[o].name # job[q].name
                 /\ job'[o].op = "mailbox" /\ pc'[o] = "record" => job'[o].id # job[q].id
      BY <1>b, <2>2, <3>3
    <3> QED
      BY <1>3, <2>1, <2>2, <2>4, <3>3, <3>4
  <2> QED
    BY <2>3, <2>4
<1>19. RepairsLive'
  <2> SUFFICES ASSUME NEW q \in Requests, job'[q].op # "none"
      PROVE /\ job'[q].op \in {"create", "repair"} /\ pc'[q] # "insert" /\ job'[q].name \notin loose'
                 => /\ Live(job'[q].id)
                    /\ \A o \in Requests : job'[o].op = "delete" => job'[o].id # job'[q].id
            /\ job'[q].op = "repair" /\ Live(job'[q].id) => job'[q].box \in row[job'[q].id].boxes
    BY <1>0 DEF RepairsLive, Live
  <2> QED
    BY <1>b DEF RepairsLive, BoxOps
<1>20. DeletionsClean'
  <2> SUFFICES ASSUME NEW q \in Requests, job'[q].op = "delete", pc'[q] = "record",
                      Live(job'[q].id), job'[q].name \notin loose'
      PROVE cluster'[job'[q].name].domain = "none"
    BY <1>0 DEF DeletionsClean, There, Live
  <2>1. CASE q = p
    BY <1>1, <1>3, <1>b, <2>1
  <2>2. CASE q # p
    <3>1. /\ job'[q] = job[q] /\ pc[q] = "record" /\ cluster[job[q].name].domain = "none"
          /\ job[q].name \notin loose /\ job[q].name \in Names
          /\ row[job[q].id].name = job[q].name
      BY <1>b, <1>d, <2>2 DEF DeletionsClean, There
    <3>2. CASE job[q].name # n
      BY <1>4, <3>1, <3>2
    <3>3. CASE job[q].name = n
      <4>1. job[p].op \notin {"create", "repair"}
        BY <1>5, <1>c, <3>1, <3>3 DEF RowsNamed, Live
      <4>2. t.domain = "none"
        BY <1>2, <3>1, <3>3
      <4> QED
        BY <1>3, <1>6, <3>1, <3>3, <4>1, <4>2
    <3> QED
      BY <3>2, <3>3
  <2> QED
    BY <2>1, <2>2
<1>21. OrphansExplained'
  <2> SUFFICES ASSUME NEW m \in Names \ loose'
      PROVE /\ cluster'[m].domain # "none" => {i \in Ids : Live(i) /\ row[i].name = m} # {}
            /\ \A b \in cluster'[m].accounts :
                 \/ \E q \in Requests : job'[q].op = "mailbox" /\ pc'[q] = "record"
                                          /\ job'[q].name = m /\ job'[q].box = b
                 \/ \E i \in {i \in Ids : Live(i) /\ row[i].name = m} : b \in row[i].boxes
    BY <1>0 DEF OrphansExplained
  <2>1. /\ cluster[m].domain # "none" => {i \in Ids : Live(i) /\ row[i].name = m} # {}
        /\ \A b \in cluster[m].accounts :
             \/ \E q \in Requests : job[q].op = "mailbox" /\ pc[q] = "record"
                                      /\ job[q].name = m /\ job[q].box = b
             \/ \E i \in {i \in Ids : Live(i) /\ row[i].name = m} : b \in row[i].boxes
    BY DEF OrphansExplained
  <2>2. \A q \in Requests : pc[q] = "record" => job'[q] = job[q] /\ pc'[q] = pc[q]
    BY <1>5 DEF Onward
  <2>3. CASE m # n
    BY <1>4, <2>1, <2>2, <2>3
  <2>4. CASE m = n
    <3>1. n \notin loose /\ job[p].op \in {"create", "repair"}
            => job[p].id \in {i \in Ids : Live(i) /\ row[i].name = n}
      BY <1>5, <1>c
    <3>2. a.domain # "none" => {i \in Ids : Live(i) /\ row[i].name = n} # {}
      BY <1>2, <1>6, <2>1, <2>4, <3>1
    <3>3. ASSUME NEW b \in a.accounts, b \notin t.accounts
          PROVE  \/ \E q \in Requests : job'[q].op = "mailbox" /\ pc'[q] = "record"
                                          /\ job'[q].name = n /\ job'[q].box = b
                 \/ \E i \in {i \in Ids : Live(i) /\ row[i].name = n} : b \in row[i].boxes
      <4>1. job[p].op \in BoxOps /\ b = job[p].box
        BY <1>6, <3>3 DEF NewDomain, BoxOps
      <4>2. CASE job[p].op = "repair"
        BY <3>1, <2>4, <4>1, <4>2 DEF RepairsLive
      <4>3. CASE job[p].op = "mailbox"
        <5>1. pc'[p] = "record"
          BY <1>1, <2>4, <4>3
        <5>2. job'[p].op = "mailbox" /\ job'[p].name = n /\ job'[p].box = b
          BY <1>1, <4>1, <4>3, <5>1 DEF Onward, GoesOn
        <5> QED
          BY <5>1, <5>2
      <4> QED
        BY <4>1, <4>2, <4>3 DEF BoxOps
    <3> QED
      BY <1>2, <1>3, <2>1, <2>2, <2>4, <3>2, <3>3
  <2> QED
    BY <2>3, <2>4
<1> QED
  BY <1>11, <1>12, <1>13, <1>14, <1>15, <1>16, <1>17, <1>18, <1>19, <1>20, <1>21

LEMMA CheckedOnward ==
  ASSUME TypeOK, JobsSound, NEW p \in Requests, pc[p] = "call", job[p].op = "check",
         NEW published \in BOOLEAN, Checked(p, published), UNCHANGED <<asked, vouched>>
  PROVE  Onward(p) /\ pc'[p] \in {"idle", "record"}
<1>0. job[p] \in JobType
  BY JobFacts
<1>1. CASE Stop(p)
  BY <1>1, StopOnward
<1>2. CASE /\ pc' = [pc EXCEPT ![p] = "record"]
           /\ job' = [job EXCEPT ![p].status = IF published THEN "active" ELSE "dns_pending"]
           /\ UNCHANGED todo
  <2> DEFINE r == [job[p] EXCEPT !.status = IF published THEN "active" ELSE "dns_pending"]
  <2>1. /\ r \in JobType /\ r.op = job[p].op /\ r.id = job[p].id /\ r.name = job[p].name
        /\ r.status \in {"dns_pending", "active"}
    BY <1>0 DEF JobType, Statuses
  <2>2. job'[p] = r /\ \A q \in Requests \ {p} : job'[q] = job[q]
    BY <1>2 DEF TypeOK
  <2>3. job' = [q \in Requests |-> job'[q]]
    BY <1>2 DEF TypeOK
  <2> HIDE DEF r
  <2>4. \A q \in Requests : job'[q] \in JobType \cup {NoJob}
    BY <2>1, <2>2 DEF TypeOK
  <2>5. job' \in [Requests -> JobType \cup {NoJob}]
    BY <2>3, <2>4
  <2>6. /\ pc' \in [Requests -> Where] /\ pc'[p] = "record"
        /\ todo' \in [Requests -> SUBSET Boxes]
        /\ \A q \in Requests \ {p} : pc'[q] = pc[q]
    BY <1>2 DEF TypeOK, Where, Calls
  <2>7. "record" \in Places("check") \ {"insert"} /\ "check" \notin BoxOps
    BY DEF Places, BoxOps
  <2> QED
    BY <2>1, <2>2, <2>5, <2>6, <2>7 DEF Onward, GoesOn
<1> QED
  BY <1>1, <1>2 DEF Checked

\* A request whose call succeeded goes on to the next.
LEMMA ForwardOnward ==
  ASSUME TypeOK, JobsSound, NEW p \in Requests, pc[p] \in Calls, Allowed(p), Forward(p),
         UNCHANGED <<asked, vouched>>
  PROVE  /\ Onward(p) /\ pc'[p] \notin {"call", "mark", "undo"}
         /\ pc'[p] = "record" /\ job[p].op = "delete" => After(p).domain = "none"
         /\ pc'[p] = "record" /\ job[p].op # "delete" => pc[p] = "call"
         /\ job[p].op = "mailbox" => pc'[p] = "record"
<1>0. /\ pc[p] # "idle" /\ pc[p] # "insert" /\ pc[p] \in Places(job[p].op)
      /\ job[p] \in JobType /\ job[p].op \in JobOps
  BY JobFacts DEF Calls, JobType
<1>1. pc[p] \in {"account", "keys", "domain"} => job[p].op = "delete"
  BY <1>0 DEF Places, JobOps, Toggles, BoxOps
<1>2. CASE pc[p] = "account"
  <2>1. todo[p] \in SUBSET Boxes /\ NextAccount(p, todo[p])
    BY <1>2 DEF TypeOK, Forward
  <2> QED
    BY <1>0, <1>1, <1>2, <2>1, NextAccountOnward
<1>3. CASE pc[p] = "keys"
  <2> DEFINE l == IF There(p).domain = "none" THEN "record" ELSE "domain"
  <2>1. Goto(p, l) /\ l \in Places("delete") \ {"insert"}
    BY <1>3 DEF Forward, Places
  <2>2. Onward(p) /\ pc'[p] = l
    BY <1>0, <1>1, <1>3, <2>1, GotoOnward
  <2>3. There(p).domain = "none" => After(p).domain = "none"
    BY <1>0, <1>3, AfterEffect DEF Provides, Looks, Fills, Takes
  <2> QED
    BY <1>1, <1>3, <2>2, <2>3
<1>4. CASE pc[p] = "box"
  <2>1. Stop(p) /\ job[p].op = "repair"
    BY <1>0, <1>4 DEF Forward, Places, JobOps, Toggles, BoxOps
  <2> QED
    BY <1>0, <2>1, StopOnward
<1>5. CASE pc[p] = "call" /\ job[p].op = "check"
  <2>1. PICK published \in BOOLEAN : Checked(p, published)
    BY <1>5 DEF Forward
  <2> QED
    BY <1>5, <2>1, CheckedOnward
<1>6. CASE pc[p] = "call" /\ job[p].op = "repair" /\ There(p).domain # "none"
  <2>1. Goto(p, "box") /\ "box" \in Places("repair") \ {"insert"}
    BY <1>6 DEF Forward, Places
  <2> QED
    BY <1>0, <1>6, <2>1, GotoOnward
<1>7. CASE pc[p] = "call" /\ job[p].op # "check"
           /\ ~(job[p].op = "repair" /\ There(p).domain # "none")
  <2>1. Goto(p, "record")
    BY <1>7 DEF Forward
  <2>2. "record" \in Places(job[p].op) \ {"insert"} /\ job[p].op # "delete"
    BY <1>0, <1>7 DEF Places
  <2> QED
    BY <1>0, <1>7, <2>1, <2>2, GotoOnward
<1>8. CASE pc[p] = "domain"
  <2>1. Goto(p, "record") /\ "record" \in Places("delete") \ {"insert"}
    BY <1>8 DEF Forward, Places
  <2>2. After(p).domain = "none"
    BY <1>8 DEF After, NoDomain
  <2> QED
    BY <1>0, <1>1, <1>8, <2>1, <2>2, GotoOnward
<1> QED
  BY <1>2, <1>3, <1>4, <1>5, <1>6, <1>7, <1>8 DEF Calls

LEMMA CallKeeps ==
  ASSUME IndInv, NEW p \in Requests, Call(p)
  PROVE  IndInv'
<1>1. CASE Allowed(p)
  <2>1. /\ Onward(p) /\ pc'[p] \notin {"call", "mark", "undo"}
        /\ pc'[p] = "record" /\ job[p].op = "delete" => After(p).domain = "none"
        /\ pc'[p] = "record" /\ job[p].op # "delete" => pc[p] = "call"
        /\ job[p].op = "mailbox" => pc'[p] = "record"
    BY <1>1, ForwardOnward DEF Call, IndInv
  <2> QED
    BY <1>1, <2>1, CalledKeeps DEF Call, IndInv, TypeOK
<1>2. CASE ~Allowed(p)
  BY <1>2, GiveUpKeeps DEF Call
<1> QED
  BY <1>1, <1>2

LEMMA AnswerLostKeeps ==
  ASSUME IndInv, NEW p \in Requests, AnswerLost(p)
  PROVE  IndInv'
<1> USE DEF IndInv
<1>0. /\ pc[p] # "idle" /\ pc[p] # "insert" /\ pc[p] \in Places(job[p].op)
      /\ job[p].name \in Names
  BY JobFacts DEF Calls, AnswerLost, JobType
<1>1. Onward(p) /\ pc'[p] \in {"idle", "undo"}
  <2>1. CASE Goto(p, "undo") /\ job[p].op = "create"
    BY <1>0, <2>1, GotoOnward DEF AnswerLost, Places
  <2>2. CASE Stop(p)
    BY <1>0, <2>2, StopOnward DEF AnswerLost
  <2> QED
    BY <2>1, <2>2 DEF AnswerLost, GiveUp
<1>2. loose \subseteq loose' /\ loose' \subseteq Names /\ job[p].name \in loose'
  BY <1>0 DEF AnswerLost, TypeOK
<1> QED
  BY <1>1, <1>2, CalledKeeps DEF AnswerLost

-----------------------------------------------------------------------------
(* The specification.                                                      *)

LEMMA NextKeeps == IndInv /\ [Next]_vars => IndInv'
<1> SUFFICES ASSUME IndInv, [Next]_vars PROVE IndInv'
  OBVIOUS
<1>1. CASE UNCHANGED vars
  BY <1>1 DEF IndInv, TypeOK, RowsNamed, JobsSound, AskedThere, ClusterSound, RecordsTrue,
              DamageOnlyByDeletion, FailedLoose, CreationsApart, CreationsAlone, RepairsLive,
              DeletionsClean, OrphansExplained, DeletionAsked, There, Live, vars
<1>2. ASSUME NEW p \in Requests, NEW n \in Names, BeginCreate(p, n) PROVE IndInv'
  BY <1>2, BeginCreateKeeps
<1>3. ASSUME NEW p \in Requests, NEW i \in Ids,
             \/ BeginDelete(p, i)
             \/ \E op \in Ops : BeginChange(p, op, i)
             \/ \E op \in Ops, b \in Boxes : BeginBox(p, op, i, b)
      PROVE  IndInv'
  BY <1>3, BeginDeleteKeeps, BeginChangeKeeps, BeginBoxKeeps
<1>4. ASSUME NEW p \in Requests,
             InsertDomain(p) \/ ListBoxes(p) \/ Call(p) \/ CallFails(p) \/ AnswerLost(p)
      PROVE  IndInv'
  BY <1>4, InsertDomainKeeps, ListBoxesKeeps, CallKeeps, CallFailsKeeps, AnswerLostKeeps
<1>5. ASSUME NEW p \in Requests,
             \/ RecordStatus(p) \/ RecordBox(p) \/ RecordDelete(p)
             \/ Undo(p) \/ MarkFailed(p) \/ RecordFails(p) \/ Crash(p)
      PROVE  IndInv'
  BY <1>5, RecordStatusKeeps, RecordBoxKeeps, RecordDeleteKeeps, UndoKeeps, MarkFailedKeeps,
     RecordFailsKeeps, CrashKeeps
<1>6. ASSUME NEW i \in Ids, Verify(i) PROVE IndInv'
  BY <1>6, VerifyKeeps
<1> QED
  BY <1>1, <1>2, <1>3, <1>4, <1>5, <1>6 DEF Next, Step

\* Types, and what the two properties below rest on, hold in every state.
THEOREM IndInvCorrect == Spec => []IndInv
BY InitHolds, NextKeeps, PTL DEF Spec

\* Whatever requests run beside each other and whatever fails, only the deletion of
\* a domain of its name takes from a domain on record what it has in the cluster
\* (CreateDomain, DeleteDomain, createMailbox, repairMailbox).
THEOREM DamageOnlyByDeletionCorrect == Spec => []DamageOnlyByDeletion
BY IndInvCorrect, PTL DEF IndInv

\* What the cluster keeps that no row accounts for was left by an operation that
\* stopped half way, or a creation or repair beside a deletion (DeleteDomain,
\* CreateDomain's undoing, repairMailbox).
THEOREM OrphansExplainedCorrect == Spec => []OrphansExplained
BY IndInvCorrect, PTL DEF IndInv
=============================================================================
