-------------------------- MODULE MailboxesProofs --------------------------
(***************************************************************************)
(* What holds of Mailboxes for any number of mailboxes, names, requests    *)
(* and sweeps, whatever fails: the records and the cluster drift apart in  *)
(* no other way than LostOnlyByDeletion and InStep say, and the plan is    *)
(* exceeded by no more than PlanOvershoot says.  And of PasswordReset,     *)
(* which works on the same mailboxes: how often a link sets a password,    *)
(* and whose.                                                              *)
(***************************************************************************)
EXTENDS PasswordReset, FiniteSetTheorems, TLAPS

-----------------------------------------------------------------------------
(* Counting.                                                               *)

LEMMA FiniteCounts ==
  /\ IsFiniteSet(Counted) /\ IsFiniteSet(CreatingCounted)
  /\ Cardinality(Counted) \in Nat /\ Cardinality(CreatingCounted) \in Nat
  /\ Cardinality(Requests) \in Nat
<1>1. IsFiniteSet(Counted)
  BY IdsAssumption, FS_Subset DEF Counted
<1>2. IsFiniteSet(CreatingCounted)
  BY RequestsAssumption, FS_Subset DEF CreatingCounted, Creating
<1> QED
  BY <1>1, <1>2, RequestsAssumption, FS_CardinalityType

\* No more requests create a mailbox than there are requests.
LEMMA CreatingAtMost ==
  Cardinality(CreatingCounted) <= Cardinality(Requests)
BY RequestsAssumption, FS_Subset DEF CreatingCounted, Creating

LEMMA PlanOvershootFromIndInv ==
  ASSUME IndInv PROVE PlanOvershoot
BY FiniteCounts, LimitAssumption DEF IndInv, WithinReach, PlanOvershoot

LEMMA LostOnlyByDeletionFromIndInv ==
  ASSUME IndInv PROVE LostOnlyByDeletion
BY DEF IndInv, LossesExplained, LossExplained, LostOnlyByDeletion

-----------------------------------------------------------------------------
(* What every step leaves of the rows, and of what requests know of them.  *)

\* Rows stay, and keep their names.
RowsKept ==
  \A i \in Ids : row[i].status # "absent" =>
    row'[i].status # "absent" /\ row'[i].name = row[i].name

LEMMA SoundStays ==
  ASSUME RowsKept, asked \subseteq asked', NEW j, Sound(j)
  PROVE  Sound(j)'
BY DEF RowsKept, Sound

\* Request p has given a job up, finished it, or taken the next of its list.
Progressed(p) ==
  /\ \A q \in Requests \ {p} : pc'[q] = pc[q] /\ job'[q] = job[q] /\ todo'[q] = todo[q]
  /\ pc'[p] \in {"idle", "call"}
  /\ pc'[p] = "idle" => todo'[p] = {}
  /\ pc'[p] = "call" => job'[p] \in todo[p]
  /\ todo'[p] \subseteq todo[p]
  /\ pc' \in [Requests -> {"idle", "call", "record"}]
  /\ job' \in [Requests -> JobType \cup {NoJob}]
  /\ todo' \in [Requests -> SUBSET JobType]

LEMMA ProceedProgresses ==
  ASSUME TypeOK, NEW p \in Requests, Proceed(p) \/ Stop(p)
  PROVE  Progressed(p)
<1>1. CASE Stop(p)
  BY <1>1 DEF TypeOK, Stop, Progressed
<1>2. ASSUME NEW j \in todo[p], Start(p, j, todo[p] \ {j})
      PROVE  Progressed(p)
  <2>1. j \in JobType /\ todo[p] \subseteq JobType
    BY DEF TypeOK
  <2> QED
    BY <1>2, <2>1 DEF TypeOK, Start, Progressed
<1> QED
  BY <1>1, <1>2 DEF Proceed

LEMMA ProgressedSound ==
  ASSUME IndInv, NEW p \in Requests, Progressed(p), RowsKept, asked \subseteq asked'
  PROVE  JobsSound'
<1> SUFFICES ASSUME NEW q \in Requests
             PROVE  /\ pc'[q] = "idle" => todo'[q] = {}
                    /\ pc'[q] # "idle" => job'[q] \in JobType /\ Sound(job[q])'
                    /\ \A j \in todo'[q] : Sound(j)' /\ j.op # "create"
  BY DEF JobsSound
<1>1. /\ pc[q] = "idle" => todo[q] = {}
      /\ pc[q] # "idle" => job[q] \in JobType /\ Sound(job[q])
      /\ \A j \in todo[q] : j \in JobType /\ Sound(j) /\ j.op # "create"
  BY DEF IndInv, TypeOK, JobsSound
<1>2. CASE q = p
  <2>1. \A j \in todo[p] : Sound(j)'
    BY <1>1, <1>2, SoundStays
  <2>2. pc'[p] # "idle" => job'[p] \in JobType /\ job'[p] \in todo[p]
    BY <1>1, <1>2 DEF Progressed
  <2>3. pc'[p] # "idle" => Sound(job[p])'
    <3> SUFFICES ASSUME NEW k \in todo[p], job'[p] = k PROVE Sound(job[p])'
      BY <2>2
    <3> QED
      BY <2>1 DEF Sound
  <2> QED
    BY <1>1, <1>2, <2>1, <2>2, <2>3 DEF Progressed
<1>3. CASE q # p
  <2>1. pc'[q] = pc[q] /\ job'[q] = job[q] /\ todo'[q] = todo[q]
    BY <1>3 DEF Progressed
  <2>2. pc'[q] # "idle" => Sound(job[q])'
    BY <1>1, <2>1, SoundStays DEF RowsKept, Sound
  <2> QED
    BY <1>1, <2>1, <2>2, SoundStays
<1> QED
  BY <1>2, <1>3

-----------------------------------------------------------------------------
(* Steps that neither record nor begin the creation of a mailbox.          *)

\* No other mailboxes, no other creations, and an account goes only with a
\* mailbox whose deletion was asked for.
Shrinks ==
  /\ RowsKept /\ asked \subseteq asked'
  /\ \A i \in Ids : row'[i].status \in {"active", "suspended"} => Live(i)
  /\ \A i \in asked' : row[i].status # "absent"
  /\ \A n \in Names : account'[n] = "none" =>
       account[n] = "none" \/ \E j \in asked : row[j].name = n
  /\ \A q \in Requests : pc'[q] # "idle" /\ job'[q].op = "create" =>
       pc[q] # "idle" /\ job'[q] = job[q]
       /\ (pc'[q] = "record" => pc[q] = "record" \/ account'[job[q].name] # "none")

LEMMA ShrinksKeepsIndInv ==
  ASSUME IndInv, TypeOK', RowsNamed', JobsSound', Shrinks
  PROVE  IndInv'
<1>1. AskedThere'
  BY DEF IndInv, TypeOK, AskedThere, Shrinks, RowsKept
<1>2. LossesExplained'
  <2>1. ASSUME NEW n \in Names, LossExplained(n) PROVE LossExplained(n)'
    <3> SUFFICES ASSUME account'[n] = "none" PROVE \E j \in asked' : row'[j].name = n
      BY DEF LossExplained
    <3>1. PICK j \in asked : row[j].name = n
      BY <2>1 DEF LossExplained, Shrinks
    <3> QED
      BY <3>1 DEF Shrinks, RowsKept, IndInv, AskedThere, TypeOK
  <2>2. ASSUME NEW i \in Ids, Live(i)' PROVE LossExplained(row[i].name)'
    <3>1. Live(i) /\ row[i].name \in Names /\ row'[i].name = row[i].name
      BY <2>2 DEF Shrinks, RowsKept, Live, IndInv, RowsNamed
    <3>2. LossExplained(row[i].name)
      BY <3>1 DEF IndInv, LossesExplained
    <3> QED
      BY <2>1, <3>1, <3>2 DEF LossExplained
  <2>3. ASSUME NEW p \in Requests, pc'[p] = "record", job'[p].op = "create"
        PROVE  LossExplained(job[p].name)'
    <3>1. /\ pc[p] # "idle" /\ job'[p] = job[p]
          /\ pc[p] = "record" \/ account'[job[p].name] # "none"
      BY <2>3 DEF Shrinks
    <3>2. job[p].name \in Names
      BY <3>1 DEF IndInv, JobsSound, JobType
    <3>3. CASE pc[p] = "record"
      <4>1. LossExplained(job[p].name)
        BY <2>3, <3>1, <3>3 DEF IndInv, LossesExplained
      <4> QED
        BY <2>1, <3>1, <3>2, <4>1 DEF LossExplained
    <3>4. CASE account'[job[p].name] # "none"
      BY <3>1, <3>4 DEF LossExplained
    <3> QED
      BY <3>1, <3>3, <3>4
  <2> QED
    BY <2>2, <2>3 DEF LossesExplained
<1>3. WithinReach'
  <2>1. Counted' \subseteq Counted
    BY DEF Counted, Live, Shrinks, RowsKept
  <2>2. CreatingCounted' \subseteq CreatingCounted
    BY DEF CreatingCounted, Creating, Shrinks
  <2>3. /\ Cardinality(Counted') <= Cardinality(Counted)
        /\ Cardinality(CreatingCounted') <= Cardinality(CreatingCounted)
        /\ Cardinality(Counted') \in Nat /\ Cardinality(CreatingCounted') \in Nat
    BY <2>1, <2>2, FiniteCounts, FS_Subset, FS_CardinalityType
  <2> QED
    BY <2>3, FiniteCounts, LimitAssumption DEF IndInv, WithinReach
<1> QED
  BY <1>1, <1>2, <1>3 DEF IndInv

\* Giving a job up, with no more than accounts of asked mailboxes going.
LEMMA ProgressKeepsIndInv ==
  ASSUME IndInv, NEW p \in Requests, Progressed(p), UNCHANGED <<row, asked>>,
         account' \in [Names -> Accounts],
         \A n \in Names : account'[n] = "none" =>
           account[n] = "none" \/ \E j \in asked : row[j].name = n
  PROVE  IndInv'
<1>1. RowsKept
  BY DEF RowsKept
<1>2. TypeOK' /\ RowsNamed' /\ JobsSound'
  BY <1>1, ProgressedSound DEF IndInv, TypeOK, RowsNamed, Progressed
<1>3. \A q \in Requests : pc'[q] # "idle" /\ job'[q].op = "create" =>
        pc'[q] = pc[q] /\ job'[q] = job[q]
  BY DEF Progressed, IndInv, JobsSound
<1>4. Shrinks
  BY <1>1, <1>3 DEF Shrinks, IndInv, AskedThere, Live
<1> QED
  BY <1>2, <1>4, ShrinksKeepsIndInv

-----------------------------------------------------------------------------
(* Step by step.                                                           *)

\* A request or sweep that starts with sound jobs, none of them a creation.
LEMMA StartKeepsIndInv ==
  ASSUME IndInv, NEW p \in Requests, NEW j \in JobType, NEW rest \in SUBSET JobType,
         pc[p] = "idle", Start(p, j, rest), UNCHANGED <<row, account>>,
         asked \subseteq asked', asked' \subseteq Ids,
         \A i \in asked' : row[i].status # "absent",
         \A k \in rest \cup {j} : Sound(k)' /\ k.op # "create"
  PROVE  IndInv'
<1>1. RowsKept
  BY DEF RowsKept
<1>2. TypeOK' /\ RowsNamed'
  BY DEF IndInv, TypeOK, RowsNamed, Start
<1>3. JobsSound'
  <2> SUFFICES ASSUME NEW q \in Requests
               PROVE  /\ pc'[q] = "idle" => todo'[q] = {}
                      /\ pc'[q] # "idle" => job'[q] \in JobType /\ Sound(job[q])'
                      /\ \A k \in todo'[q] : Sound(k)' /\ k.op # "create"
    BY DEF JobsSound
  <2>1. CASE q = p
    <3>1. pc'[p] = "call" /\ job'[p] = j /\ todo'[p] = rest
      BY DEF Start, IndInv, TypeOK
    <3>2. Sound(job[p])'
      BY <3>1 DEF Sound
    <3> QED
      BY <2>1, <3>1, <3>2
  <2>2. CASE q # p
    <3>1. pc'[q] = pc[q] /\ job'[q] = job[q] /\ todo'[q] = todo[q]
      BY <2>2 DEF Start, IndInv, TypeOK
    <3>2. /\ pc[q] = "idle" => todo[q] = {}
          /\ pc[q] # "idle" => job[q] \in JobType /\ Sound(job[q])
          /\ \A k \in todo[q] : Sound(k) /\ k.op # "create"
      BY DEF IndInv, JobsSound
    <3>3. pc'[q] # "idle" => Sound(job[q])'
      BY <1>1, <3>1, <3>2, SoundStays DEF RowsKept, Sound
    <3> QED
      BY <1>1, <3>1, <3>2, <3>3, SoundStays
  <2> QED
    BY <2>1, <2>2
<1>4. Shrinks
  BY <1>1 DEF Shrinks, Start, Live, IndInv, TypeOK
<1> QED
  BY <1>2, <1>3, <1>4, ShrinksKeepsIndInv

LEMMA BeginCreateStep ==
  ASSUME IndInv, NEW p \in Requests, NEW n \in Names, BeginCreate(p, n)
  PROVE  IndInv'
<1> DEFINE j == [op |-> "create", id |-> NoId, name |-> n]
<1>1. /\ pc' = [pc EXCEPT ![p] = "call"]
      /\ job' = [job EXCEPT ![p] = j]
      /\ todo' = [todo EXCEPT ![p] = {}]
      /\ UNCHANGED <<row, account, asked>> /\ pc[p] = "idle"
  BY DEF BeginCreate, Start
<1>2. j \in JobType
  BY DEF JobType, JobOps
<1>3. TypeOK' /\ RowsNamed' /\ AskedThere'
  BY <1>1, <1>2 DEF IndInv, TypeOK, RowsNamed, AskedThere
<1>4. \A q \in Requests \ {p} : pc'[q] = pc[q] /\ job'[q] = job[q] /\ todo'[q] = todo[q]
  BY <1>1 DEF IndInv, TypeOK
<1>5. pc'[p] = "call" /\ job'[p] = j /\ todo'[p] = {}
  BY <1>1 DEF IndInv, TypeOK
<1>6. JobsSound'
  BY <1>1, <1>2, <1>4, <1>5 DEF IndInv, JobsSound, Sound
<1>7. LossesExplained'
  BY <1>1, <1>4, <1>5 DEF IndInv, LossesExplained, LossExplained, Live
<1>8. WithinReach'
  <2>1. Counted' = Counted
    BY <1>1 DEF Counted, Live
  <2>2. CASE n \in Standard
    <3>1. CreatingCounted' \subseteq CreatingCounted
      BY <1>4, <1>5, <2>2 DEF CreatingCounted, Creating
    <3>2. /\ Cardinality(CreatingCounted') <= Cardinality(CreatingCounted)
          /\ Cardinality(CreatingCounted') \in Nat
      BY <3>1, FiniteCounts, FS_Subset, FS_CardinalityType
    <3> QED
      BY <2>1, <3>2, FiniteCounts, LimitAssumption DEF IndInv, WithinReach
  <2>3. CASE n \notin Standard
    <3>1. Cardinality(Counted) < Limit
      BY <2>3 DEF BeginCreate
    <3>2. CreatingCounted' \subseteq Requests
      BY DEF CreatingCounted, Creating
    <3>3. Cardinality(CreatingCounted') <= Cardinality(Requests) /\ Cardinality(CreatingCounted') \in Nat
      BY <3>2, RequestsAssumption, FS_Subset, FS_CardinalityType
    <3> QED
      BY <2>1, <3>1, <3>3, FiniteCounts, LimitAssumption DEF WithinReach
  <2> QED
    BY <2>2, <2>3
<1> QED
  BY <1>3, <1>6, <1>7, <1>8 DEF IndInv

LEMMA BeginChangeStep ==
  ASSUME IndInv, NEW p \in Requests, NEW op \in Ops, NEW i \in Ids, BeginChange(p, op, i)
  PROVE  IndInv'
<1>1. /\ pc[p] = "idle" /\ UNCHANGED <<row, account>>
      /\ Start(p, [op |-> op, id |-> i, name |-> row[i].name], {})
      /\ asked' = (IF op = "delete" THEN asked \cup {i} ELSE asked)
      /\ op \in {"delete", "suspend", "activate", "password", "repair"} /\ Live(i)
  BY OpsAssumption DEF BeginChange, ClientOps
<1>2. row[i].status # "absent" /\ row[i].name \in Names
  BY <1>1 DEF Live, IndInv, RowsNamed
<1>3. PICK j \in JobType : j = [op |-> op, id |-> i, name |-> row[i].name]
  BY <1>1, <1>2 DEF JobType, JobOps
<1>4. Sound(j)' /\ j.op # "create"
  BY <1>1, <1>2, <1>3 DEF Sound, Deletes
<1>5. /\ asked \subseteq asked' /\ asked' \subseteq Ids
      /\ \A k \in asked' : row[k].status # "absent"
  BY <1>1, <1>2 DEF IndInv, TypeOK, AskedThere
<1>6. \A k \in {} \cup {j} : Sound(k)' /\ k.op # "create"
  BY <1>4
<1>7. Start(p, j, {})
  BY <1>1, <1>3
<1> QED
  BY <1>1, <1>5, <1>6, <1>7, StartKeepsIndInv

LEMMA BeginSweepStep ==
  ASSUME IndInv, NEW p \in Requests, BeginSweep(p)
  PROVE  IndInv'
<1>1. PICK i \in Expired : Start(p, SweepJob(i), {SweepJob(k) : k \in Expired \ {i}})
  BY DEF BeginSweep
<1>2. /\ pc[p] = "idle" /\ UNCHANGED <<row, account>>
      /\ asked' = asked \cup {k \in Expired : row[k].remove}
  BY DEF BeginSweep
<1>3. /\ asked \subseteq asked' /\ asked' \subseteq Ids
      /\ \A k \in asked' : row[k].status # "absent"
  BY <1>2 DEF IndInv, TypeOK, AskedThere, Expired
<1>4. ASSUME NEW k \in Expired
      PROVE  SweepJob(k) \in JobType /\ Sound(SweepJob(k))' /\ SweepJob(k).op # "create"
  <2>1. k \in Ids /\ row[k].status # "absent" /\ row[k].name \in Names
    BY DEF Expired, IndInv, RowsNamed
  <2>2. row[k].remove => k \in asked'
    BY <1>2
  <2> QED
    BY <1>2, <2>1, <2>2 DEF SweepJob, JobType, JobOps, Sound, Deletes
<1>5. /\ SweepJob(i) \in JobType
      /\ {SweepJob(k) : k \in Expired \ {i}} \in SUBSET JobType
  BY <1>4
<1>6. \A j \in {SweepJob(k) : k \in Expired \ {i}} \cup {SweepJob(i)} : Sound(j)' /\ j.op # "create"
  <2> TAKE j \in {SweepJob(k) : k \in Expired \ {i}} \cup {SweepJob(i)}
  <2>1. PICK k \in Expired : j = SweepJob(k)
    OBVIOUS
  <2>2. Sound(SweepJob(k))' /\ SweepJob(k).op # "create"
    BY <1>4
  <2> QED
    BY <1>2, <2>1, <2>2 DEF Sound, SweepJob
<1> QED
  BY <1>1, <1>2, <1>3, <1>5, <1>6, StartKeepsIndInv

\* What the cluster does to an account: it takes one away for a deletion only.
LEMMA EffectOf ==
  ASSUME IndInv, NEW p \in Requests, pc[p] # "idle",
         account' = [account EXCEPT ![job[p].name] = Effect(job[p])]
  PROVE  /\ account' \in [Names -> Accounts]
         /\ \A n \in Names : account'[n] = "none" =>
              account[n] = "none" \/ \E j \in asked : row[j].name = n
         /\ job[p].op \notin Deletes => account'[job[p].name] # "none"
<1>1. job[p] \in JobType /\ Sound(job[p])
  BY DEF IndInv, JobsSound
<1>2. job[p].name \in Names /\ account \in [Names -> Accounts]
  BY <1>1 DEF JobType, IndInv, TypeOK
<1>3. Effect(job[p]) \in Accounts
  BY <1>2 DEF Effect, Accounts
<1>4. Effect(job[p]) = "none" => job[p].op \in Deletes
  BY <1>2 DEF Effect, Accounts
<1>5. job[p].op \in Deletes => job[p].id \in asked /\ row[job[p].id].name = job[p].name
  BY <1>1 DEF Sound, Deletes
<1> QED
  BY <1>2, <1>3, <1>4, <1>5

LEMMA CallStep ==
  ASSUME IndInv, NEW p \in Requests, Call(p)
  PROVE  IndInv'
<1>1. pc[p] = "call" /\ UNCHANGED <<row, asked>>
  BY DEF Call
<1>2. /\ account' \in [Names -> Accounts]
      /\ \A n \in Names : account'[n] = "none" =>
           account[n] = "none" \/ \E j \in asked : row[j].name = n
      /\ Accepts(job[p]) /\ job[p].op \notin Deletes => account'[job[p].name] # "none"
  <2>1. CASE Accepts(job[p])
    BY <1>1, <2>1, EffectOf DEF Call
  <2>2. CASE ~Accepts(job[p])
    BY <2>2 DEF Call, IndInv, TypeOK
  <2> QED
    BY <2>1, <2>2
<1>3. CASE Accepts(job[p]) /\ job[p].op \in Recorded
  <2>1. pc' = [pc EXCEPT ![p] = "record"] /\ UNCHANGED <<job, todo>>
    BY <1>3 DEF Call
  <2>2. RowsKept
    BY <1>1 DEF RowsKept
  <2>3. TypeOK' /\ RowsNamed' /\ JobsSound'
    BY <1>1, <1>2, <2>1 DEF IndInv, TypeOK, RowsNamed, JobsSound, Sound
  <2>4. Shrinks
    BY <1>1, <1>2, <1>3, <2>1, <2>2 DEF Shrinks, IndInv, TypeOK, AskedThere, Live, Deletes
  <2> QED
    BY <2>3, <2>4, ShrinksKeepsIndInv
<1>4. CASE ~(Accepts(job[p]) /\ job[p].op \in Recorded)
  <2>1. Progressed(p)
    BY <1>4, ProceedProgresses DEF Call, IndInv
  <2> QED
    BY <1>1, <1>2, <2>1, ProgressKeepsIndInv
<1> QED
  BY <1>3, <1>4

\* A job given up half way, or a request that goes away.
LEMMA FailureStep ==
  ASSUME IndInv, NEW p \in Requests,
         CallFails(p) \/ AnswerLost(p) \/ RecordFails(p) \/ Crash(p)
  PROVE  IndInv'
<1>1. Progressed(p) /\ UNCHANGED <<row, asked>> /\ pc[p] # "idle"
  BY ProceedProgresses DEF CallFails, AnswerLost, RecordFails, Crash, IndInv
<1>2. /\ account' \in [Names -> Accounts]
      /\ \A n \in Names : account'[n] = "none" =>
           account[n] = "none" \/ \E j \in asked : row[j].name = n
  <2>1. CASE AnswerLost(p)
    BY <1>1, <2>1, EffectOf DEF AnswerLost
  <2>2. CASE account' = account
    BY <2>2 DEF IndInv, TypeOK
  <2> QED
    BY <2>1, <2>2 DEF CallFails, RecordFails, Crash
<1> QED
  BY <1>1, <1>2, ProgressKeepsIndInv

LEMMA RecordChangeStep ==
  ASSUME IndInv, NEW p \in Requests, RecordChange(p)
  PROVE  IndInv'
<1>1. Progressed(p) /\ UNCHANGED <<account, asked>>
  BY ProceedProgresses DEF RecordChange, IndInv
<1>2. ASSUME NEW i \in Ids
      PROVE  /\ row'[i] \in RowType /\ row'[i].name = row[i].name
             /\ row'[i].status = "absent" <=> row[i].status = "absent"
             /\ row'[i].status \in {"active", "suspended"} => Live(i)
  <2>1. row[i] \in RowType
    BY DEF IndInv, TypeOK
  <2>2. CASE row' = row
    BY <2>1, <2>2 DEF Live
  <2>3. CASE Live(job[p].id) /\ row' = [row EXCEPT ![job[p].id].status = RecordedStatus(job[p].op)]
    <3>1. CASE i = job[p].id
      BY <2>1, <2>3, <3>1 DEF RowType, Statuses, Live, RecordedStatus, IndInv, TypeOK
    <3>2. CASE i # job[p].id
      BY <2>1, <2>3, <3>2 DEF Live, IndInv, TypeOK
    <3> QED
      BY <3>1, <3>2
  <2> QED
    BY <2>2, <2>3 DEF RecordChange
<1>3. row' \in [Ids -> RowType]
  BY <1>2 DEF RecordChange, IndInv, TypeOK
<1>4. RowsKept
  BY <1>2 DEF RowsKept
<1>5. TypeOK' /\ RowsNamed' /\ JobsSound'
  BY <1>1, <1>2, <1>3, <1>4, ProgressedSound DEF IndInv, TypeOK, RowsNamed, Progressed
<1>6. \A q \in Requests : pc'[q] # "idle" /\ job'[q].op = "create" =>
        pc'[q] = pc[q] /\ job'[q] = job[q]
  BY <1>1 DEF Progressed, IndInv, JobsSound
<1>7. Shrinks
  BY <1>1, <1>2, <1>4, <1>6 DEF Shrinks, IndInv, AskedThere
<1> QED
  BY <1>5, <1>7, ShrinksKeepsIndInv

LEMMA InsertMailboxStep ==
  ASSUME IndInv, NEW p \in Requests, InsertMailbox(p)
  PROVE  IndInv'
<1> DEFINE n == job[p].name
<1>1. /\ Progressed(p) /\ UNCHANGED <<account, asked>>
      /\ pc[p] = "record" /\ job[p].op = "create" /\ job[p] \in JobType
  BY ProceedProgresses DEF InsertMailbox, IndInv, JobsSound
<1>2. n \in Names /\ account \in [Names -> Accounts] /\ row \in [Ids -> RowType]
  BY <1>1 DEF JobType, IndInv, TypeOK
<1>3. CASE UNCHANGED row
  BY <1>1, <1>2, <1>3, ProgressKeepsIndInv
<1>4. ASSUME NEW i \in Fresh,
             row' = [row EXCEPT ![i] = [NoRow EXCEPT !.status = "active", !.name = n]]
      PROVE  IndInv'
  <2>1. /\ i \in Ids /\ row[i].status = "absent"
        /\ row'[i] = [status |-> "active", name |-> n, expired |-> FALSE, remove |-> FALSE]
        /\ \A k \in Ids \ {i} : row'[k] = row[k]
    BY <1>2, <1>4 DEF Fresh, NoRow
  <2>2. RowsKept
    BY <2>1 DEF RowsKept
  <2>3. row' \in [Ids -> RowType]
    BY <1>2, <1>4, <2>1 DEF RowType, Statuses
  <2>4. TypeOK' /\ RowsNamed' /\ JobsSound' /\ AskedThere'
    BY <1>1, <1>2, <2>1, <2>2, <2>3, ProgressedSound
    DEF IndInv, TypeOK, RowsNamed, AskedThere, Progressed
  <2>5. \A q \in Requests : pc'[q] # "idle" /\ job'[q].op = "create" =>
          q # p /\ pc'[q] = pc[q] /\ job'[q] = job[q]
    BY <1>1 DEF Progressed, IndInv, JobsSound
  <2>6. LossesExplained'
    <3>1. ASSUME NEW m \in Names, LossExplained(m) PROVE LossExplained(m)'
      BY <1>1, <2>1, <3>1 DEF LossExplained, IndInv, AskedThere, TypeOK
    <3>2. LossExplained(n)
      BY <1>1 DEF IndInv, LossesExplained
    <3>3. ASSUME NEW k \in Ids, Live(k)' PROVE LossExplained(row[k].name)'
      <4>1. CASE k = i
        <5>1. PICK m \in Names : m = n
          BY <1>2
        <5>2. LossExplained(m)'
          BY <3>1, <3>2, <5>1
        <5> QED
          BY <2>1, <4>1, <5>1, <5>2 DEF LossExplained
      <4>2. CASE k # i
        <5>1. Live(k) /\ row'[k] = row[k] /\ row[k].name \in Names
          BY <2>1, <3>3, <4>2 DEF Live, IndInv, RowsNamed
        <5>2. LossExplained(row[k].name)
          BY <5>1 DEF IndInv, LossesExplained
        <5> QED
          BY <3>1, <5>1, <5>2 DEF LossExplained
      <4> QED
        BY <4>1, <4>2
    <3>4. ASSUME NEW q \in Requests, pc'[q] = "record", job'[q].op = "create"
          PROVE  LossExplained(job[q].name)'
      <4>1. pc[q] = "record" /\ job'[q] = job[q] /\ job[q].name \in Names
        BY <2>5, <3>4 DEF IndInv, JobsSound, JobType
      <4>2. LossExplained(job[q].name)
        BY <3>4, <4>1 DEF IndInv, LossesExplained
      <4> QED
        BY <3>1, <4>1, <4>2 DEF LossExplained
    <3> QED
      BY <3>3, <3>4 DEF LossesExplained
  <2>7. WithinReach'
    <3>1. CreatingCounted' \subseteq CreatingCounted \ {p}
      BY <2>5 DEF CreatingCounted, Creating
    <3>2. CASE n \in Standard
      <4>1. Counted' \subseteq Counted
        BY <2>1, <3>2 DEF Counted, Live
      <4>2. /\ Cardinality(Counted') <= Cardinality(Counted)
            /\ Cardinality(CreatingCounted') <= Cardinality(CreatingCounted)
            /\ Cardinality(Counted') \in Nat /\ Cardinality(CreatingCounted') \in Nat
        BY <3>1, <4>1, FiniteCounts, FS_Subset, FS_CardinalityType
      <4> QED
        BY <4>2, FiniteCounts, LimitAssumption DEF IndInv, WithinReach
    <3>3. CASE n \notin Standard
      <4>1. Counted' \subseteq Counted \cup {i} /\ i \notin Counted
        BY <2>1 DEF Counted, Live
      <4>2. IsFiniteSet(Counted \cup {i}) /\ Cardinality(Counted \cup {i}) = Cardinality(Counted) + 1
        BY <4>1, FiniteCounts, FS_AddElement
      <4>3. Cardinality(Counted') <= Cardinality(Counted) + 1 /\ Cardinality(Counted') \in Nat
        BY <4>1, <4>2, FS_Subset, FS_CardinalityType
      <4>4. p \in CreatingCounted
        BY <1>1, <3>3 DEF CreatingCounted, Creating
      <4>5. /\ IsFiniteSet(CreatingCounted \ {p})
            /\ Cardinality(CreatingCounted \ {p}) = Cardinality(CreatingCounted) - 1
        BY <4>4, FiniteCounts, FS_RemoveElement
      <4>6. /\ Cardinality(CreatingCounted') <= Cardinality(CreatingCounted) - 1
            /\ Cardinality(CreatingCounted') \in Nat
        BY <3>1, <4>5, FS_Subset, FS_CardinalityType
      <4> QED
        BY <4>3, <4>6, FiniteCounts, LimitAssumption DEF IndInv, WithinReach
    <3> QED
      BY <3>2, <3>3
  <2> QED
    BY <2>4, <2>6, <2>7 DEF IndInv
<1> QED
  BY <1>3, <1>4 DEF InsertMailbox

\* Time, and another expiration date.
LEMMA ExpirationStep ==
  ASSUME IndInv, NEW i \in Ids, NEW remove \in BOOLEAN, Expire(i) \/ SetExpiration(i, remove)
  PROVE  IndInv'
<1>1. UNCHANGED <<account, pc, job, todo, asked>>
  BY DEF Expire, SetExpiration
<1>2. ASSUME NEW k \in Ids
      PROVE  row'[k] \in RowType /\ row'[k].name = row[k].name /\ row'[k].status = row[k].status
  <2>1. row[k] \in RowType
    BY DEF IndInv, TypeOK
  <2>2. PICK e \in BOOLEAN, r \in BOOLEAN :
          row'[k] = [status |-> row[k].status, name |-> row[k].name, expired |-> e, remove |-> r]
    <3>1. CASE k # i
      <4>1. row'[k] = row[k]
        BY <3>1 DEF Expire, SetExpiration, IndInv, TypeOK
      <4> QED
        BY <2>1, <4>1 DEF RowType
    <3>2. CASE k = i /\ Expire(i)
      <4>1. row'[i] = [row[i] EXCEPT !.expired = TRUE]
        BY <3>2 DEF Expire, IndInv, TypeOK
      <4> QED
        BY <2>1, <3>2, <4>1 DEF RowType
    <3>3. CASE k = i /\ SetExpiration(i, remove)
      <4>1. row'[i] = [row[i] EXCEPT !.expired = FALSE, !.remove = remove]
        BY <3>3 DEF SetExpiration, IndInv, TypeOK
      <4> QED
        BY <2>1, <3>3, <4>1 DEF RowType
    <3> QED
      BY <3>1, <3>2, <3>3
  <2> QED
    BY <2>1, <2>2 DEF RowType
<1>3. row' \in [Ids -> RowType]
  BY <1>2 DEF Expire, SetExpiration, IndInv, TypeOK
<1>4. RowsKept
  BY <1>2 DEF RowsKept
<1>5. TypeOK' /\ RowsNamed'
  BY <1>1, <1>2, <1>3 DEF IndInv, TypeOK, RowsNamed
<1>6. JobsSound'
  BY <1>1, <1>4 DEF IndInv, JobsSound, Sound, RowsKept
<1>7. Shrinks
  BY <1>1, <1>2, <1>4 DEF Shrinks, IndInv, AskedThere, Live
<1> QED
  BY <1>5, <1>6, <1>7, ShrinksKeepsIndInv

LEMMA InitIndInv == ASSUME Init PROVE IndInv
<1>1. TypeOK /\ RowsNamed /\ JobsSound /\ AskedThere
  BY DEF Init, TypeOK, RowsNamed, JobsSound, AskedThere, RowType, NoRow, Statuses, Accounts
<1>2. LossesExplained
  BY DEF Init, LossesExplained, Live, NoRow
<1>3. Counted = {} /\ CreatingCounted = {}
  BY DEF Init, Counted, CreatingCounted, Creating, Live, NoRow
<1>4. Cardinality(Requests) > 0
  BY RequestsAssumption, FS_EmptySet, FS_CardinalityType
<1>5. WithinReach
  BY <1>3, <1>4, FS_EmptySet, FiniteCounts, LimitAssumption DEF WithinReach
<1> QED
  BY <1>1, <1>2, <1>5 DEF IndInv

LEMMA NextIndInv == ASSUME IndInv, [Next]_vars PROVE IndInv'
<1>1. CASE UNCHANGED vars
  BY <1>1 DEF vars, IndInv, TypeOK, RowsNamed, JobsSound, Sound, AskedThere, LossesExplained,
    LossExplained, WithinReach, Counted, CreatingCounted, Creating, Live
<1>2. ASSUME NEW p \in Requests,
             \/ \E n \in Names : BeginCreate(p, n)
             \/ \E op \in Ops, i \in Ids : BeginChange(p, op, i)
             \/ BeginSweep(p)
             \/ Call(p) \/ CallFails(p) \/ AnswerLost(p)
             \/ Record(p) \/ RecordFails(p) \/ Crash(p)
      PROVE  IndInv'
  BY <1>2, BeginCreateStep, BeginChangeStep, BeginSweepStep, CallStep, FailureStep,
    InsertMailboxStep, RecordChangeStep DEF Record
<1>3. ASSUME NEW i \in Ids, Expire(i) \/ \E remove \in BOOLEAN : SetExpiration(i, remove)
      PROVE  IndInv'
  BY <1>3, ExpirationStep
<1> QED
  BY <1>1, <1>2, <1>3 DEF Next

-----------------------------------------------------------------------------
\* Whatever is lost, refused or cut short, requests know the rows they are
\* about, losses of accounts are explained and creations stay within reach of
\* the plan.
THEOREM IndInvCorrect == Spec => []IndInv
BY InitIndInv, NextIndInv, PTL DEF Spec

\* A domain has at most Limit - 1 mailboxes and one for each request in flight.
THEOREM PlanAlmostKept == Spec => []PlanOvershoot
BY IndInvCorrect, PlanOvershootFromIndInv, PTL

\* No failure and no interleaving takes the account of a recorded mailbox,
\* unless a mailbox of its name was to be deleted.
THEOREM LossesAreDeletions == Spec => []LostOnlyByDeletion
BY IndInvCorrect, LostOnlyByDeletionFromIndInv, PTL

-----------------------------------------------------------------------------
(* The records and the cluster in step: who is at work on a name.          *)

\* Progressed, and what is done next is off the list.
Advanced(p) == Progressed(p) /\ (pc'[p] = "call" => job'[p] \notin todo'[p])

LEMMA ProceedAdvances ==
  ASSUME TypeOK, NEW p \in Requests, Proceed(p) \/ Stop(p)
  PROVE  Advanced(p)
<1>1. Progressed(p)
  BY ProceedProgresses
<1>2. CASE Stop(p)
  BY <1>1, <1>2 DEF Stop, TypeOK, Advanced
<1>3. ASSUME NEW j \in todo[p], Start(p, j, todo[p] \ {j})
      PROVE  Advanced(p)
  BY <1>1, <1>3 DEF Start, TypeOK, Advanced
<1> QED
  BY <1>2, <1>3 DEF Proceed

\* What p and q are at work on, unfolded.
LEMMA AloneOnName ==
  ASSUME OneAtWork, NEW p \in Requests, pc[p] # "idle", job[p].name \notin loose
  PROVE  /\ \A q \in Requests \ {p} : pc[q] # "idle" => job[q].name # job[p].name
         /\ \A q \in Requests : \A k \in todo[q] : k.name # job[p].name
BY DEF OneAtWork

LEMMA AdvancedAlone ==
  ASSUME TypeOK, OneAtWork, NEW p \in Requests, pc[p] # "idle", Advanced(p), loose \subseteq loose'
  PROVE  OneAtWork'
<1>1. /\ \A q \in Requests \ {p} : pc'[q] = pc[q] /\ job'[q] = job[q] /\ todo'[q] = todo[q]
      /\ pc'[p] # "idle" => job'[p] \in todo[p] /\ job'[p] \notin todo'[p]
      /\ todo'[p] \subseteq todo[p]
  BY DEF Advanced, Progressed
<1>2. ASSUME NEW o \in Requests, NEW q \in Requests, pc'[o] # "idle", job'[o].name \notin loose',
             pc'[q] # "idle", job'[q].name = job'[o].name
      PROVE  o = q
  <2>1. CASE o # p /\ q # p
    BY <1>1, <1>2, <2>1 DEF OneAtWork
  <2>2. CASE o = p /\ q # p
    BY <1>1, <1>2, <2>2 DEF OneAtWork
  <2>3. CASE o # p /\ q = p
    BY <1>1, <1>2, <2>3 DEF OneAtWork
  <2> QED
    BY <2>1, <2>2, <2>3
<1>3. ASSUME NEW o \in Requests, NEW q \in Requests, pc'[o] # "idle", job'[o].name \notin loose',
             NEW k \in todo'[q]
      PROVE  k.name # job'[o].name
  <2>1. k \in todo[q]
    BY <1>1, <1>3
  <2>2. CASE o # p
    BY <1>1, <1>3, <2>1, <2>2 DEF OneAtWork
  <2>3. CASE o = p
    <3>1. job'[p] \in todo[p] /\ job'[p].name \notin loose
      BY <1>1, <1>3, <2>3
    <3>2. k.name = job'[p].name => p = q /\ job'[p] = k
      BY <2>1, <3>1 DEF OneAtWork
    <3> QED
      BY <1>1, <1>3, <2>3, <3>2
  <2> QED
    BY <2>2, <2>3
<1>4. ASSUME NEW o \in Requests, NEW q \in Requests, NEW j \in todo'[o], NEW k \in todo'[q],
             j.name \notin loose', j.name = k.name
      PROVE  o = q /\ j = k
  BY <1>1, <1>4 DEF OneAtWork
<1> QED
  BY <1>2, <1>3, <1>4 DEF OneAtWork

\* A row is deleted only by the request that is at work on it.
LEMMA AdvancedLive ==
  ASSUME IndInv, StepInv, NEW p \in Requests, pc[p] # "idle", Advanced(p), loose \subseteq loose',
         \A i \in Ids : Live(i) => Live(i)' \/ (job[p].op # "create" /\ i = job[p].id)
  PROVE  WorkedOnLive'
<1>1. /\ \A q \in Requests \ {p} : pc'[q] = pc[q] /\ job'[q] = job[q] /\ todo'[q] = todo[q]
      /\ pc'[p] # "idle" => job'[p] \in todo[p]
      /\ todo'[p] \subseteq todo[p]
  BY DEF Advanced, Progressed
<1>2. job[p].op # "create" => row[job[p].id].name = job[p].name
  BY DEF IndInv, JobsSound, Sound
<1>3. ASSUME NEW q \in Requests, NEW j \in todo[q], j.name \notin loose
      PROVE  Live(j.id)'
  <2>1. Live(j.id) /\ j.id \in Ids /\ row[j.id].name = j.name
    BY <1>3 DEF StepInv, WorkedOnLive, IndInv, JobsSound, Sound
  <2>2. job[p].name # j.name
    BY <1>3, AloneOnName DEF StepInv
  <2> QED
    BY <1>2, <2>1, <2>2
<1>4. ASSUME NEW q \in Requests \ {p}, pc[q] # "idle", job[q].op # "create", job[q].name \notin loose
      PROVE  Live(job[q].id)'
  <2>1. PICK i \in Ids : i = job[q].id /\ row[i].name = job[q].name /\ Live(i)
    BY <1>4 DEF StepInv, WorkedOnLive, IndInv, JobsSound, Sound
  <2>2. job[p].name # job[q].name
    BY <1>4, AloneOnName DEF StepInv
  <2>3. Live(i)'
    BY <1>2, <2>1, <2>2
  <2> QED
    BY <1>1, <2>1, <2>3 DEF Live
<1>5. ASSUME NEW q \in Requests, pc'[q] # "idle", job'[q].op # "create", job'[q].name \notin loose'
      PROVE  row'[job'[q].id].status \in {"active", "suspended"}
  <2>1. CASE q = p
    <3>1. job'[p] \in todo[p] /\ job'[p].name \notin loose
      BY <1>1, <1>5, <2>1
    <3>2. PICK j \in todo[p] : j = job'[p]
      BY <3>1
    <3>3. Live(j.id)'
      BY <1>3, <3>1, <3>2
    <3> QED
      BY <2>1, <3>2, <3>3 DEF Live
  <2>2. CASE q # p
    BY <1>1, <1>4, <1>5, <2>2 DEF Live
  <2> QED
    BY <2>1, <2>2
<1>6. ASSUME NEW q \in Requests, NEW j \in todo'[q], j.name \notin loose'
      PROVE  Live(j.id)'
  <2>1. j \in todo[q] /\ j.name \notin loose
    BY <1>1, <1>6
  <2> QED
    BY <1>3, <2>1
<1> QED
  BY <1>5, <1>6 DEF WorkedOnLive, Live

\* Nothing is done about names but n.
OnlyAbout(n) ==
  /\ \A m \in Names \ {n} : account'[m] = account[m]
  /\ \A i \in Ids : row'[i] # row[i] => row'[i].name = n /\ (row[i].status = "absent" \/ row[i].name = n)

LEMMA EffectRecorded ==
  ASSUME NEW j, j.op \in Recorded
  PROVE  /\ Effect(j)' = Effect(j)
         /\ j.op \in Deletes => Effect(j) = "none"
         /\ j.op \in Suspends => Effect(j) = "blocked"
         /\ j.op \in {"create", "activate"} => Effect(j) = "open"
BY DEF Effect, Recorded, Deletes, Suspends

LEMMA OthersAgree ==
  ASSUME IndInv, NEW n, OnlyAbout(n), NEW m \in Names \ {n}, Agree(m)
  PROVE  Agree(m)'
<1>1. \A i \in Ids : (row[i].status # "absent" /\ row[i].name = m) \/ row'[i].name = m
                    => row'[i] = row[i]
  BY DEF OnlyAbout
<1>2. account'[m] = account[m]
  BY DEF OnlyAbout
<1>3. (\E i \in Ids : Live(i)' /\ row'[i].name = m) <=> \E i \in Ids : Live(i) /\ row[i].name = m
  BY <1>1 DEF Live
<1> QED
  BY <1>1, <1>2, <1>3 DEF Agree

\* Another request that is about to record still has made of its account what it will.
LEMMA OthersHalfDone ==
  ASSUME IndInv, StepInv, NEW p \in Requests, pc[p] # "idle", loose \subseteq loose',
         OnlyAbout(job[p].name),
         NEW q \in Requests \ {p}, pc[q] = "record", job'[q] = job[q]
  PROVE  HalfDone(q)'
<1>1. HalfDone(q) /\ job[q] \in JobType
  BY DEF StepInv, BetweenTheTwo, IndInv, JobsSound
<1>2. Effect(job[q])' = Effect(job[q])
  <2>1. PICK j \in JobType : j = job[q] /\ j = job'[q]
    BY <1>1
  <2>2. Effect(j)' = Effect(j)
    BY <1>1, <2>1, EffectRecorded DEF HalfDone
  <2> QED
    BY <2>1, <2>2 DEF Effect
<1> SUFFICES ASSUME job[q].name \notin loose'
             PROVE  /\ account'[job[q].name] = Effect(job[q])
                    /\ job[q].op = "create" => \A i \in Ids : Live(i)' => row'[i].name # job[q].name
  BY <1>1, <1>2 DEF HalfDone
<1>3. job[p].name # job[q].name /\ job[q].name \in Names /\ job[q].name \notin loose
  BY <1>1, AloneOnName DEF StepInv, JobType
<1>4. account'[job[q].name] = account[job[q].name]
  BY <1>3 DEF OnlyAbout
<1>5. ASSUME NEW i \in Ids, Live(i)', row'[i].name = job[q].name
      PROVE  Live(i) /\ row[i].name = job[q].name
  <2>1. row'[i] = row[i]
    BY <1>3, <1>5 DEF OnlyAbout
  <2> QED
    BY <1>5, <2>1 DEF Live
<1> QED
  BY <1>1, <1>3, <1>4, <1>5 DEF HalfDone

\* What a step that takes request p on, or ends it, has to show.
LEMMA AdvanceInStep ==
  ASSUME IndInv, StepInv, NEW p \in Requests, pc[p] # "idle", Advanced(p), loose \subseteq loose',
         NEW n0 \in Names, n0 = job[p].name, OnlyAbout(n0), LiveUnique',
         \A i \in Ids : Live(i) => Live(i)' \/ (job[p].op # "create" /\ i = job[p].id),
         n0 \notin loose' => Agree(n0)'
  PROVE  StepInv'
<1>1. OneAtWork' /\ WorkedOnLive'
  BY AdvancedAlone, AdvancedLive DEF IndInv, StepInv
<1>2. /\ \A q \in Requests \ {p} : pc'[q] = pc[q] /\ job'[q] = job[q]
      /\ pc'[p] # "record"
  BY DEF Advanced, Progressed
<1>3. ASSUME NEW q \in Requests, pc'[q] = "record" PROVE HalfDone(q)'
  BY <1>2, <1>3, OthersHalfDone
<1>4. ASSUME NEW n \in Names \ loose'
      PROVE  Agree(n)' \/ \E q \in Requests : pc'[q] = "record" /\ job'[q].name = n
  <2>1. CASE n = n0
    BY <1>4, <2>1
  <2>2. CASE n # n0
    <3>1. CASE Agree(n)
      BY <1>4, <2>2, <3>1, OthersAgree
    <3>2. CASE ~ Agree(n)
      <4>1. PICK q \in Requests : pc[q] = "record" /\ job[q].name = n
        BY <1>4, <3>2 DEF StepInv, BetweenTheTwo
      <4> QED
        BY <1>2, <2>2, <4>1
    <3> QED
      BY <3>1, <3>2
  <2> QED
    BY <2>1, <2>2
<1> QED
  BY <1>1, <1>3, <1>4 DEF StepInv, BetweenTheTwo


-----------------------------------------------------------------------------
(* The steps of InStep's invariant.                                        *)

LEMMA BeginInStep ==
  ASSUME IndInv, StepInv, NEW p \in Requests, pc[p] = "idle",
         NEW j, NEW rest, Start(p, j, rest), j \notin rest,
         Begins({k.name : k \in rest \cup {j}}),
         \A a, b \in rest \cup {j} : a.name = b.name => a = b,
         j.op # "create" => Live(j.id),
         \A k \in rest : Live(k.id),
         row' = row, account' = account
  PROVE  StepInv'
<1>1. /\ \A q \in Requests \ {p} : pc'[q] = pc[q] /\ job'[q] = job[q] /\ todo'[q] = todo[q]
      /\ pc'[p] = "call" /\ job'[p] = j /\ todo'[p] = rest
  BY DEF IndInv, TypeOK, Start
<1>2. loose \subseteq loose' /\ \A k \in rest \cup {j} : AtWork(k.name) => k.name \in loose'
  BY DEF Begins
<1>3. ASSUME NEW q \in Requests \ {p}, NEW k \in rest \cup {j}, k.name \notin loose'
      PROVE  /\ pc[q] # "idle" => job[q].name # k.name
             /\ \A l \in todo[q] : l.name # k.name
  BY <1>2, <1>3 DEF AtWork
<1>4. OneAtWork'
  <2>1. ASSUME NEW o \in Requests, NEW q \in Requests, pc'[o] # "idle", job'[o].name \notin loose',
               pc'[q] # "idle", job'[q].name = job'[o].name
        PROVE  o = q
    <3>1. CASE o # p /\ q # p
      BY <1>1, <1>2, <2>1, <3>1 DEF StepInv, OneAtWork
    <3>2. CASE o = p /\ q # p
      BY <1>1, <1>3, <2>1, <3>2
    <3>3. CASE o # p /\ q = p
      BY <1>1, <1>3, <2>1, <3>3
    <3> QED
      BY <3>1, <3>2, <3>3
  <2>2. ASSUME NEW o \in Requests, NEW q \in Requests, pc'[o] # "idle", job'[o].name \notin loose',
               NEW k \in todo'[q]
        PROVE  k.name # job'[o].name
    <3>1. CASE o # p /\ q # p
      BY <1>1, <1>2, <2>2, <3>1 DEF StepInv, OneAtWork
    <3>2. CASE o = p /\ q # p
      BY <1>1, <1>3, <2>2, <3>2
    <3>3. CASE o # p /\ q = p
      BY <1>1, <1>3, <2>2, <3>3
    <3>4. CASE o = p /\ q = p
      BY <1>1, <2>2, <3>4
    <3> QED
      BY <3>1, <3>2, <3>3, <3>4
  <2>3. ASSUME NEW o \in Requests, NEW q \in Requests, NEW k \in todo'[o], NEW l \in todo'[q],
               k.name \notin loose', k.name = l.name
        PROVE  o = q /\ k = l
    <3>1. CASE o # p /\ q # p
      BY <1>1, <1>2, <2>3, <3>1 DEF StepInv, OneAtWork
    <3>2. CASE o = p /\ q # p
      BY <1>1, <1>3, <2>3, <3>2
    <3>3. CASE o # p /\ q = p
      BY <1>1, <1>3, <2>3, <3>3
    <3>4. CASE o = p /\ q = p
      BY <1>1, <2>3, <3>4
    <3> QED
      BY <3>1, <3>2, <3>3, <3>4
  <2> QED
    BY <2>1, <2>2, <2>3 DEF OneAtWork
<1>5. LiveUnique'
  BY DEF StepInv, LiveUnique, Live
<1>6. WorkedOnLive'
  <2>1. ASSUME NEW q \in Requests, pc'[q] # "idle", job'[q].op # "create", job'[q].name \notin loose'
        PROVE  row'[job'[q].id].status \in {"active", "suspended"}
    BY <1>1, <1>2, <2>1 DEF StepInv, WorkedOnLive, Live
  <2>2. ASSUME NEW q \in Requests, NEW k \in todo'[q], k.name \notin loose'
        PROVE  Live(k.id)'
    BY <1>1, <1>2, <2>2 DEF StepInv, WorkedOnLive, Live
  <2> QED
    BY <2>1, <2>2 DEF WorkedOnLive, Live
<1>7. BetweenTheTwo'
  <2>1. ASSUME NEW q \in Requests, pc'[q] = "record" PROVE HalfDone(q)'
    <3>1. q # p /\ pc[q] = "record" /\ job'[q] = job[q] /\ HalfDone(q)
      BY <1>1, <2>1 DEF StepInv, BetweenTheTwo
    <3> QED
      BY <1>2, <3>1 DEF HalfDone, Effect, Live
  <2>2. ASSUME NEW n \in Names \ loose'
        PROVE  Agree(n)' \/ \E q \in Requests : pc'[q] = "record" /\ job'[q].name = n
    <3>1. CASE Agree(n)
      BY <3>1 DEF Agree, Live
    <3>2. CASE ~ Agree(n)
      <4>1. PICK q \in Requests : pc[q] = "record" /\ job[q].name = n
        BY <1>2, <2>2, <3>2 DEF StepInv, BetweenTheTwo
      <4> QED
        BY <1>1, <4>1
    <3> QED
      BY <3>1, <3>2
  <2> QED
    BY <2>1, <2>2 DEF BetweenTheTwo
<1> QED
  BY <1>4, <1>5, <1>6, <1>7 DEF StepInv

LEMMA BeginCreateInStep ==
  ASSUME IndInv, StepInv, NEW p \in Requests, NEW n \in Names, BeginCreate(p, n)
  PROVE  StepInv'
<1> DEFINE j == [op |-> "create", id |-> NoId, name |-> n]
<1> DEFINE rest == {}
<1>1. pc[p] = "idle" /\ Start(p, j, rest) /\ Begins({n}) /\ row' = row /\ account' = account
  BY DEF BeginCreate
<1>2. j.op = "create" /\ {k.name : k \in rest \cup {j}} = {n}
  OBVIOUS
<1>3. /\ j \notin rest /\ \A k \in rest : Live(k.id)
      /\ \A a, b \in rest \cup {j} : a.name = b.name => a = b
      /\ j.op # "create" => Live(j.id)
  BY <1>1, <1>2
<1> HIDE DEF j, rest
<1> QED
  BY <1>1, <1>2, <1>3, BeginInStep

LEMMA BeginChangeInStep ==
  ASSUME IndInv, StepInv, NEW p \in Requests, NEW op \in Ops, NEW i \in Ids, BeginChange(p, op, i)
  PROVE  StepInv'
<1> DEFINE j == [op |-> op, id |-> i, name |-> row[i].name]
<1> DEFINE rest == {}
<1>1. /\ pc[p] = "idle" /\ Start(p, j, rest) /\ Begins({row[i].name}) /\ Live(i)
      /\ row' = row /\ account' = account
  BY DEF BeginChange
<1>2. j.id = i /\ {k.name : k \in rest \cup {j}} = {row[i].name}
  OBVIOUS
<1>3. /\ j \notin rest /\ \A k \in rest : Live(k.id)
      /\ \A a, b \in rest \cup {j} : a.name = b.name => a = b
      /\ j.op # "create" => Live(j.id)
  BY <1>1, <1>2
<1> HIDE DEF j, rest
<1> QED
  BY <1>1, <1>2, <1>3, BeginInStep

LEMMA BeginSweepInStep ==
  ASSUME IndInv, StepInv, NEW p \in Requests, BeginSweep(p)
  PROVE  StepInv'
<1>1. PICK i \in Expired : Start(p, SweepJob(i), {SweepJob(k) : k \in Expired \ {i}})
  BY DEF BeginSweep
<1> DEFINE rest == {SweepJob(k) : k \in Expired \ {i}}
<1>2. \A k \in Expired : SweepJob(k).id = k /\ SweepJob(k).name = row[k].name /\ Live(k) /\ k \in Ids
  BY DEF SweepJob, Expired, Live
<1>3. {k.name : k \in rest \cup {SweepJob(i)}} = {row[k].name : k \in Expired}
  <2>1. rest \cup {SweepJob(i)} = {SweepJob(k) : k \in Expired}
    BY <1>1
  <2>2. {k.name : k \in {SweepJob(l) : l \in Expired}} = {row[k].name : k \in Expired}
    BY <1>2
  <2> QED
    BY <2>1, <2>2
<1>4. \A a, b \in rest \cup {SweepJob(i)} : a.name = b.name => a = b
  <2>1. SUFFICES ASSUME NEW k \in Expired, NEW l \in Expired, row[k].name = row[l].name
                 PROVE  k = l
    BY <1>2
  <2> QED
    BY <1>2, <2>1 DEF StepInv, LiveUnique
<1>5. SweepJob(i) \notin rest /\ (\A k \in rest : Live(k.id)) /\ Live(SweepJob(i).id)
  BY <1>2
<1>6. pc[p] = "idle" /\ Begins({row[k].name : k \in Expired}) /\ row' = row /\ account' = account
  BY DEF BeginSweep
<1> DEFINE j == SweepJob(i)
<1>7. Start(p, j, rest) /\ Begins({k.name : k \in rest \cup {j}})
  BY <1>1, <1>3, <1>6
<1> HIDE DEF rest, j
<1> QED
  BY <1>4, <1>5, <1>6, <1>7, BeginInStep DEF j

\* A name that one request is at work on, and has not yet called about, is in step.
LEMMA AgreeAtCall ==
  ASSUME IndInv, StepInv, NEW p \in Requests, pc[p] = "call",
         NEW n \in Names, n = job[p].name, n \notin loose
  PROVE  Agree(n)
<1>1. \A q \in Requests : pc[q] = "record" => job[q].name # n
  BY AloneOnName DEF StepInv
<1> QED
  BY <1>1 DEF StepInv, BetweenTheTwo

\* Request p gives its job up, with whatever it has done to its account.
LEMMA GivenUpInStep ==
  ASSUME IndInv, StepInv, NEW p \in Requests, pc[p] # "idle", Proceed(p) \/ Stop(p),
         row' = row, loose \subseteq loose',
         \A m \in Names : m # job[p].name => account'[m] = account[m],
         NEW n \in Names, n = job[p].name, n \notin loose' => Agree(n)'
  PROVE  StepInv'
<1>1. Advanced(p)
  BY ProceedAdvances DEF IndInv
<1>2. OnlyAbout(n)
  BY DEF OnlyAbout
<1>3. LiveUnique'
  BY DEF StepInv, LiveUnique, Live
<1>4. \A i \in Ids : Live(i) => Live(i)'
  BY DEF Live
<1> QED
  BY <1>1, <1>2, <1>3, <1>4, AdvanceInStep

\* Nothing is changed but what request p does next.
LEMMA LeftInStep ==
  ASSUME IndInv, StepInv, NEW p \in Requests, pc[p] = "call", Proceed(p) \/ Stop(p),
         row' = row, account' = account, loose' = loose
  PROVE  StepInv'
<1>1. PICK n \in Names : n = job[p].name
  BY DEF IndInv, JobsSound, JobType
<1>2. n \notin loose' => Agree(n)'
  BY <1>1, AgreeAtCall DEF Agree, Live
<1> QED
  BY <1>1, <1>2, GivenUpInStep

LEMMA CallFailsInStep ==
  ASSUME IndInv, StepInv, NEW p \in Requests, CallFails(p)
  PROVE  StepInv'
BY LeftInStep DEF CallFails

\* A new password, or a repair, leaves an account open and never opens one anew.
LEMMA UnrecordedAgrees ==
  ASSUME IndInv, StepInv, NEW p \in Requests, pc[p] = "call",
         Accepts(job[p]), job[p].op \notin Recorded, row' = row,
         account' = [account EXCEPT ![job[p].name] = Effect(job[p])],
         NEW n \in Names, n = job[p].name, n \notin loose
  PROVE  Agree(n)'
<1>1. PICK j \in JobType : j = job[p] /\ Sound(j) /\ j.name = n
  BY DEF IndInv, JobsSound
<1>2. j.op \in {"password", "repair"}
  BY <1>1 DEF JobType, JobOps, Recorded, Deletes, Suspends
<1>3. j.id \in Ids /\ Live(j.id) /\ row[j.id].name = n
  <2>1. j.op # "create" /\ Live(job[p].id)
    BY <1>1, <1>2 DEF StepInv, WorkedOnLive
  <2> QED
    BY <1>1, <2>1 DEF Sound
<1>4. Agree(n) /\ account[n] # "none"
  BY <1>3, AgreeAtCall DEF Agree
<1>5. Effect(j) \in {account[n], "open"}
  BY <1>1, <1>2, <1>4 DEF Effect, Deletes, Suspends
<1>6. account'[n] \in {account[n], "open"}
  BY <1>1, <1>5 DEF IndInv, TypeOK
<1> QED
  BY <1>4, <1>6 DEF Agree, Live

LEMMA AnswerLostInStep ==
  ASSUME IndInv, StepInv, NEW p \in Requests, AnswerLost(p)
  PROVE  StepInv'
<1>1. PICK n \in Names : n = job[p].name
  BY DEF IndInv, JobsSound, JobType, AnswerLost
<1>2. job[p].op \notin Recorded => Agree(n)' \/ n \in loose
  BY <1>1, UnrecordedAgrees DEF AnswerLost
<1>3. n \notin loose' => Agree(n)'
  BY <1>1, <1>2 DEF AnswerLost
<1>4. \A m \in Names : m # job[p].name => account'[m] = account[m]
  BY DEF AnswerLost, IndInv, TypeOK
<1>5. pc[p] # "idle" /\ Proceed(p) /\ row' = row /\ loose \subseteq loose'
  BY DEF AnswerLost
<1> QED
  BY <1>1, <1>3, <1>4, <1>5, GivenUpInStep

LEMMA RecordFailsInStep ==
  ASSUME IndInv, StepInv, NEW p \in Requests, RecordFails(p)
  PROVE  StepInv'
<1>1. PICK n \in Names : n = job[p].name
  BY DEF IndInv, JobsSound, JobType, RecordFails
<1>2. /\ pc[p] # "idle" /\ Proceed(p) /\ row' = row /\ loose \subseteq loose'
      /\ account' = account /\ n \in loose'
  BY <1>1 DEF RecordFails
<1> QED
  BY <1>1, <1>2, GivenUpInStep

LEMMA CrashInStep ==
  ASSUME IndInv, StepInv, NEW p \in Requests, Crash(p)
  PROVE  StepInv'
<1>1. PICK n \in Names : n = job[p].name
  BY DEF IndInv, JobsSound, JobType, Crash
<1>2. CASE pc[p] = "record"
  <2>1. /\ pc[p] # "idle" /\ Stop(p) /\ row' = row /\ loose \subseteq loose'
        /\ account' = account /\ n \in loose'
    BY <1>1, <1>2 DEF Crash
  <2> QED
    BY <1>1, <2>1, GivenUpInStep
<1>3. CASE pc[p] # "record"
  <2>1. pc[p] = "call" /\ Stop(p) /\ row' = row /\ account' = account /\ loose' = loose
    BY <1>3 DEF Crash, IndInv, TypeOK
  <2> QED
    BY <2>1, LeftInStep
<1> QED
  BY <1>2, <1>3

\* The call goes through, and the statement is still to come.
LEMMA CalledInStep ==
  ASSUME IndInv, StepInv, NEW p \in Requests, pc[p] = "call",
         Accepts(job[p]), job[p].op \in Recorded,
         account' = [account EXCEPT ![job[p].name] = Effect(job[p])],
         pc' = [pc EXCEPT ![p] = "record"], UNCHANGED <<job, todo, row, loose>>
  PROVE  StepInv'
<1>1. PICK j \in JobType : j = job[p]
  BY DEF IndInv, JobsSound
<1>2. j.name \in Names /\ j.op \in Recorded
  BY <1>1 DEF JobType
<1>3. Effect(j)' = Effect(j)
  BY <1>2, EffectRecorded
<1>4. OnlyAbout(j.name) /\ account'[j.name] = Effect(j)
  BY <1>1, <1>2 DEF OnlyAbout, IndInv, TypeOK
<1>5. pc' \in [Requests -> {"idle", "call", "record"}] /\ pc'[p] = "record"
      /\ \A q \in Requests \ {p} : pc'[q] = pc[q]
  BY DEF IndInv, TypeOK
<1>6. LiveUnique' /\ OneAtWork' /\ WorkedOnLive'
  <2>1. \A q \in Requests : pc'[q] # "idle" <=> pc[q] # "idle"
    BY <1>5
  <2> QED
    BY <2>1 DEF StepInv, LiveUnique, OneAtWork, WorkedOnLive, Live
<1>7. HalfDone(p)'
  <2>1. j.op = "create" /\ j.name \notin loose => \A i \in Ids : Live(i) => row[i].name # j.name
    <3> SUFFICES ASSUME j.op = "create", j.name \notin loose
                 PROVE  \A i \in Ids : Live(i) => row[i].name # j.name
      OBVIOUS
    <3>1. account[j.name] = "none"
      BY <1>1 DEF Accepts, Deletes
    <3>2. PICK n \in Names : n = j.name
      BY <1>2
    <3>3. Agree(n)
      BY <1>1, <3>2, AgreeAtCall
    <3> QED
      BY <3>1, <3>2, <3>3 DEF Agree
  <2>2. job'[p] = j
    BY <1>1
  <2> QED
    BY <1>2, <1>3, <1>4, <2>1, <2>2 DEF HalfDone, Live, Effect
<1>8. ASSUME NEW q \in Requests, pc'[q] = "record" PROVE HalfDone(q)'
  <2>1. CASE q = p
    BY <1>7, <2>1
  <2>2. CASE q # p
    <3>1. pc[q] = "record" /\ job'[q] = job[q]
      BY <1>5, <1>8, <2>2
    <3> QED
      BY <1>1, <1>4, <2>2, <3>1, OthersHalfDone
  <2> QED
    BY <2>1, <2>2
<1>9. ASSUME NEW n \in Names \ loose'
      PROVE  Agree(n)' \/ \E q \in Requests : pc'[q] = "record" /\ job'[q].name = n
  <2>1. CASE n = j.name
    BY <1>1, <1>5, <2>1
  <2>2. CASE n # j.name
    <3>1. CASE Agree(n)
      BY <1>4, <1>9, <2>2, <3>1, OthersAgree
    <3>2. CASE ~ Agree(n)
      <4>1. PICK q \in Requests : pc[q] = "record" /\ job[q].name = n
        BY <1>9, <3>2 DEF StepInv, BetweenTheTwo
      <4> QED
        BY <1>5, <4>1
    <3> QED
      BY <3>1, <3>2
  <2> QED
    BY <2>1, <2>2
<1> QED
  BY <1>6, <1>8, <1>9 DEF StepInv, BetweenTheTwo

LEMMA CallInStep ==
  ASSUME IndInv, StepInv, NEW p \in Requests, Call(p)
  PROVE  StepInv'
<1>1. CASE ~ Accepts(job[p])
  BY <1>1, LeftInStep DEF Call
<1>2. CASE Accepts(job[p]) /\ job[p].op \in Recorded
  <2>1. /\ pc[p] = "call" /\ account' = [account EXCEPT ![job[p].name] = Effect(job[p])]
        /\ pc' = [pc EXCEPT ![p] = "record"] /\ UNCHANGED <<job, todo, row, loose>>
    BY <1>2 DEF Call
  <2> QED
    BY <1>2, <2>1, CalledInStep
<1>3. CASE Accepts(job[p]) /\ job[p].op \notin Recorded
  <2>1. /\ pc[p] = "call" /\ Proceed(p) /\ row' = row /\ loose' = loose
        /\ account' = [account EXCEPT ![job[p].name] = Effect(job[p])]
    BY <1>3 DEF Call
  <2>2. PICK n \in Names : n = job[p].name
    BY <2>1 DEF IndInv, JobsSound, JobType
  <2>3. n \notin loose' => Agree(n)'
    BY <1>3, <2>1, <2>2, UnrecordedAgrees
  <2>4. \A m \in Names : m # job[p].name => account'[m] = account[m]
    BY <2>1 DEF IndInv, TypeOK
  <2> QED
    BY <2>1, <2>2, <2>3, <2>4, GivenUpInStep
<1> QED
  BY <1>1, <1>2, <1>3

LEMMA InsertInStep ==
  ASSUME IndInv, StepInv, NEW p \in Requests, InsertMailbox(p)
  PROVE  StepInv'
<1>1. PICK n \in Names : n = job[p].name
  BY DEF IndInv, JobsSound, JobType, InsertMailbox
<1>2. Advanced(p) /\ loose' = loose /\ account' = account /\ pc[p] = "record" /\ job[p].op = "create"
  BY ProceedAdvances DEF IndInv, InsertMailbox
<1>3. HalfDone(p)
  BY <1>2 DEF StepInv, BetweenTheTwo
<1>4. CASE \E i \in Ids : Live(i) /\ row[i].name = n
  <2>1. row' = row
    BY <1>1, <1>4 DEF InsertMailbox
  <2>2. n \in loose'
    BY <1>1, <1>2, <1>3, <1>4 DEF HalfDone
  <2>3. pc[p] # "idle" /\ Proceed(p) /\ loose \subseteq loose'
    BY <1>2 DEF InsertMailbox
  <2> QED
    BY <1>1, <1>2, <2>1, <2>2, <2>3, GivenUpInStep
<1>5. CASE ~ \E i \in Ids : Live(i) /\ row[i].name = n
  <2> DEFINE r == [NoRow EXCEPT !.status = "active", !.name = n]
  <2>1. PICK i \in Fresh : row' = [row EXCEPT ![i] = r]
    BY <1>1, <1>5 DEF InsertMailbox
  <2>2. r.status = "active" /\ r.name = n
    BY DEF NoRow
  <2>3. /\ i \in Ids /\ row[i].status = "absent"
        /\ row'[i].status = "active" /\ row'[i].name = n
        /\ \A k \in Ids \ {i} : row'[k] = row[k]
    BY <2>1, <2>2 DEF Fresh, IndInv, TypeOK
  <2> HIDE DEF r
  <2>4. OnlyAbout(n)
    BY <1>2, <2>3 DEF OnlyAbout
  <2>5. LiveUnique'
    BY <1>5, <2>3 DEF StepInv, LiveUnique, Live
  <2>6. \A k \in Ids : Live(k) => Live(k)'
    BY <2>3 DEF Live
  <2>7. n \notin loose' => Agree(n)'
    <3> SUFFICES ASSUME n \notin loose PROVE Agree(n)'
      BY <1>2
    <3>1. account'[n] = "open"
      BY <1>1, <1>2, <1>3, EffectRecorded DEF HalfDone
    <3> QED
      BY <2>3, <3>1 DEF Agree, Live
  <2> QED
    BY <1>1, <1>2, <2>4, <2>5, <2>6, <2>7, AdvanceInStep
<1> QED
  BY <1>4, <1>5

LEMMA RecordChangeInStep ==
  ASSUME IndInv, StepInv, NEW p \in Requests, RecordChange(p)
  PROVE  StepInv'
<1>1. PICK j \in JobType : j = job[p] /\ Sound(j)
  BY DEF IndInv, JobsSound, RecordChange
<1>2. PICK n \in Names : n = job[p].name /\ n = j.name
  BY <1>1 DEF JobType
<1>3. /\ Advanced(p) /\ loose' = loose /\ account' = account
      /\ pc[p] = "record" /\ j.op # "create"
  BY <1>1, ProceedAdvances DEF IndInv, RecordChange
<1>4. PICK i \in Ids : i = j.id /\ row[i].name = n
  BY <1>1, <1>2, <1>3 DEF Sound
<1>5. HalfDone(p)
  BY <1>3 DEF StepInv, BetweenTheTwo
<1>6. CASE ~ Live(i)
  <2>1. row' = row
    BY <1>1, <1>4, <1>6 DEF RecordChange
  <2>2. n \in loose'
    BY <1>1, <1>2, <1>3, <1>4, <1>6 DEF StepInv, WorkedOnLive
  <2>3. pc[p] # "idle" /\ Proceed(p) /\ loose \subseteq loose'
    BY <1>3 DEF RecordChange
  <2> QED
    BY <1>2, <1>3, <2>1, <2>2, <2>3, GivenUpInStep
<1>7. CASE Live(i)
  <2>1. /\ row'[i].status = RecordedStatus(j.op) /\ row'[i].name = n
        /\ \A k \in Ids \ {i} : row'[k] = row[k]
    <3>1. row' = [row EXCEPT ![i].status = RecordedStatus(j.op)]
      BY <1>1, <1>4, <1>7 DEF RecordChange
    <3>2. row[i] \in RowType
      BY DEF IndInv, TypeOK
    <3> QED
      BY <1>4, <3>1, <3>2 DEF IndInv, TypeOK, RowType
  <2>2. OnlyAbout(n)
    BY <1>3, <1>4, <2>1 DEF OnlyAbout
  <2>3. LiveUnique'
    BY <1>4, <1>7, <2>1 DEF StepInv, LiveUnique, Live
  <2>4. \A k \in Ids : Live(k) => Live(k)' \/ (job[p].op # "create" /\ k = job[p].id)
    BY <1>1, <1>3, <1>4, <2>1 DEF Live
  <2>5. n \notin loose' => Agree(n)'
    <3> SUFFICES ASSUME n \notin loose PROVE Agree(n)'
      BY <1>3
    <3>1. account'[n] = Effect(j) /\ j.op \in Recorded
      BY <1>1, <1>2, <1>3, <1>5 DEF HalfDone
    <3>2. \A k \in Ids : row'[k].status \in {"active", "suspended"} /\ row'[k].name = n => k = i
      BY <1>4, <1>7, <2>1 DEF StepInv, LiveUnique, Live
    <3>3. CASE j.op \in Deletes
      <4>1. account'[n] = "none" /\ row'[i].status = "gone"
        BY <2>1, <3>1, <3>3, EffectRecorded DEF RecordedStatus
      <4> QED
        BY <3>2, <4>1 DEF Agree, Live
    <3>4. CASE j.op \in Suspends
      <4>1. account'[n] = "blocked" /\ row'[i].status = "suspended"
        BY <2>1, <3>1, <3>4, EffectRecorded DEF RecordedStatus, Deletes, Suspends
      <4> QED
        BY <2>1, <3>2, <4>1 DEF Agree, Live
    <3>5. CASE j.op = "activate"
      <4>1. account'[n] = "open" /\ row'[i].status = "active"
        BY <2>1, <3>1, <3>5, EffectRecorded DEF RecordedStatus, Deletes, Suspends
      <4> QED
        BY <2>1, <3>2, <4>1 DEF Agree, Live
    <3> QED
      BY <1>3, <3>1, <3>3, <3>4, <3>5 DEF Recorded
  <2> QED
    BY <1>2, <1>3, <2>2, <2>3, <2>4, <2>5, AdvanceInStep
<1> QED
  BY <1>6, <1>7

\* A step that changes the records in nothing that InStep is about.
LEMMA QuietInStep ==
  ASSUME IndInv, StepInv, UNCHANGED <<account, pc, job, todo, loose>>,
         \A i \in Ids : row'[i].status = row[i].status /\ row'[i].name = row[i].name
  PROVE  StepInv'
<1>1. \A i \in Ids : Live(i)' <=> Live(i)
  BY DEF Live
<1>2. LiveUnique' /\ OneAtWork'
  BY <1>1 DEF StepInv, LiveUnique, OneAtWork
<1>3. WorkedOnLive'
  <2>1. ASSUME NEW q \in Requests, pc'[q] # "idle", job'[q].op # "create", job'[q].name \notin loose'
        PROVE  row'[job'[q].id].status \in {"active", "suspended"}
    <3>1. Live(job[q].id) /\ job[q].id \in Ids
      BY <2>1 DEF StepInv, WorkedOnLive, IndInv, JobsSound, Sound
    <3> QED
      BY <3>1 DEF Live
  <2>2. ASSUME NEW q \in Requests, NEW k \in todo'[q], k.name \notin loose'
        PROVE  Live(k.id)'
    <3>1. Live(k.id) /\ k.id \in Ids
      BY <2>2 DEF StepInv, WorkedOnLive, IndInv, JobsSound, Sound
    <3> QED
      BY <1>1, <3>1
  <2> QED
    BY <2>1, <2>2 DEF WorkedOnLive, Live
<1>4. BetweenTheTwo'
  <2>1. ASSUME NEW q \in Requests, pc[q] = "record" PROVE HalfDone(q)'
    BY <1>1, <2>1 DEF StepInv, BetweenTheTwo, HalfDone, Effect
  <2>2. ASSUME NEW n \in Names, Agree(n) PROVE Agree(n)'
    BY <1>1, <2>2 DEF Agree
  <2> QED
    BY <2>1, <2>2 DEF StepInv, BetweenTheTwo
<1> QED
  BY <1>2, <1>3, <1>4 DEF StepInv

LEMMA ExpirationInStep ==
  ASSUME IndInv, StepInv, NEW i \in Ids,
         Expire(i) \/ \E remove \in BOOLEAN : SetExpiration(i, remove)
  PROVE  StepInv'
<1>1. row[i] \in RowType /\ UNCHANGED <<account, pc, job, todo, loose>>
  BY DEF IndInv, TypeOK, Expire, SetExpiration
<1>2. \A k \in Ids : row'[k].status = row[k].status /\ row'[k].name = row[k].name
  BY <1>1 DEF IndInv, TypeOK, RowType, Expire, SetExpiration
<1> QED
  BY <1>1, <1>2, QuietInStep

LEMMA StepKeepsStepInv ==
  ASSUME IndInv, StepInv, [Next]_vars
  PROVE  StepInv'
<1>1. CASE UNCHANGED vars
  BY <1>1, QuietInStep DEF vars
<1>2. ASSUME NEW p \in Requests, NEW n \in Names, BeginCreate(p, n) PROVE StepInv'
  BY <1>2, BeginCreateInStep
<1>3. ASSUME NEW p \in Requests, NEW op \in Ops, NEW i \in Ids, BeginChange(p, op, i) PROVE StepInv'
  BY <1>3, BeginChangeInStep
<1>4. ASSUME NEW p \in Requests, BeginSweep(p) PROVE StepInv'
  BY <1>4, BeginSweepInStep
<1>5. ASSUME NEW p \in Requests, Call(p) PROVE StepInv'
  BY <1>5, CallInStep
<1>6. ASSUME NEW p \in Requests, CallFails(p) PROVE StepInv'
  BY <1>6, CallFailsInStep
<1>7. ASSUME NEW p \in Requests, AnswerLost(p) PROVE StepInv'
  BY <1>7, AnswerLostInStep
<1>8. ASSUME NEW p \in Requests, Record(p) PROVE StepInv'
  BY <1>8, InsertInStep, RecordChangeInStep DEF Record
<1>9. ASSUME NEW p \in Requests, RecordFails(p) PROVE StepInv'
  BY <1>9, RecordFailsInStep
<1>10. ASSUME NEW p \in Requests, Crash(p) PROVE StepInv'
  BY <1>10, CrashInStep
<1>11. ASSUME NEW i \in Ids, Expire(i) \/ \E remove \in BOOLEAN : SetExpiration(i, remove)
       PROVE  StepInv'
  BY <1>11, ExpirationInStep
<1> QED
  BY <1>1, <1>2, <1>3, <1>4, <1>5, <1>6, <1>7, <1>8, <1>9, <1>10, <1>11 DEF Next

LEMMA InitStepInv ==
  ASSUME Init PROVE StepInv
<1>1. \A i \in Ids : row[i].status = "absent"
  BY DEF Init, NoRow
<1> QED
  BY <1>1 DEF Init, StepInv, LiveUnique, OneAtWork, WorkedOnLive, BetweenTheTwo, Agree, Live

LEMMA InStepFromStepInv ==
  ASSUME StepInv PROVE InStep
<1> SUFFICES ASSUME NEW n \in Names \ loose, ~AtWork(n) PROVE Agree(n)
  BY DEF InStep, Agree
<1>1. \A q \in Requests : pc[q] = "record" => job[q].name # n
  BY DEF AtWork
<1> QED
  BY <1>1 DEF StepInv, BetweenTheTwo

\* Which requests are at work on a name, and how far they are, keeps its account
\* and its row in step.
THEOREM StepInvCorrect == Spec => []StepInv
<1>1. Init => StepInv
  BY InitStepInv
<1>2. IndInv /\ StepInv /\ [Next]_vars => StepInv'
  BY StepKeepsStepInv
<1> QED
  BY <1>1, <1>2, IndInvCorrect, PTL DEF Spec

\* Whatever fails and however requests and sweeps interleave, a name that no one
\* is at work on, and for which nothing stopped half way and no two went on
\* together, has an account exactly when it has a mailbox on record, and an active
\* mailbox an open one.
THEOREM InStepCorrect == Spec => []InStep
BY StepInvCorrect, InStepFromStepInv, PTL

-----------------------------------------------------------------------------
(* Links that set a password: how often.                                   *)

LEMMA FiniteResets ==
  ASSUME NEW S \in SUBSET Resets
  PROVE  IsFiniteSet(S) /\ Cardinality(S) \in Nat /\ Cardinality(S) <= Cardinality(Resets)
         /\ Cardinality(Resets) \in Nat
<1>1. IsFiniteSet(S) /\ Cardinality(S) <= Cardinality(Resets)
  BY ResetsAssumption, FS_Subset
<1> QED
  BY <1>1, ResetsAssumption, FS_CardinalityType

\* Requests that may still use a link and requests that have used it are
\* different requests.
LEMMA RoomForResets ==
  ASSUME NEW S \in SUBSET Resets, NEW T \in SUBSET Resets, S \cap T = {}
  PROVE  Cardinality(S) + Cardinality(T) <= Cardinality(Resets)
<1>1. Cardinality(S \cup T) = Cardinality(S) + Cardinality(T) - Cardinality(S \cap T)
  BY FiniteResets, FS_Union
<1>2. Cardinality(S \cap T) = 0
  BY FS_EmptySet
<1>3. S \cup T \in SUBSET Resets
  OBVIOUS
<1>4. /\ Cardinality(S \cup T) <= Cardinality(Resets)
      /\ Cardinality(S) \in Nat /\ Cardinality(T) \in Nat /\ Cardinality(Resets) \in Nat
  BY <1>3, FiniteResets
<1> QED
  BY <1>1, <1>2, <1>4

\* A step that leaves requests, uses and unmarked tokens alone, and turns no
\* token back.
LEMMA TokensOnly ==
  ASSUME ResetInv, ResetTypeOK', UNCHANGED <<step, held, uses, unmarked>>,
         \A t \in Tokens : token'[t].state \in {"unissued", "open"}
                             => token[t].state \in {"unissued", "open"}
  PROVE  ResetInv'
BY DEF ResetInv, UsesCounted, Racing, Marking

\* What the tokens of other requests and the sets of requests become when one
\* request s takes a step with token t.
LEMMA OneRequest ==
  ASSUME ResetTypeOK, NEW s \in Resets, NEW t \in Tokens, NEW to, NEW h,
         step' = [step EXCEPT ![s] = to], held' = [held EXCEPT ![s] = h],
         step[s] = "idle" \/ held[s] = t, h = t \/ to = "idle"
  PROVE  /\ \A u \in Tokens \ {t} : Racing(u)' = Racing(u) /\ Marking(u)' = Marking(u)
         /\ Racing(t)' = IF to \in {"load", "call"} THEN Racing(t) \cup {s} ELSE Racing(t) \ {s}
         /\ Marking(t)' = IF to = "mark" THEN Marking(t) \cup {s} ELSE Marking(t) \ {s}
BY DEF ResetTypeOK, Racing, Marking

LEMMA BeginResetStep ==
  ASSUME ResetInv, NEW s \in Resets, NEW t \in Tokens, BeginReset(s, t)
  PROVE  ResetInv'
<1>1. /\ step[s] = "idle" /\ token[t].state = "open"
      /\ step' = [step EXCEPT ![s] = "load"] /\ held' = [held EXCEPT ![s] = t]
      /\ UNCHANGED <<token, known, uses, unmarked>>
  BY DEF BeginReset, Valid, Goes
<1>2. ResetTypeOK'
  BY <1>1 DEF ResetInv, ResetTypeOK
<1>3. /\ \A u \in Tokens \ {t} : Racing(u)' = Racing(u) /\ Marking(u)' = Marking(u)
      /\ Racing(t)' = Racing(t) \cup {s}
      /\ Marking(t)' = Marking(t) \ {s}
  BY <1>1, OneRequest DEF ResetInv
<1>4. Marking(t)' = Marking(t)
  BY <1>1, <1>3 DEF Marking
<1>5. Cardinality(Marking(t)) + Cardinality(Racing(t) \cup {s}) <= Cardinality(Resets)
  BY <1>1, RoomForResets DEF Marking, Racing
<1>6. UsesCounted'
  BY <1>1, <1>3, <1>4, <1>5 DEF ResetInv, UsesCounted
<1> QED
  BY <1>2, <1>6 DEF ResetInv

\* The request gives up, or goes on, without having set a password.
LEMMA QuietStep ==
  ASSUME ResetInv, NEW s \in Resets, step[s] \in {"load", "call"},
         \/ step' = [step EXCEPT ![s] = "call"] /\ held' = held
         \/ step' = [step EXCEPT ![s] = "idle"] /\ held' = [held EXCEPT ![s] = NoToken],
         known' \in [Resets -> SUBSET Ids], UNCHANGED <<token, uses, unmarked>>
  PROVE  ResetInv'
<1>1. PICK t \in Tokens : held[s] = t
  BY DEF ResetInv, ResetTypeOK
<1>2. ResetTypeOK'
  BY DEF ResetInv, ResetTypeOK
<1>3. /\ \A u \in Tokens \ {t} : Racing(u)' = Racing(u) /\ Marking(u)' = Marking(u)
      /\ Racing(t)' \in {Racing(t), Racing(t) \ {s}}
      /\ Marking(t)' = Marking(t)
  BY <1>1 DEF ResetInv, ResetTypeOK, Racing, Marking
<1>4. Racing(t)' \subseteq Racing(t) /\ Racing(t) \in SUBSET Resets
  BY <1>3 DEF Racing
<1>5. /\ Cardinality(Racing(t)') <= Cardinality(Racing(t))
      /\ Cardinality(Racing(t)') \in Nat /\ Cardinality(Racing(t)) \in Nat
      /\ Cardinality(Resets) \in Nat /\ uses[t] \in Nat
  BY <1>4, FiniteResets, FS_Subset DEF ResetInv, ResetTypeOK
<1>6. UsesCounted'
  BY <1>3, <1>5 DEF ResetInv, UsesCounted
<1> QED
  BY <1>2, <1>6 DEF ResetInv

LEMMA SetPasswordStep ==
  ASSUME ResetInv, NEW s \in Resets, SetPassword(s)
  PROVE  ResetInv'
<1>1. /\ step[s] = "call" /\ step' = [step EXCEPT ![s] = "mark"]
      /\ uses' = [uses EXCEPT ![held[s]] = uses[held[s]] + 1]
      /\ UNCHANGED <<token, held, known, unmarked>>
  BY DEF SetPassword, PasswordSet, Goes
<1>2. PICK t \in Tokens : held[s] = t
  BY <1>1 DEF ResetInv, ResetTypeOK
<1>3. ResetTypeOK'
  BY <1>1, <1>2 DEF ResetInv, ResetTypeOK
<1>4. /\ \A u \in Tokens \ {t} : Racing(u)' = Racing(u) /\ Marking(u)' = Marking(u)
      /\ Racing(t)' = Racing(t) \ {s} /\ s \in Racing(t)
      /\ Marking(t)' = Marking(t) \cup {s} /\ s \notin Marking(t)
  BY <1>1, <1>2 DEF ResetInv, ResetTypeOK, Racing, Marking
<1>5. Racing(t) \in SUBSET Resets /\ Marking(t) \in SUBSET Resets
  BY DEF Racing, Marking
<1>6. /\ Cardinality(Racing(t) \ {s}) = Cardinality(Racing(t)) - 1
      /\ Cardinality(Marking(t) \cup {s}) = Cardinality(Marking(t)) + 1
  BY <1>4, <1>5, FiniteResets, FS_RemoveElement, FS_AddElement
<1>7. /\ Cardinality(Racing(t)) \in Nat /\ Cardinality(Marking(t)) \in Nat
      /\ Cardinality(Resets) \in Nat /\ uses[t] \in Nat /\ uses'[t] = uses[t] + 1
      /\ \A u \in Tokens \ {t} : uses'[u] = uses[u]
  BY <1>1, <1>2, <1>5, FiniteResets DEF ResetInv, ResetTypeOK
<1>8. UsesCounted'
  <2>1. ASSUME NEW u \in Tokens \ unmarked
        PROVE  /\ token'[u].state \in {"unissued", "open"} => uses'[u] = Cardinality(Marking(u)')
               /\ uses'[u] + Cardinality(Racing(u)') <= Cardinality(Resets)
    <3>1. CASE u = t
      <4>1. /\ token[t].state \in {"unissued", "open"} => uses[t] = Cardinality(Marking(t))
            /\ uses[t] + Cardinality(Racing(t)) <= Cardinality(Resets)
        BY <2>1, <3>1 DEF ResetInv, UsesCounted
      <4>2. /\ Cardinality(Racing(t)') = Cardinality(Racing(t)) - 1
            /\ Cardinality(Marking(t)') = Cardinality(Marking(t)) + 1
        BY <1>4, <1>6
      <4>3. /\ token'[t].state \in {"unissued", "open"} => uses'[t] = Cardinality(Marking(t)')
            /\ uses'[t] + Cardinality(Racing(t)') <= Cardinality(Resets)
        BY <1>1, <1>7, <4>1, <4>2
      <4> QED
        BY <3>1, <4>3
    <3>2. CASE u # t
      BY <1>1, <1>4, <1>7, <2>1, <3>2 DEF ResetInv, UsesCounted
    <3> QED
      BY <3>1, <3>2
  <2> QED
    BY <1>1, <2>1 DEF UsesCounted
<1> QED
  BY <1>3, <1>8 DEF ResetInv

\* The request is over with its token marked, or counted as unmarked.
LEMMA OverStep ==
  ASSUME ResetInv, NEW s \in Resets, PasswordAnswerLost(s) \/ MarkUsed(s) \/ MarkFails(s)
  PROVE  ResetInv'
<1>1. /\ step[s] \in {"call", "mark"}
      /\ step' = [step EXCEPT ![s] = "idle"] /\ held' = [held EXCEPT ![s] = NoToken]
      /\ known' = [known EXCEPT ![s] = {}]
  BY DEF PasswordAnswerLost, MarkUsed, MarkFails, End, Goes
<1>2. PICK t \in Tokens : held[s] = t
  BY <1>1 DEF ResetInv, ResetTypeOK
<1>3. \A u \in Tokens \ {t} : Racing(u)' = Racing(u) /\ Marking(u)' = Marking(u)
  BY <1>1, <1>2 DEF ResetInv, ResetTypeOK, Racing, Marking
<1>4. CASE PasswordAnswerLost(s) \/ MarkFails(s)
  <2>1. /\ unmarked' = unmarked \cup {t} /\ token' = token
        /\ uses' \in [Tokens -> Nat] /\ \A u \in Tokens \ {t} : uses'[u] = uses[u]
    BY <1>2, <1>4 DEF PasswordAnswerLost, MarkFails, PasswordSet, ResetInv, ResetTypeOK
  <2>2. ResetTypeOK'
    BY <1>1, <2>1 DEF ResetInv, ResetTypeOK
  <2>3. UsesCounted'
    BY <1>3, <2>1 DEF ResetInv, UsesCounted
  <2> QED
    BY <2>2, <2>3 DEF ResetInv
<1>5. CASE MarkUsed(s)
  <2>1. /\ step[s] = "mark" /\ UNCHANGED <<uses, unmarked>>
        /\ token' = IF token[t].state = "gone" THEN token ELSE [token EXCEPT ![t].state = "used"]
    BY <1>2, <1>5 DEF MarkUsed
  <2>2. /\ token' \in [Tokens -> TokenType] /\ token'[t].state \in {"gone", "used"}
        /\ \A u \in Tokens : token'[u].id = token[u].id
        /\ \A u \in Tokens \ {t} : token'[u] = token[u]
    <3>1. token[t] \in TokenType /\ token \in [Tokens -> TokenType]
      BY DEF ResetInv, ResetTypeOK
    <3>2. CASE token[t].state = "gone"
      BY <2>1, <3>1, <3>2
    <3>3. CASE token[t].state # "gone"
      <4>1. token' = [token EXCEPT ![t].state = "used"]
        BY <2>1, <3>3
      <4> QED
        BY <3>1, <4>1 DEF TokenType
    <3> QED
      BY <3>2, <3>3
  <2>3. token[t].id # NoId /\ token[t].state # "unissued"
    BY <1>1, <1>2 DEF ResetInv, ResetTypeOK
  <2>4. ResetTypeOK'
    BY <1>1, <2>1, <2>2, <2>3, NoneAssumption DEF ResetInv, ResetTypeOK
  <2>5. Racing(t)' = Racing(t)
    BY <1>1, <1>2, <2>1 DEF ResetInv, ResetTypeOK, Racing
  <2>6. UsesCounted'
    BY <1>3, <2>1, <2>2, <2>5 DEF ResetInv, UsesCounted
  <2> QED
    BY <2>4, <2>6 DEF ResetInv
<1> QED
  BY <1>4, <1>5

\* Mailboxes come and go, links are issued and expire.
LEMMA TokenStep ==
  ASSUME ResetInv,
         \/ MailboxStep
         \/ \E t \in Tokens : Lapse(t) \/ \E i \in Ids : Issue(t, i)
  PROVE  ResetInv'
<1>1. UNCHANGED <<step, held, known, uses, unmarked>>
  BY DEF MailboxStep, Lapse, Issue
<1>2. CASE MailboxStep
  <2>1. ASSUME NEW t \in Tokens
        PROVE  /\ token'[t] \in TokenType /\ token'[t].id = token[t].id
               /\ token'[t].state \in {token[t].state, "gone"}
               /\ token'[t].state = "unissued" <=> token[t].state = "unissued"
    <3>1. token[t] \in TokenType /\ (token[t].state = "unissued" => token[t].id = NoId)
      BY DEF ResetInv, ResetTypeOK
    <3>2. token'[t] = token[t] \/ token'[t] = [token[t] EXCEPT !.state = "gone"]
      BY <1>2 DEF MailboxStep, Cascade
    <3>3. token'[t] # token[t] => token[t].id \in Ids
      BY <1>2 DEF MailboxStep, Cascade
    <3> QED
      BY <3>1, <3>2, <3>3, NoneAssumption DEF TokenType
  <2>2. ResetTypeOK'
    BY <1>1, <1>2, <2>1 DEF MailboxStep, Cascade, ResetInv, ResetTypeOK
  <2> QED
    BY <1>1, <2>1, <2>2, TokensOnly
<1>3. ASSUME NEW t \in Tokens, NEW i \in Ids, Lapse(t) \/ Issue(t, i)
      PROVE  ResetInv'
  <2>1. token[t] \in TokenType /\ token \in [Tokens -> TokenType]
    BY DEF ResetInv, ResetTypeOK
  <2>2. /\ token' \in [Tokens -> TokenType] /\ token'[t].state = "open" /\ token'[t].id \in Ids
        /\ token[t].state \in {"unissued", "open"}
        /\ \A u \in Tokens \ {t} : token'[u] = token[u]
    <3>1. CASE Lapse(t)
      BY <2>1, <3>1 DEF Lapse, TokenType, ResetInv, ResetTypeOK
    <3>2. CASE Issue(t, i)
      BY <2>1, <3>2 DEF Issue, TokenType
    <3> QED
      BY <1>3, <3>1, <3>2
  <2>3. ResetTypeOK'
    BY <1>1, <2>2, NoneAssumption DEF ResetInv, ResetTypeOK
  <2> QED
    BY <1>1, <2>2, <2>3, TokensOnly
<1>4. ASSUME NEW t \in Tokens, Lapse(t) PROVE ResetInv'
  <2>1. token[t] \in TokenType /\ token[t].id # NoId
    BY <1>4 DEF Lapse, ResetInv, ResetTypeOK
  <2>2. token[t].id \in Ids
    BY <2>1 DEF TokenType
  <2> QED
    BY <1>3, <1>4, <2>2
<1> QED
  BY <1>2, <1>3, <1>4

LEMMA InitResetInv == ASSUME ResetInit PROVE ResetInv
<1>1. ResetTypeOK
  BY DEF ResetInit, ResetTypeOK, TokenType
<1>2. \A t \in Tokens : Racing(t) = {} /\ Marking(t) = {}
  BY DEF ResetInit, Racing, Marking
<1>3. Cardinality(Resets) \in Nat
  BY FiniteResets
<1>4. UsesCounted
  <2>1. \A t \in Tokens : Cardinality(Racing(t)) = 0 /\ Cardinality(Marking(t)) = 0 /\ uses[t] = 0
    BY <1>2, FS_EmptySet DEF ResetInit
  <2> QED
    BY <1>3, <2>1 DEF UsesCounted
<1> QED
  BY <1>1, <1>4 DEF ResetInv

LEMMA NextResetInv == ASSUME ResetInv, [ResetNext]_allVars PROVE ResetInv'
<1>1. CASE UNCHANGED allVars
  <2>1. \A t \in Tokens : Racing(t)' = Racing(t) /\ Marking(t)' = Marking(t)
    BY <1>1 DEF allVars, resetVars, Racing, Marking
  <2>2. ResetTypeOK'
    BY <1>1 DEF allVars, resetVars, ResetInv, ResetTypeOK
  <2> QED
    BY <1>1, <2>1, <2>2 DEF allVars, resetVars, ResetInv, UsesCounted
<1>2. ASSUME NEW s \in Resets, LoadMailbox(s) PROVE ResetInv'
  <2>1. step[s] = "load" /\ UNCHANGED <<token, uses, unmarked>>
    BY <1>2 DEF LoadMailbox
  <2>2. known' \in [Resets -> SUBSET Ids]
    BY <1>2 DEF LoadMailbox, End, ResetInv, ResetTypeOK
  <2>3. CASE Goes(s, "call") /\ held' = held
    <3>1. step' = [step EXCEPT ![s] = "call"]
      BY <2>3 DEF Goes
    <3> QED
      BY <2>1, <2>2, <2>3, <3>1, QuietStep
  <2>4. CASE End(s)
    <3>1. step' = [step EXCEPT ![s] = "idle"] /\ held' = [held EXCEPT ![s] = NoToken]
      BY <2>4 DEF End, Goes
    <3> QED
      BY <2>1, <2>2, <3>1, QuietStep
  <2> QED
    BY <1>2, <2>3, <2>4 DEF LoadMailbox
<1>3. ASSUME NEW s \in Resets, SetPasswordFails(s) PROVE ResetInv'
  <2>1. /\ step[s] = "call" /\ UNCHANGED <<token, uses, unmarked>>
        /\ step' = [step EXCEPT ![s] = "idle"] /\ held' = [held EXCEPT ![s] = NoToken]
        /\ known' \in [Resets -> SUBSET Ids]
    BY <1>3 DEF SetPasswordFails, End, Goes, ResetInv, ResetTypeOK
  <2> QED
    BY <2>1, QuietStep
<1> QED
  BY <1>1, <1>2, <1>3, BeginResetStep, SetPasswordStep, OverStep, TokenStep DEF ResetNext

-----------------------------------------------------------------------------
\* The inductive invariant: while a link is open it has been used by exactly
\* the requests that are about to mark it, and those that may still use it are
\* others.
THEOREM ResetInvCorrect == ResetSpec => []ResetInv
<1>1. ResetInit => ResetInv
  BY InitResetInv
<1>2. ResetInv /\ [ResetNext]_allVars => ResetInv'
  BY NextResetInv
<1> QED
  BY <1>1, <1>2, PTL DEF ResetSpec

\* A link sets a password no more often than there are requests to race with
\* it, unless its mark was lost (CompletePasswordReset).
THEOREM RacesBounded == ResetSpec => []RacedUses
<1>1. ResetInv => RacedUses
  <2> SUFFICES ASSUME ResetInv, NEW t \in Tokens \ unmarked PROVE uses[t] <= Cardinality(Resets)
    BY DEF RacedUses
  <2>1. uses[t] + Cardinality(Racing(t)) <= Cardinality(Resets) /\ uses[t] \in Nat
    BY DEF ResetInv, UsesCounted, ResetTypeOK
  <2>2. Cardinality(Racing(t)) \in Nat /\ Cardinality(Resets) \in Nat
    BY FiniteResets DEF Racing
  <2> QED
    BY <2>1, <2>2
<1> QED
  BY <1>1, ResetInvCorrect, PTL

-----------------------------------------------------------------------------
(* Names tell mailboxes apart.                                             *)

\* A row that changes keeps its name and comes to no life.
LEMMA RowChanges ==
  ASSUME LiveUnique,
         \A i \in Ids :
           /\ row'[i].name = row[i].name
           /\ row'[i].status = "absent" <=> row[i].status = "absent"
           /\ row'[i].status \in {"active", "suspended"} => Live(i)
  PROVE  LiveUnique' /\ RowsKept
BY DEF RowsKept, LiveUnique, Live

\* A new row has a name no live mailbox has (the unique pair of domain and name).
LEMMA InsertRows ==
  ASSUME IndInv, LiveUnique, NEW p \in Requests, InsertMailbox(p)
  PROVE  LiveUnique' /\ RowsKept
<1>1. CASE UNCHANGED row
  BY <1>1, RowChanges DEF Live
<1>2. CASE row' # row
  <2>1. PICK n \in Fresh :
          row' = [row EXCEPT ![n] = [NoRow EXCEPT !.status = "active", !.name = job[p].name]]
    BY <1>2 DEF InsertMailbox
  <2>2. n \in Ids /\ row[n].status = "absent" /\ row \in [Ids -> RowType]
    BY <2>1 DEF Fresh, IndInv, TypeOK
  <2>3. /\ row'[n].status = "active" /\ row'[n].name = job[p].name
        /\ \A i \in Ids \ {n} : row'[i] = row[i]
    BY <2>1, <2>2 DEF NoRow
  <2>4. \A i \in Ids : Live(i) => row[i].name # job[p].name
    BY <1>2 DEF InsertMailbox
  <2>5. LiveUnique'
    BY <2>3, <2>4 DEF LiveUnique, Live
  <2> QED
    BY <2>2, <2>3, <2>5 DEF RowsKept
<1> QED
  BY <1>1, <1>2

LEMMA ChangeRows ==
  ASSUME IndInv, LiveUnique, NEW p \in Requests, RecordChange(p)
  PROVE  LiveUnique' /\ RowsKept
<1>1. CASE UNCHANGED row
  BY <1>1, RowChanges DEF Live
<1>2. CASE row' # row
  <2>1. PICK n, s : /\ Live(n) /\ s \in {"gone", "suspended", "active"}
                    /\ row' = [row EXCEPT ![n].status = s]
    <3>1. RecordedStatus(job[p].op) \in {"gone", "suspended", "active"}
      BY DEF RecordedStatus
    <3> QED
      BY <1>2, <3>1 DEF RecordChange
  <2>2. n \in Ids /\ row \in [Ids -> RowType]
    BY <1>2, <2>1 DEF IndInv, TypeOK
  <2>3. /\ row'[n].name = row[n].name /\ row'[n].status = s
        /\ \A i \in Ids \ {n} : row'[i] = row[i]
    BY <2>1, <2>2 DEF RowType
  <2> QED
    BY <2>1, <2>2, <2>3, RowChanges DEF Live
<1> QED
  BY <1>1, <1>2

LEMMA ExpirationRows ==
  ASSUME IndInv, LiveUnique, NEW i \in Ids,
         Expire(i) \/ \E remove \in BOOLEAN : SetExpiration(i, remove)
  PROVE  LiveUnique' /\ RowsKept
<1>1. row[i] \in RowType /\ row \in [Ids -> RowType]
  BY DEF IndInv, TypeOK
<1>2. /\ row'[i].name = row[i].name /\ row'[i].status = row[i].status
      /\ \A k \in Ids \ {i} : row'[k] = row[k]
  BY <1>1 DEF Expire, SetExpiration, RowType
<1> QED
  BY <1>2, RowChanges DEF Live

\* Whatever the mailboxes do, their names tell the live ones apart.
LEMMA NextRows ==
  ASSUME IndInv, LiveUnique, Next
  PROVE  LiveUnique' /\ RowsKept
<1>1. CASE UNCHANGED row
  BY <1>1, RowChanges DEF Live
<1> QED
  BY <1>1, InsertRows, ChangeRows, ExpirationRows
  DEF Next, BeginCreate, BeginChange, BeginSweep, Call, CallFails, AnswerLost, RecordFails, Crash,
      Record

\* A reset opens an account that is there; none is lost or made by it.
LEMMA PasswordSetKeeps ==
  ASSUME IndInv, NEW s \in Resets, PasswordSet(s)
  PROVE  IndInv'
<1>1. /\ account' \in [Names -> Accounts]
      /\ \A n \in Names : account'[n] = "none" => account[n] = "none"
      /\ UNCHANGED <<row, pc, job, todo, asked>>
  BY DEF PasswordSet, IndInv, TypeOK, Accounts
<1>2. TypeOK' /\ RowsNamed' /\ JobsSound' /\ AskedThere' /\ WithinReach'
  BY <1>1 DEF IndInv, TypeOK, RowsNamed, JobsSound, Sound, AskedThere, WithinReach, Counted,
              CreatingCounted, Creating, Live
<1>3. LossesExplained'
  <2>1. ASSUME NEW n \in Names, LossExplained(n) PROVE LossExplained(n)'
    BY <1>1, <2>1 DEF LossExplained
  <2>2. ASSUME NEW i \in Ids, Live(i)' PROVE LossExplained(row[i].name)'
    <3>1. PICK n \in Names : row[i].name = n
      BY <1>1, <2>2 DEF IndInv, RowsNamed, Live
    <3>2. LossExplained(n)
      BY <1>1, <2>2, <3>1 DEF IndInv, LossesExplained, Live
    <3> QED
      BY <1>1, <2>1, <3>1, <3>2 DEF LossExplained
  <2>3. ASSUME NEW p \in Requests, pc'[p] = "record", job'[p].op = "create"
        PROVE  LossExplained(job[p].name)'
    <3>1. PICK n \in Names : job[p].name = n
      BY <1>1, <2>3 DEF IndInv, JobsSound, JobType
    <3>2. LossExplained(n)
      BY <1>1, <2>3, <3>1 DEF IndInv, LossesExplained
    <3> QED
      BY <1>1, <2>1, <3>1, <3>2 DEF LossExplained
  <2> QED
    BY <2>2, <2>3 DEF LossesExplained
<1> QED
  BY <1>2, <1>3 DEF IndInv

\* The mailboxes' part of any step of the composition.
LEMMA MailboxesKept ==
  ASSUME IndInv, LiveUnique, [ResetNext]_allVars
  PROVE  IndInv' /\ LiveUnique' /\ RowsKept
<1>1. CASE MailboxStep
  BY <1>1, NextIndInv, NextRows DEF MailboxStep
<1>2. CASE UNCHANGED vars
  <2>1. IndInv'
    BY <1>2, NextIndInv
  <2> QED
    BY <1>2, <2>1, RowChanges DEF vars, Live
<1>3. ASSUME NEW s \in Resets, PasswordSet(s) PROVE IndInv' /\ LiveUnique' /\ RowsKept
  <2>1. UNCHANGED row
    BY <1>3 DEF PasswordSet
  <2> QED
    BY <1>3, <2>1, PasswordSetKeeps, RowChanges DEF Live
<1> QED
  BY <1>1, <1>2, <1>3 DEF ResetNext, allVars, Lapse, Issue, BeginReset, LoadMailbox, SetPassword,
     SetPasswordFails, PasswordAnswerLost, MarkUsed, MarkFails

\* A link stays with its mailbox.
LEMMA TokenKeepsMailbox ==
  ASSUME ResetInv, [ResetNext]_allVars, NEW t \in Tokens, token[t].state # "unissued"
  PROVE  token'[t].id = token[t].id
<1>1. token[t] \in TokenType /\ token \in [Tokens -> TokenType]
  BY DEF ResetInv, ResetTypeOK
<1>2. CASE MailboxStep
  BY <1>1, <1>2 DEF MailboxStep, Cascade, TokenType
<1>3. ASSUME NEW u \in Tokens, NEW i \in Ids, Issue(u, i) PROVE token'[t].id = token[t].id
  BY <1>1, <1>3 DEF Issue
<1>4. ASSUME NEW u \in Tokens, Lapse(u) PROVE token'[t].id = token[t].id
  BY <1>1, <1>4 DEF Lapse, TokenType
<1>5. ASSUME NEW s \in Resets, MarkUsed(s) PROVE token'[t].id = token[t].id
  BY <1>1, <1>5 DEF MarkUsed, TokenType
<1>6. CASE UNCHANGED token
  BY <1>6
<1> QED
  BY <1>2, <1>3, <1>4, <1>5, <1>6 DEF ResetNext, allVars, resetVars, BeginReset, LoadMailbox, SetPassword,
     PasswordSet, SetPasswordFails, PasswordAnswerLost, MarkFails

LEMMA KnownApartStep ==
  ASSUME ResetInv, OwnInv, [ResetNext]_allVars
  PROVE  KnownApart'
<1> SUFFICES ASSUME NEW s \in Resets, step'[s] = "call"
             PROVE  /\ token'[held'[s]].id \in known'[s]
                    /\ \A i \in known'[s] : row'[i].status # "absent"
                    /\ \A i, k \in known'[s] : row'[i].name = row'[k].name => i = k
  BY DEF KnownApart
<1>1. RowsKept
  BY MailboxesKept DEF OwnInv
<1>2. CASE LoadMailbox(s)
  <2>1. /\ known' = [known EXCEPT ![s] = {i \in Ids : Live(i)}]
        /\ Live(token[held[s]].id) /\ UNCHANGED <<row, token, held>>
        /\ step[s] = "load"
    BY <1>2 DEF LoadMailbox, End, Goes, vars, ResetInv, ResetTypeOK
  <2>2. known'[s] = {i \in Ids : Live(i)}
    BY <2>1 DEF ResetInv, ResetTypeOK
  <2>3. token[held[s]].id \in Ids
    <3>1. PICK t \in Tokens : held[s] = t
      BY <2>1 DEF ResetInv, ResetTypeOK
    <3>2. token[t] \in TokenType /\ token[t].state # "unissued"
      BY <2>1, <3>1 DEF ResetInv, ResetTypeOK
    <3>3. token[t].id # NoId
      BY <3>2 DEF ResetInv, ResetTypeOK
    <3> QED
      BY <3>1, <3>2, <3>3 DEF TokenType
  <2> QED
    BY <2>1, <2>2, <2>3 DEF OwnInv, LiveUnique, Live
<1>3. CASE ~LoadMailbox(s)
  <2>1. step[s] = "call" /\ held'[s] = held[s] /\ known'[s] = known[s]
    <3>1. CASE UNCHANGED <<step, held, known>>
      BY <3>1
    <3>2. PICK r \in Resets :
            \/ \E t \in Tokens : BeginReset(r, t)
            \/ LoadMailbox(r) \/ SetPassword(r) \/ SetPasswordFails(r) \/ PasswordAnswerLost(r)
            \/ MarkUsed(r) \/ MarkFails(r)
          \/ UNCHANGED <<step, held, known>>
      BY DEF ResetNext, allVars, resetVars, MailboxStep, Lapse, Issue
    <3>3. ASSUME r # s, ~UNCHANGED <<step, held, known>>
          PROVE  step[s] = "call" /\ held'[s] = held[s] /\ known'[s] = known[s]
      BY <3>2, <3>3 DEF BeginReset, LoadMailbox, SetPassword, SetPasswordFails, PasswordAnswerLost,
         MarkUsed, MarkFails, Goes, End, ResetInv, ResetTypeOK
    <3>4. ASSUME r = s, ~UNCHANGED <<step, held, known>> PROVE FALSE
      BY <1>3, <3>2, <3>4 DEF BeginReset, SetPassword, SetPasswordFails, PasswordAnswerLost,
         MarkUsed, MarkFails, Goes, End, ResetInv, ResetTypeOK
    <3> QED
      BY <3>1, <3>3, <3>4
  <2>2. PICK t \in Tokens : held[s] = t
    BY <2>1 DEF ResetInv, ResetTypeOK
  <2>3. token'[t].id = token[t].id
    BY <2>1, <2>2, TokenKeepsMailbox DEF ResetInv, ResetTypeOK
  <2>4. known[s] \subseteq Ids
    BY DEF ResetInv, ResetTypeOK
  <2> QED
    BY <1>1, <2>1, <2>2, <2>3, <2>4 DEF OwnInv, KnownApart, RowsKept
<1> QED
  BY <1>2, <1>3

\* Resets leave what holds of the mailboxes true, and the names of those a reset
\* has seen tell them apart.
THEOREM OwnInvCorrect == ResetSpec => []OwnInv
<1>1. ResetInit => OwnInv
  <2> SUFFICES ASSUME ResetInit PROVE OwnInv
    OBVIOUS
  <2>1. IndInv
    BY InitIndInv DEF ResetInit
  <2>2. LiveUnique /\ KnownApart
    BY DEF ResetInit, Init, NoRow, LiveUnique, Live, KnownApart
  <2> QED
    BY <2>1, <2>2 DEF OwnInv
<1>2. ResetInv /\ OwnInv /\ [ResetNext]_allVars => OwnInv'
  BY MailboxesKept, KnownApartStep DEF OwnInv
<1> QED
  BY <1>1, <1>2, ResetInvCorrect, PTL DEF ResetSpec

\* With links in use, too, the plan is exceeded by no more than the requests in
\* flight, and an account of a mailbox on record lost only to a deletion.
THEOREM MailboxesWithResets == ResetSpec => [](PlanOvershoot /\ LostOnlyByDeletion)
<1>1. OwnInv => PlanOvershoot /\ LostOnlyByDeletion
  BY PlanOvershootFromIndInv, LostOnlyByDeletionFromIndInv DEF OwnInv
<1> QED
  BY <1>1, OwnInvCorrect, PTL

\* A link never sets the password of a mailbox other than its own, unless its
\* own is deleted and the name taken again while the call is on its way.
THEOREM OwnPasswordOrNewerCorrect == ResetSpec => OwnPasswordOrNewer
<1>1. OwnInv => \A s \in Resets :
        step[s] = "call" =>
          \A i \in known[s] : Live(i) /\ row[i].name = Name(s) => i = token[held[s]].id
  BY DEF OwnInv, KnownApart, Name
<1>2. OwnInv /\ [ResetNext]_allVars
        => [\A s \in Resets :
              step[s] = "call" /\ uses' # uses /\ step'[s] # "call" =>
                \A i \in known[s] :
                  Live(i) /\ row[i].name = Name(s) => i = token[held[s]].id]_allVars
  BY <1>1
<1> QED
  BY <1>2, OwnInvCorrect, PTL DEF ResetSpec, OwnPasswordOrNewer
=============================================================================
