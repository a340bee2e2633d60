---------------------------- MODULE RulesProofs ----------------------------
(***************************************************************************)
(* What holds of Rules for any number of mailboxes, rules and requests,    *)
(* whatever fails: rewrites keep a catch-all to act on, but for the one    *)
(* race RewritesHaveCatchall names; the scripts that were rebuilt follow   *)
(* the rules; the one-off task has one run at a time, and is released.     *)
(***************************************************************************)
EXTENDS Rules, FiniteSetTheorems, SequenceTheorems, TLAPS

\* The writes that are still to come leave rewrites with a catch-all: between a
\* check and the write it was made for, nothing undoes what was checked, except
\* where the two checks were made beside each other.
CatchallGuarded ==
  /\ RewritesHaveCatchall
  /\ \A p \in Requests : pc[p] = "write" =>
       /\ AddsRewrite(job[p]) /\ catchall = NoBox => crossed
       /\ Clears(job[p]) /\ rules \cap Rewrites # {} => crossed
       /\ \A q \in Requests :
            AddsRewrite(job[p]) /\ pc[q] = "write" /\ Clears(job[q]) => crossed

\* A run of the task has its claim, and no other run beside it.
OneRunner == \A p \in Running : claimed /\ Running = {p}

IndInv == TypeOK /\ CatchallGuarded /\ OneRunner

-----------------------------------------------------------------------------
(* The initial states.                                                     *)

LEMMA InitHolds == Init => IndInv
<1> SUFFICES ASSUME Init PROVE IndInv
  OBVIOUS
<1>1. TypeOK
  <2>1. NoJob \in JobType
    BY DEF NoJob, JobType
  <2>2. rules \subseteq Mailboxes
    BY DEF Init
  <2>3. script \in [Mailboxes -> ScriptType]
    BY <2>2 DEF Init, ScriptType, NoScript, AllRules, Rows
  <2> QED
    BY <2>1, <2>2, <2>3 DEF Init, TypeOK, AllRules, Rows, Rebuilding
<1>2. CatchallGuarded
  BY RulesAssumption DEF Init, CatchallGuarded, RewritesHaveCatchall
<1>3. OneRunner
  BY DEF Init, OneRunner, Running, Busy
<1> QED
  BY <1>1, <1>2, <1>3 DEF IndInv

-----------------------------------------------------------------------------
(* Steps after the write.                                                  *)

\* Request p goes on, or ends; its operation stays what it is.
Onward(p) ==
  /\ pc[p] # "idle" /\ pc'[p] # "write"
  /\ pc'[p] # "idle" => job'[p].op = job[p].op
  /\ \A q \in Requests \ {p} : pc'[q] = pc[q] /\ job'[q] = job[q]
  /\ crossed' = crossed

\* Such a step keeps what the writes to come rely on when it adds no rewrite, and
\* leaves the catch-all alone.
LEMMA OnwardKeepsGuard ==
  ASSUME CatchallGuarded, NEW p \in Requests, Onward(p),
         rules' \cap Rewrites \subseteq rules \cap Rewrites, catchall' = catchall
  PROVE  CatchallGuarded'
<1>1. RewritesHaveCatchall'
  BY DEF CatchallGuarded, RewritesHaveCatchall, Onward
<1>2. ASSUME NEW q \in Requests, pc'[q] = "write"
      PROVE  q # p /\ pc[q] = "write" /\ job'[q] = job[q]
  BY <1>2 DEF Onward
<1>3. ASSUME NEW q \in Requests, pc'[q] = "write"
      PROVE  /\ AddsRewrite(job'[q]) /\ catchall' = NoBox => crossed'
             /\ Clears(job'[q]) /\ rules' \cap Rewrites # {} => crossed'
             /\ \A o \in Requests :
                  AddsRewrite(job'[q]) /\ pc'[o] = "write" /\ Clears(job'[o]) => crossed'
  BY <1>2, <1>3 DEF CatchallGuarded, Onward
<1> QED
  BY <1>1, <1>3 DEF CatchallGuarded, AddsRewrite, Clears

\* It keeps the task's run alone, whether the claim stays or, with the end of the
\* run, goes.
LEMMA OnwardKeepsRunner ==
  ASSUME OneRunner, NEW p \in Requests, Onward(p),
         claimed' = claimed \/ (p \in Running /\ pc'[p] = "idle")
  PROVE  OneRunner'
<1>1. Running' \subseteq Running
  BY DEF Running, Busy, Onward
<1>2. CASE claimed' = claimed
  BY <1>1, <1>2 DEF OneRunner
<1>3. CASE p \in Running /\ pc'[p] = "idle"
  <2>1. Running = {p} /\ p \notin Running'
    BY <1>3 DEF OneRunner, Running, Busy
  <2> QED
    BY <1>1, <2>1 DEF OneRunner
<1> QED
  BY <1>2, <1>3

-----------------------------------------------------------------------------
(* Requests begin.                                                         *)

LEMMA BeginTypes ==
  ASSUME TypeOK, NEW p \in Requests, NEW at \in {"write", "aim"},
         NEW op \in {"add", "drop", "toggle", "catchall", "maintain"},
         NEW rule \in AllRules \cup {NoRule}, NEW new \in Mailboxes \cup {NoBox},
         Begin(p, at, op, rule, new),
         at = "write" /\ op \in {"add", "drop"} => rule \in Rows,
         at = "write" /\ op = "toggle" => rule \in Lists,
         UNCHANGED <<rules, spent, catchall, script, cut>>, claimed' \in BOOLEAN
  PROVE  /\ TypeOK'
         /\ pc' = [pc EXCEPT ![p] = at] /\ pc[p] = "idle"
         /\ job'[p].op = op /\ job'[p].rule = rule /\ job'[p].new = new
         /\ \A q \in Requests \ {p} : job'[q] = job[q] /\ pc'[q] = pc[q]
         /\ pc'[p] = at
<1> DEFINE j == [op |-> op, rule |-> rule, new |-> new, lists |-> rules \cap Lists,
                 target |-> catchall, todo |-> <<>>, draft |-> {}, owes |-> {}]
<1>1. j \in JobType
  BY DEF JobType, TypeOK
<1>2. job' = [job EXCEPT ![p] = j] /\ pc' = [pc EXCEPT ![p] = at] /\ pc[p] = "idle"
  BY DEF Begin
<1>3. j.op = op /\ j.rule = rule /\ j.new = new
  OBVIOUS
<1>4. job'[p] = j /\ pc'[p] = at
      /\ \A q \in Requests \ {p} : job'[q] = job[q] /\ pc'[q] = pc[q]
  BY <1>2 DEF TypeOK
<1>5. job' \in [Requests -> JobType]
      /\ pc' \in [Requests -> {"idle", "write", "aim", "undo"} \cup Rebuilding]
  BY <1>1, <1>2 DEF TypeOK
<1>6. begun' \in Nat /\ crossed' \in BOOLEAN /\ crowded' \subseteq Requests
  BY DEF Begin, TypeOK, Busy
<1>7. \A q \in Requests :
        /\ pc'[q] \in Rebuilding => job'[q].todo # <<>>
        /\ pc'[q] = "write" /\ job'[q].op \in {"add", "drop"} => job'[q].rule \in Rows
        /\ pc'[q] = "write" /\ job'[q].op = "toggle" => job'[q].rule \in Lists
  BY <1>3, <1>4 DEF TypeOK, Rebuilding
<1>8. UNCHANGED <<held, stale, dormant>>
  BY DEF Begin
<1> HIDE DEF j
<1>9. TypeOK'
  BY <1>5, <1>6, <1>7, <1>8 DEF TypeOK
<1> QED
  BY <1>2, <1>3, <1>4, <1>9

\* What a request has checked when it begins, and what Begin records of those it
\* overlaps with.
LEMMA BeginGuards ==
  ASSUME CatchallGuarded, NEW p \in Requests, NEW at, NEW op, NEW rule, NEW new,
         Begin(p, at, op, rule, new),
         job'[p].op = op, job'[p].rule = rule, job'[p].new = new,
         \A q \in Requests \ {p} : job'[q] = job[q] /\ pc'[q] = pc[q],
         pc'[p] = at, rules' = rules, catchall' = catchall,
         op = "add" /\ rule \in Rewrites => catchall # NoBox,
         op = "catchall" /\ new = NoBox => rules \cap Rewrites = {}
  PROVE  CatchallGuarded'
<1> DEFINE Adds(q) == AddsRewrite(job'[q])
           Cleared(q) == Clears(job'[q])
<1>1. crossed => crossed'
  BY DEF Begin
<1>2. RewritesHaveCatchall'
  BY <1>1 DEF CatchallGuarded, RewritesHaveCatchall
<1>3. /\ Adds(p) => catchall # NoBox
      /\ Cleared(p) => rules \cap Rewrites = {}
      /\ ~ (Adds(p) /\ Cleared(p))
  BY DEF AddsRewrite, Clears
<1>4. \A q \in Requests \ {p} : pc[q] = "write" =>
        /\ Adds(p) /\ Cleared(q) => crossed'
        /\ Cleared(p) /\ Adds(q) => crossed'
  <2> DEFINE j == [op |-> op, rule |-> rule, new |-> new, lists |-> rules \cap Lists,
                   target |-> catchall, todo |-> <<>>, draft |-> {}, owes |-> {}]
  <2>1. (AddsRewrite(j) <=> Adds(p)) /\ (Clears(j) <=> Cleared(p))
    BY DEF AddsRewrite, Clears
  <2>2. crossed' = (crossed \/ \E q \in Busy : \/ Clears(j) /\ AddsRewrite(job[q])
                                               \/ AddsRewrite(j) /\ Clears(job[q]))
    BY DEF Begin
  <2> HIDE DEF j
  <2> QED
    BY <2>1, <2>2 DEF Busy
<1>5. \A q \in Requests \ {p} : pc[q] = "write" =>
        /\ Adds(q) /\ catchall = NoBox => crossed
        /\ Cleared(q) /\ rules \cap Rewrites # {} => crossed
        /\ \A o \in Requests \ {p} : Adds(q) /\ pc[o] = "write" /\ Cleared(o) => crossed
  BY DEF CatchallGuarded
<1>6. ASSUME NEW q \in Requests, pc'[q] = "write"
      PROVE  /\ Adds(q) /\ catchall' = NoBox => crossed'
             /\ Cleared(q) /\ rules' \cap Rewrites # {} => crossed'
             /\ \A o \in Requests : Adds(q) /\ pc'[o] = "write" /\ Cleared(o) => crossed'
  <2> HIDE DEF Adds, Cleared
  <2>1. CASE q = p
    BY <1>3, <1>4, <1>6, <2>1
  <2>2. CASE q # p
    BY <1>1, <1>3, <1>4, <1>5, <1>6, <2>2
  <2> QED
    BY <2>1, <2>2
<1> QED
  BY <1>2, <1>6 DEF CatchallGuarded, AddsRewrite, Clears

LEMMA BeginOthersKeepRunner ==
  ASSUME OneRunner, NEW p \in Requests, pc[p] = "idle", job'[p].op # "maintain",
         \A q \in Requests \ {p} : job'[q] = job[q] /\ pc'[q] = pc[q], claimed' = claimed
  PROVE  OneRunner'
<1>1. Running' = Running
  BY DEF Running, Busy
<1> QED
  BY <1>1 DEF OneRunner

LEMMA BeginAddKeeps ==
  ASSUME IndInv, NEW p \in Requests, NEW r \in Rows, BeginAdd(p, r)
  PROVE  IndInv'
<1>1. /\ Begin(p, "write", "add", r, NoBox)
      /\ UNCHANGED <<rules, spent, catchall, script, claimed, cut>>
      /\ r \in Rewrites => catchall # NoBox
  BY DEF BeginAdd, store
<1>2. TypeOK /\ CatchallGuarded /\ OneRunner /\ claimed' \in BOOLEAN /\ r \in AllRules
  BY <1>1 DEF IndInv, TypeOK, AllRules
<1>3. /\ TypeOK' /\ pc[p] = "idle" /\ pc'[p] = "write"
      /\ job'[p].op = "add" /\ job'[p].rule = r /\ job'[p].new = NoBox
      /\ \A q \in Requests \ {p} : job'[q] = job[q] /\ pc'[q] = pc[q]
  BY <1>1, <1>2, BeginTypes
<1>4. CatchallGuarded'
  BY <1>1, <1>2, <1>3, BeginGuards
<1>5. OneRunner'
  BY <1>1, <1>2, <1>3, BeginOthersKeepRunner
<1> QED
  BY <1>3, <1>4, <1>5 DEF IndInv

LEMMA BeginDropKeeps ==
  ASSUME IndInv, NEW p \in Requests, NEW r \in Rows, BeginDrop(p, r)
  PROVE  IndInv'
<1>1. /\ Begin(p, "write", "drop", r, NoBox)
      /\ UNCHANGED <<rules, spent, catchall, script, claimed, cut>>
  BY DEF BeginDrop, store
<1>2. TypeOK /\ CatchallGuarded /\ OneRunner /\ claimed' \in BOOLEAN /\ r \in AllRules
  BY <1>1 DEF IndInv, TypeOK, AllRules
<1>3. /\ TypeOK' /\ pc[p] = "idle" /\ pc'[p] = "write"
      /\ job'[p].op = "drop" /\ job'[p].rule = r /\ job'[p].new = NoBox
      /\ \A q \in Requests \ {p} : job'[q] = job[q] /\ pc'[q] = pc[q]
  BY <1>1, <1>2, BeginTypes
<1>4. CatchallGuarded'
  BY <1>1, <1>2, <1>3, BeginGuards
<1>5. OneRunner'
  BY <1>1, <1>2, <1>3, BeginOthersKeepRunner
<1> QED
  BY <1>3, <1>4, <1>5 DEF IndInv

LEMMA BeginToggleKeeps ==
  ASSUME IndInv, NEW p \in Requests, NEW r \in Lists, BeginToggle(p, r)
  PROVE  IndInv'
<1>1. /\ Begin(p, "write", "toggle", r, NoBox)
      /\ UNCHANGED <<rules, spent, catchall, script, claimed, cut>>
  BY DEF BeginToggle, store
<1>2. TypeOK /\ CatchallGuarded /\ OneRunner /\ claimed' \in BOOLEAN /\ r \in AllRules
  BY <1>1 DEF IndInv, TypeOK, AllRules
<1>3. /\ TypeOK' /\ pc[p] = "idle" /\ pc'[p] = "write"
      /\ job'[p].op = "toggle" /\ job'[p].rule = r /\ job'[p].new = NoBox
      /\ \A q \in Requests \ {p} : job'[q] = job[q] /\ pc'[q] = pc[q]
  BY <1>1, <1>2, BeginTypes
<1>4. CatchallGuarded'
  BY <1>1, <1>2, <1>3, BeginGuards
<1>5. OneRunner'
  BY <1>1, <1>2, <1>3, BeginOthersKeepRunner
<1> QED
  BY <1>3, <1>4, <1>5 DEF IndInv

LEMMA BeginCatchAllKeeps ==
  ASSUME IndInv, NEW p \in Requests, NEW m \in Mailboxes \cup {NoBox}, BeginCatchAll(p, m)
  PROVE  IndInv'
<1>1. /\ Begin(p, "write", "catchall", NoRule, m)
      /\ UNCHANGED <<rules, spent, catchall, script, claimed, cut>>
      /\ m = NoBox => rules \cap Rewrites = {}
  BY DEF BeginCatchAll, store
<1>2. TypeOK /\ CatchallGuarded /\ OneRunner /\ claimed' \in BOOLEAN
  BY <1>1 DEF IndInv, TypeOK
<1>3. /\ TypeOK' /\ pc[p] = "idle" /\ pc'[p] = "write"
      /\ job'[p].op = "catchall" /\ job'[p].rule = NoRule /\ job'[p].new = m
      /\ \A q \in Requests \ {p} : job'[q] = job[q] /\ pc'[q] = pc[q]
  BY <1>1, <1>2, BeginTypes
<1>4. CatchallGuarded'
  BY <1>1, <1>2, <1>3, BeginGuards
<1>5. OneRunner'
  BY <1>1, <1>2, <1>3, BeginOthersKeepRunner
<1> QED
  BY <1>3, <1>4, <1>5 DEF IndInv

\* The claim is what keeps a second run from starting.
LEMMA BeginTaskKeeps ==
  ASSUME IndInv, NEW p \in Requests, BeginTask(p)
  PROVE  IndInv'
<1>1. /\ UNCHANGED <<rules, spent, catchall, script>>
      /\ ~ claimed /\ claimed' = TRUE
      /\ cut' \in {cut, TRUE}
  BY DEF BeginTask
<1>2. TypeOK /\ CatchallGuarded /\ OneRunner /\ claimed' \in BOOLEAN
  BY <1>1 DEF IndInv
<1>3. Running = {}
  BY <1>1, <1>2 DEF OneRunner
<1>4. CASE UNCHANGED <<requests, stale, dormant, crossed>>
  <2>1. TypeOK'
    BY <1>1, <1>2, <1>4 DEF requests, TypeOK
  <2>2. CatchallGuarded'
    BY <1>1, <1>2, <1>4 DEF requests, CatchallGuarded, RewritesHaveCatchall
  <2>3. Running' = {}
    BY <1>3, <1>4 DEF requests, Running, Busy
  <2> QED
    BY <2>1, <2>2, <2>3 DEF IndInv, OneRunner
<1>5. CASE Begin(p, "aim", "maintain", NoRule, NoBox) /\ UNCHANGED cut
  <2>1. /\ TypeOK' /\ pc[p] = "idle" /\ pc'[p] = "aim"
        /\ job'[p].op = "maintain" /\ job'[p].rule = NoRule /\ job'[p].new = NoBox
        /\ \A q \in Requests \ {p} : job'[q] = job[q] /\ pc'[q] = pc[q]
    BY <1>1, <1>2, <1>5, BeginTypes
  <2>2. CatchallGuarded'
    BY <1>1, <1>2, <1>5, <2>1, BeginGuards
  <2>3. Running' = {p}
    BY <1>3, <2>1 DEF Running, Busy
  <2> QED
    BY <1>1, <2>1, <2>2, <2>3 DEF IndInv, OneRunner
<1> QED
  BY <1>4, <1>5 DEF BeginTask

-----------------------------------------------------------------------------
(* Types: what a step may change of the requests, and of the rest.         *)

RequestsTyped ==
  /\ pc \in [Requests -> {"idle", "write", "aim", "undo"} \cup Rebuilding]
  /\ job \in [Requests -> JobType]
  /\ \A p \in Requests :
       /\ pc[p] \in Rebuilding => job[p].todo # <<>>
       /\ pc[p] = "write" /\ job[p].op \in {"add", "drop"} => job[p].rule \in Rows
       /\ pc[p] = "write" /\ job[p].op = "toggle" => job[p].rule \in Lists
  /\ begun \in Nat /\ crowded \subseteq Requests

StoreTyped ==
  /\ rules \subseteq AllRules /\ spent \subseteq Rows
  /\ catchall \in Mailboxes \cup {NoBox}
  /\ script \in [Mailboxes -> ScriptType]
  /\ held \in [Requests -> BOOLEAN]
  /\ claimed \in BOOLEAN /\ crossed \in BOOLEAN /\ cut \in BOOLEAN
  /\ stale \subseteq Mailboxes /\ dormant \subseteq Mailboxes

LEMMA TypesSplit == TypeOK <=> RequestsTyped /\ StoreTyped
BY DEF TypeOK, RequestsTyped, StoreTyped

LEMMA TypesJoin ==
  ASSUME RequestsTyped', StoreTyped' PROVE TypeOK'
BY DEF TypeOK, RequestsTyped, StoreTyped

LEMMA EndTypes ==
  ASSUME RequestsTyped, NEW p \in Requests, End(p)
  PROVE  /\ RequestsTyped' /\ pc'[p] = "idle"
         /\ \A q \in Requests \ {p} : pc'[q] = pc[q] /\ job'[q] = job[q]
<1>1. NoJob \in JobType
  BY DEF NoJob, JobType
<1>2. /\ pc' = [pc EXCEPT ![p] = "idle"] /\ job' = [job EXCEPT ![p] = NoJob]
      /\ begun' = begun /\ crowded' \subseteq Requests
  BY DEF End, RequestsTyped
<1>3. pc'[p] = "idle" /\ \A q \in Requests \ {p} : pc'[q] = pc[q] /\ job'[q] = job[q]
  BY <1>2 DEF RequestsTyped
<1>4. pc' \in [Requests -> {"idle", "write", "aim", "undo"} \cup Rebuilding]
      /\ job' \in [Requests -> JobType]
  BY <1>1, <1>2 DEF RequestsTyped
<1> QED
  BY <1>2, <1>3, <1>4 DEF RequestsTyped, Rebuilding

\* Any other step of a request that is past its write.
LEMMA MoveTypes ==
  ASSUME RequestsTyped, NEW p \in Requests,
         NEW at \in {"aim", "undo"} \cup Rebuilding, pc' = [pc EXCEPT ![p] = at],
         job' \in [Requests -> JobType],
         \A q \in Requests \ {p} : job'[q] = job[q],
         at \in Rebuilding => job'[p].todo # <<>>,
         UNCHANGED <<crowded, begun>>
  PROVE  /\ RequestsTyped' /\ pc'[p] = at
         /\ \A q \in Requests \ {p} : pc'[q] = pc[q]
<1>1. pc'[p] = at /\ \A q \in Requests \ {p} : pc'[q] = pc[q]
  BY DEF RequestsTyped
<1>2. pc' \in [Requests -> {"idle", "write", "aim", "undo"} \cup Rebuilding]
  BY DEF RequestsTyped
<1>3. "write" \notin {"aim", "undo"} \cup Rebuilding
  BY DEF Rebuilding
<1> QED
  BY <1>1, <1>2, <1>3 DEF RequestsTyped

LEMMA GotoTypes ==
  ASSUME RequestsTyped, NEW p \in Requests,
         NEW at \in {"aim", "undo"} \cup Rebuilding, Goto(p, at),
         at \in Rebuilding => job[p].todo # <<>>
  PROVE  /\ RequestsTyped' /\ pc'[p] = at /\ job' = job
         /\ \A q \in Requests \ {p} : pc'[q] = pc[q]
<1>1. job' = job /\ pc' = [pc EXCEPT ![p] = at] /\ UNCHANGED <<crowded, begun>>
  BY DEF Goto
<1> QED
  BY <1>1, MoveTypes DEF RequestsTyped

\* A request that gives up ends, or goes to take back what it did.
LEMMA GiveUpOnward ==
  ASSUME RequestsTyped, NEW p \in Requests, GiveUp(p), pc[p] # "idle", crossed' = crossed
  PROVE  /\ RequestsTyped' /\ Onward(p)
<1>1. CASE End(p)
  BY <1>1, EndTypes DEF Onward
<1>2. CASE Goto(p, "undo")
  BY <1>2, GotoTypes DEF Onward, Rebuilding
<1> QED
  BY <1>1, <1>2 DEF GiveUp

LEMMA EndOnward ==
  ASSUME RequestsTyped, NEW p \in Requests, End(p), pc[p] # "idle", crossed' = crossed
  PROVE  /\ RequestsTyped' /\ Onward(p) /\ pc'[p] = "idle"
BY EndTypes DEF Onward

\* The mailbox a request is about to rebuild, and what calls make of it.
LEMMA BoxTypes ==
  ASSUME TypeOK, NEW p \in Requests, pc[p] \in Rebuilding
  PROVE  /\ Box(p) \in Mailboxes /\ Tail(job[p].todo) \in Seq(Mailboxes)
         /\ script[Box(p)] \in ScriptType
<1>1. job[p].todo \in Seq(Mailboxes) /\ job[p].todo # <<>>
  BY DEF TypeOK, JobType
<1> QED
  BY <1>1 DEF Box, TypeOK

LEMMA AfterTypes ==
  ASSUME TypeOK, NEW p \in Requests, Calling(p)
  PROVE  After(p) \in ScriptType
<1>1. pc[p] \in Rebuilding
  BY DEF Calling, Rebuilding
<1>2. script[Box(p)] \in ScriptType /\ job[p].draft \in SUBSET AllRules
  BY <1>1, BoxTypes DEF TypeOK, JobType
<1>3. NoScript \in ScriptType
  BY DEF NoScript, ScriptType
<1> QED
  BY <1>2, <1>3 DEF After, ScriptType

\* A call changes only the scripts, and who still knows one.
LEMMA CallStore ==
  ASSUME TypeOK, NEW p \in Requests, Calling(p),
         script' = script \/ script' = [script EXCEPT ![Box(p)] = After(p)],
         NEW knows \in BOOLEAN, held' = Holders(p, knows),
         dormant' \subseteq dormant \cup {Box(p)},
         stale' \subseteq stale,
         UNCHANGED <<rules, spent, catchall, claimed, crossed, cut>>
  PROVE  StoreTyped'
<1>1. pc[p] \in Rebuilding
  BY DEF Calling, Rebuilding
<1>2. Box(p) \in Mailboxes /\ After(p) \in ScriptType
  BY <1>1, BoxTypes, AfterTypes
<1>3. script' \in [Mailboxes -> ScriptType]
  BY <1>2 DEF TypeOK
<1>4. held' \in [Requests -> BOOLEAN]
  BY DEF Holders, TypeOK
<1> QED
  BY <1>2, <1>3, <1>4 DEF TypeOK, StoreTyped

-----------------------------------------------------------------------------
(* The writes.                                                             *)

\* A rewrite is added only while there is a catch-all, or it was cleared beside.
LEMMA WriteRuleKeeps ==
  ASSUME IndInv, NEW p \in Requests, WriteRule(p)
  PROVE  IndInv'
<1> DEFINE j == job[p]
<1>1. /\ pc[p] = "write" /\ j.op \in {"add", "drop", "toggle"} /\ j \in JobType
      /\ UNCHANGED <<catchall, script, claimed, held, dormant, crossed, cut>>
      /\ TypeOK /\ RequestsTyped /\ CatchallGuarded /\ OneRunner
      /\ j.op \in {"add", "drop"} => j.rule \in Rows
      /\ j.op = "toggle" => j.rule \in Lists
  BY TypesSplit DEF WriteRule, IndInv, TypeOK
<1>2. ASSUME Onward(p),
             AddsRewrite(j) \/ rules' \cap Rewrites \subseteq rules \cap Rewrites
      PROVE  CatchallGuarded'
  <2>1. CASE ~ AddsRewrite(j)
    BY <1>1, <1>2, <2>1, OnwardKeepsGuard
  <2>2. CASE AddsRewrite(j)
    <3>1. \A q \in Requests : pc'[q] = "write" => q # p /\ pc[q] = "write" /\ job'[q] = job[q]
      BY <1>2 DEF Onward
    <3>2. catchall = NoBox => crossed
      BY <1>1, <2>2 DEF CatchallGuarded
    <3>3. \A q \in Requests : pc[q] = "write" /\ Clears(job[q]) => crossed
      BY <1>1, <2>2 DEF CatchallGuarded
    <3>4. \A q \in Requests : pc[q] = "write" =>
            \A o \in Requests : AddsRewrite(job[q]) /\ pc[o] = "write" /\ Clears(job[o]) => crossed
      BY <1>1 DEF CatchallGuarded
    <3>5. \A q \in Requests : pc'[q] = "write" =>
            /\ AddsRewrite(job'[q]) /\ catchall' = NoBox => crossed'
            /\ Clears(job'[q]) /\ rules' \cap Rewrites # {} => crossed'
            /\ \A o \in Requests :
                 AddsRewrite(job'[q]) /\ pc'[o] = "write" /\ Clears(job'[o]) => crossed'
      BY <1>1, <3>1, <3>2, <3>3, <3>4
    <3> QED
      BY <1>1, <3>2, <3>5 DEF CatchallGuarded, RewritesHaveCatchall, AddsRewrite, Clears
  <2> QED
    BY <2>1, <2>2
<1>3. CASE UNCHANGED <<rules, spent, stale>> /\ End(p)
  <2>1. RequestsTyped' /\ Onward(p)
    BY <1>1, <1>3, EndOnward
  <2>2. StoreTyped'
    BY <1>1, <1>3 DEF TypeOK, StoreTyped
  <2>3. CatchallGuarded'
    BY <1>2, <1>3, <2>1
  <2>4. OneRunner'
    BY <1>1, <2>1, OnwardKeepsRunner
  <2> QED
    BY <2>1, <2>2, <2>3, <2>4, TypesJoin DEF IndInv
<1>4. CASE /\ rules' = IF j.op = "add" \/ (j.op = "toggle" /\ j.rule \notin rules)
                          THEN rules \cup {j.rule} ELSE rules \ {j.rule}
           /\ spent' = spent \cup ({j.rule} \ Lists)
           /\ stale' = stale \cup BearsOn(j.rule)
           /\ pc' = [pc EXCEPT ![p] = "aim"]
           /\ job' = [job EXCEPT ![p].owes = BearsOn(j.rule) \ stale, ![p].lists =
                IF j.rule \notin Lists THEN @
                ELSE IF j.rule \in rules' THEN @ \cup {j.rule} ELSE @ \ {j.rule}]
           /\ UNCHANGED <<crowded, begun>>
  <2>1. BearsOn(j.rule) \subseteq Mailboxes
    BY <1>1 DEF BearsOn, TypeOK
  <2> DEFINE lists == IF j.rule \notin Lists THEN j.lists
                      ELSE IF j.rule \in rules' THEN j.lists \cup {j.rule} ELSE j.lists \ {j.rule}
             owes == BearsOn(j.rule) \ stale
             r == [j EXCEPT !.owes = owes, !.lists = lists]
  <2>2. lists \in SUBSET Lists /\ owes \in SUBSET Mailboxes
    BY <1>1, <2>1 DEF JobType
  <2>3. job'[p] = r /\ \A q \in Requests \ {p} : job'[q] = job[q]
    BY <1>1, <1>4 DEF TypeOK
  <2>4. r \in JobType /\ r.op = j.op
    BY <1>1, <2>2 DEF JobType
  <2>5. job' \in [Requests -> JobType]
    <3> HIDE DEF r
    <3>1. \A q \in Requests : job'[q] \in JobType
      BY <1>1, <2>3, <2>4 DEF TypeOK
    <3>2. job' = [q \in Requests |-> job'[q]]
      BY <1>1, <1>4 DEF TypeOK
    <3> QED
      BY <3>1, <3>2
  <2>6. RequestsTyped' /\ pc'[p] = "aim" /\ \A q \in Requests \ {p} : pc'[q] = pc[q]
    BY <1>1, <1>4, <2>3, <2>5, MoveTypes DEF Rebuilding
  <2>7. Onward(p)
    BY <1>1, <2>3, <2>4, <2>6 DEF Onward
  <2>8. StoreTyped'
    BY <1>1, <1>4, <2>1 DEF TypeOK, StoreTyped, AllRules
  <2>9. CatchallGuarded'
    BY <1>1, <1>2, <1>4, <2>7, RulesAssumption DEF AddsRewrite
  <2>10. OneRunner'
    BY <1>1, <2>7, OnwardKeepsRunner
  <2> QED
    BY <2>6, <2>8, <2>9, <2>10, TypesJoin DEF IndInv
<1> QED
  BY <1>3, <1>4 DEF WriteRule

\* The catch-all is cleared only while there are no rewrites, or one was added beside.
LEMMA WriteCatchAllKeeps ==
  ASSUME IndInv, NEW p \in Requests, WriteCatchAll(p)
  PROVE  IndInv'
<1> DEFINE j == job[p]
           affected == {catchall, j.new} \ {NoBox}
<1>1. /\ pc[p] = "write" /\ j.op = "catchall" /\ j \in JobType
      /\ catchall' = j.new /\ stale' = stale \cup affected
      /\ UNCHANGED <<rules, spent, script, claimed, held, dormant, crossed, cut>>
      /\ TypeOK /\ RequestsTyped /\ CatchallGuarded /\ OneRunner
  BY TypesSplit DEF WriteCatchAll, IndInv, TypeOK
<1>2. affected \subseteq Mailboxes /\ StoreTyped'
  BY <1>1 DEF TypeOK, StoreTyped, JobType
<1>3. RequestsTyped' /\ Onward(p)
  <2>1. CASE End(p)
    BY <1>1, <2>1, EndOnward
  <2>2. CASE /\ job' = [job EXCEPT ![p].owes = affected \ stale]
             /\ pc' = [pc EXCEPT ![p] = "aim"]
             /\ UNCHANGED <<crowded, begun>>
    <3> DEFINE owes == affected \ stale
               r == [j EXCEPT !.owes = owes]
    <3>1. job'[p] = r /\ \A q \in Requests \ {p} : job'[q] = job[q]
      BY <1>1, <2>2 DEF TypeOK
    <3>2. r \in JobType /\ r.op = j.op
      BY <1>1, <1>2 DEF JobType
    <3>3. job' \in [Requests -> JobType]
      <4> HIDE DEF r
      <4>1. \A q \in Requests : job'[q] \in JobType
        BY <1>1, <3>1, <3>2 DEF TypeOK
      <4>2. job' = [q \in Requests |-> job'[q]]
        BY <1>1, <2>2 DEF TypeOK
      <4> QED
        BY <4>1, <4>2
    <3>4. RequestsTyped' /\ pc'[p] = "aim" /\ \A q \in Requests \ {p} : pc'[q] = pc[q]
      BY <1>1, <2>2, <3>1, <3>3, MoveTypes DEF Rebuilding
    <3> QED
      BY <1>1, <3>1, <3>2, <3>4 DEF Onward
  <2> QED
    BY <2>1, <2>2 DEF WriteCatchAll
<1>4. CatchallGuarded'
  <2>1. \A q \in Requests : pc'[q] = "write" => q # p /\ pc[q] = "write" /\ job'[q] = job[q]
    BY <1>3 DEF Onward
  <2>2. catchall' = NoBox => Clears(j)
    BY <1>1 DEF Clears
  <2>3. Clears(j) /\ rules \cap Rewrites # {} => crossed
    BY <1>1 DEF CatchallGuarded
  <2>4. \A q \in Requests : pc[q] = "write" =>
          /\ AddsRewrite(job[q]) /\ Clears(j) => crossed
          /\ Clears(job[q]) /\ rules \cap Rewrites # {} => crossed
          /\ \A o \in Requests : AddsRewrite(job[q]) /\ pc[o] = "write" /\ Clears(job[o]) => crossed
    BY <1>1 DEF CatchallGuarded
  <2>5. \A q \in Requests : pc'[q] = "write" =>
          /\ AddsRewrite(job'[q]) /\ catchall' = NoBox => crossed'
          /\ Clears(job'[q]) /\ rules' \cap Rewrites # {} => crossed'
          /\ \A o \in Requests :
               AddsRewrite(job'[q]) /\ pc'[o] = "write" /\ Clears(job'[o]) => crossed'
    BY <1>1, <2>1, <2>2, <2>4
  <2> QED
    BY <1>1, <2>2, <2>3, <2>5 DEF CatchallGuarded, RewritesHaveCatchall, AddsRewrite, Clears
<1>5. OneRunner'
  BY <1>1, <1>3, OnwardKeepsRunner
<1> QED
  BY <1>2, <1>3, <1>4, <1>5, TypesJoin DEF IndInv

-----------------------------------------------------------------------------
(* Rebuilding.                                                             *)

\* What a step has to show when it writes no rule and no catch-all.
LEMMA OnwardKeeps ==
  ASSUME IndInv, NEW p \in Requests, Onward(p), RequestsTyped', StoreTyped',
         rules' = rules, catchall' = catchall, claimed' = claimed
  PROVE  IndInv'
BY OnwardKeepsGuard, OnwardKeepsRunner, TypesJoin DEF IndInv

LEMMA AimedTypes ==
  ASSUME NEW j \in JobType, NEW all \in Seq(Mailboxes), TypeOK
  PROVE  Aimed(j, all) \in Seq(Mailboxes)
<1> DEFINE some(m) == IF m = NoBox THEN <<>> ELSE <<m>>
<1>1. \A m \in Mailboxes \cup {NoBox} : some(m) \in Seq(Mailboxes)
  OBVIOUS
<1>2. /\ j.target \in Mailboxes \cup {NoBox} /\ j.new \in Mailboxes \cup {NoBox}
      /\ catchall \in Mailboxes \cup {NoBox}
  BY DEF JobType, TypeOK
<1>3. /\ some(j.target) \in Seq(Mailboxes) /\ some(j.new) \in Seq(Mailboxes)
      /\ some(catchall) \in Seq(Mailboxes)
  BY <1>1, <1>2
<1> HIDE DEF some
<1>4. some(j.target) \o some(j.new) \in Seq(Mailboxes)
  BY <1>3
<1>5. j.rule \in Mailboxes => <<j.rule>> \in Seq(Mailboxes)
  OBVIOUS
<1>6. Aimed(j, all) =
        IF j.op = "catchall"
          THEN IF j.target = j.new THEN some(j.new) ELSE some(j.target) \o some(j.new)
        ELSE IF j.rule \in Rewrites THEN some(IF j.op = "add" THEN j.target ELSE catchall)
        ELSE IF j.rule \in Mailboxes THEN <<j.rule>>
        ELSE all
  BY DEF Aimed, some
<1> QED
  BY <1>3, <1>4, <1>5, <1>6, RulesAssumption

LEMMA SettledOnward ==
  ASSUME RequestsTyped, NEW p \in Requests, NEW done, Settled(p, done), pc[p] # "idle",
         crossed' = crossed
  PROVE  RequestsTyped' /\ Onward(p) /\ stale' \subseteq stale
BY EndOnward DEF Settled

LEMMA AimKeeps ==
  ASSUME IndInv, NEW p \in Requests, Aim(p)
  PROVE  IndInv'
<1>1. /\ pc[p] = "aim" /\ TypeOK /\ RequestsTyped /\ job[p] \in JobType
      /\ UNCHANGED <<store, held, dormant, crossed, cut>>
  BY TypesSplit DEF Aim, IndInv, TypeOK
<1>2. PICK all \in SetToSeqs(Mailboxes) :
        LET todo == Aimed(job[p], all) IN
        IF todo = <<>> THEN Settled(p, {})
        ELSE /\ job' = [job EXCEPT ![p].todo = todo,
                                   ![p].target = CASE job[p].op = "catchall" -> job[p].new
                                                   [] AddsRewrite(job[p]) -> job[p].target
                                                   [] OTHER -> catchall]
             /\ pc' = [pc EXCEPT ![p] = "compile"]
             /\ UNCHANGED <<crowded, begun, stale>>
  BY DEF Aim
<1> DEFINE todo == Aimed(job[p], all)
<1>3. todo \in Seq(Mailboxes)
  <2>1. Cardinality(Mailboxes) \in Nat
    BY RulesAssumption, FS_CardinalityType
  <2>2. all \in Seq(Mailboxes)
    BY <2>1 DEF SetToSeqs
  <2> QED
    BY <1>1, <2>2, AimedTypes
<1>4. RequestsTyped' /\ Onward(p) /\ stale' \subseteq stale
  <2>1. CASE todo = <<>>
    BY <1>1, <1>2, <2>1, SettledOnward
  <2>2. CASE todo # <<>>
    <3> DEFINE target == CASE job[p].op = "catchall" -> job[p].new
                           [] AddsRewrite(job[p]) -> job[p].target
                           [] OTHER -> catchall
               r == [job[p] EXCEPT !.todo = todo, !.target = target]
    <3>1. target \in Mailboxes \cup {NoBox}
      BY <1>1 DEF JobType, TypeOK
    <3>2. /\ job' = [job EXCEPT ![p].todo = todo, ![p].target = target]
          /\ pc' = [pc EXCEPT ![p] = "compile"]
          /\ UNCHANGED <<crowded, begun, stale>>
      BY <1>2, <2>2
    <3> HIDE DEF target, todo
    <3>3. job'[p] = r /\ \A q \in Requests \ {p} : job'[q] = job[q]
      BY <1>1, <3>2 DEF TypeOK
    <3>4. r \in JobType /\ r.op = job[p].op /\ r.todo = todo
      BY <1>1, <1>3, <3>1 DEF JobType
    <3>5. job' \in [Requests -> JobType]
      <4> HIDE DEF r
      <4>1. \A q \in Requests : job'[q] \in JobType
        BY <1>1, <3>3, <3>4 DEF TypeOK
      <4>2. job' = [q \in Requests |-> job'[q]]
        BY <1>1, <3>2 DEF TypeOK
      <4> QED
        BY <4>1, <4>2
    <3>6. RequestsTyped' /\ pc'[p] = "compile" /\ \A q \in Requests \ {p} : pc'[q] = pc[q]
      BY <1>1, <2>2, <3>2, <3>3, <3>4, <3>5, MoveTypes DEF Rebuilding
    <3> QED
      BY <1>1, <3>2, <3>3, <3>4, <3>6 DEF Onward
  <2> QED
    BY <2>1, <2>2
<1>5. StoreTyped'
  BY <1>1, <1>4 DEF store, TypeOK, StoreTyped
<1> QED
  BY <1>1, <1>4, <1>5, OnwardKeeps DEF store

LEMMA CompileKeeps ==
  ASSUME IndInv, NEW p \in Requests, Compile(p)
  PROVE  IndInv'
<1> DEFINE draft == Compiled(Box(p), job[p].lists, job[p].target)
           r == [job[p] EXCEPT !.draft = draft]
<1>1. /\ pc[p] = "compile" /\ TypeOK /\ RequestsTyped /\ job[p] \in JobType
      /\ job' = [job EXCEPT ![p].draft = draft] /\ pc' = [pc EXCEPT ![p] = "deploy"]
      /\ UNCHANGED <<store, held, begun, crowded, stale, dormant, crossed, cut>>
  BY TypesSplit DEF Compile, IndInv, TypeOK
<1>2. draft \in SUBSET AllRules
  BY <1>1 DEF Compiled, TypeOK, JobType, AllRules
<1> HIDE DEF draft
<1>3. job'[p] = r /\ \A q \in Requests \ {p} : job'[q] = job[q]
  BY <1>1 DEF TypeOK
<1>4. r \in JobType /\ r.op = job[p].op /\ r.todo = job[p].todo
  BY <1>1, <1>2 DEF JobType
<1>5. job' \in [Requests -> JobType]
  <2> HIDE DEF r
  <2>1. \A q \in Requests : job'[q] \in JobType
    BY <1>1, <1>3, <1>4 DEF TypeOK
  <2>2. job' = [q \in Requests |-> job'[q]]
    BY <1>1 DEF TypeOK
  <2> QED
    BY <2>1, <2>2
<1>6. job[p].todo # <<>>
  BY <1>1 DEF TypeOK, Rebuilding
<1>7. RequestsTyped' /\ pc'[p] = "deploy" /\ \A q \in Requests \ {p} : pc'[q] = pc[q]
  BY <1>1, <1>3, <1>4, <1>5, <1>6, MoveTypes DEF Rebuilding
<1>8. Onward(p)
  BY <1>1, <1>3, <1>4, <1>7 DEF Onward
<1>9. StoreTyped'
  BY <1>1 DEF store, TypeOK, StoreTyped
<1> QED
  BY <1>1, <1>7, <1>8, <1>9, OnwardKeeps DEF store

LEMMA MoreToDo ==
  ASSUME NEW S, NEW s \in Seq(S), s # <<>>, Len(s) # 1
  PROVE  Tail(s) \in Seq(S) /\ Tail(s) # <<>>
<1>1. Len(s) \in Nat \ {0}
  BY EmptySeq
<1>2. Tail(s) \in Seq(S) /\ Len(Tail(s)) = Len(s) - 1
  BY HeadTailProperties
<1>3. Len(Tail(s)) # 0
  BY <1>1, <1>2
<1>4. Len(<<>>) = 0
  OBVIOUS
<1> QED
  BY <1>2, <1>3, <1>4

LEMMA CallKeeps ==
  ASSUME IndInv, NEW p \in Requests, Call(p)
  PROVE  IndInv'
<1>1. /\ Calling(p) /\ pc[p] \in Rebuilding /\ TypeOK /\ RequestsTyped /\ job[p] \in JobType
      /\ script' = [script EXCEPT ![Box(p)] = After(p)]
      /\ held' = Holders(p, Then(p) # "done")
      /\ UNCHANGED <<rules, spent, catchall, claimed, crossed, cut>>
  BY TypesSplit DEF Call, Calling, Rebuilding, IndInv, TypeOK
<1>2. dormant' \subseteq dormant
  BY DEF Call
<1>3. pc[p] # "idle" /\ job[p].todo # <<>> /\ Then(p) \in {"done", "activate", "destroy"}
  BY <1>1 DEF Calling, TypeOK, Then
<1>4. RequestsTyped' /\ Onward(p) /\ stale' \subseteq stale
  <2>1. CASE Then(p) # "done"
    <3>1. Goto(p, Then(p)) /\ stale' = stale
      BY <2>1 DEF Call
    <3> QED
      BY <1>1, <1>3, <2>1, <3>1, GotoTypes DEF Onward, Rebuilding
  <2>2. CASE Then(p) = "done" /\ Len(job[p].todo) = 1
    <3>1. Settled(p, {Box(p)})
      BY <2>2 DEF Call
    <3> QED
      BY <1>1, <1>3, <3>1, SettledOnward
  <2>3. CASE Then(p) = "done" /\ Len(job[p].todo) # 1
    <3> DEFINE r == [job[p] EXCEPT !.todo = Tail(@), !.draft = {}]
    <3>1. /\ job' = [job EXCEPT ![p].todo = Tail(@), ![p].draft = {}]
          /\ pc' = [pc EXCEPT ![p] = "compile"]
          /\ UNCHANGED <<crowded, begun>> /\ stale' \subseteq stale
      BY <2>3 DEF Call
    <3>2. Tail(job[p].todo) \in Seq(Mailboxes) /\ Tail(job[p].todo) # <<>>
      <4>1. job[p].todo \in Seq(Mailboxes)
        BY <1>1 DEF JobType
      <4> QED
        BY <1>3, <2>3, <4>1, MoreToDo
    <3>3. job'[p] = r /\ \A q \in Requests \ {p} : job'[q] = job[q]
      BY <1>1, <3>1 DEF TypeOK
    <3>4. r \in JobType /\ r.op = job[p].op /\ r.todo # <<>>
      BY <1>1, <3>2 DEF JobType
    <3>5. job' \in [Requests -> JobType]
      <4> HIDE DEF r
      <4>1. \A q \in Requests : job'[q] \in JobType
        BY <1>1, <3>3, <3>4 DEF TypeOK
      <4>2. job' = [q \in Requests |-> job'[q]]
        BY <1>1, <3>1 DEF TypeOK
      <4> QED
        BY <4>1, <4>2
    <3>6. RequestsTyped' /\ pc'[p] = "compile" /\ \A q \in Requests \ {p} : pc'[q] = pc[q]
      BY <1>1, <3>1, <3>3, <3>4, <3>5, MoveTypes DEF Rebuilding
    <3> QED
      BY <1>1, <1>3, <3>1, <3>3, <3>4, <3>6 DEF Onward
  <2> QED
    BY <2>1, <2>2, <2>3
<1>5. StoreTyped'
  BY <1>1, <1>2, <1>4, CallStore
<1> QED
  BY <1>1, <1>4, <1>5, OnwardKeeps

LEMMA CallFailsKeeps ==
  ASSUME IndInv, NEW p \in Requests, CallFails(p)
  PROVE  IndInv'
<1>1. /\ Calling(p) /\ TypeOK /\ RequestsTyped
      /\ script' = script \/ script' = [script EXCEPT ![Box(p)] = After(p)]
      /\ held' = Holders(p, FALSE) /\ dormant' \subseteq dormant \cup {Box(p)}
      /\ GiveUp(p)
      /\ UNCHANGED <<rules, spent, catchall, claimed, stale, crossed, cut>>
  BY TypesSplit DEF CallFails, IndInv
<1>2. RequestsTyped' /\ Onward(p)
  BY <1>1, GiveUpOnward DEF Calling
<1>3. StoreTyped'
  BY <1>1, CallStore
<1> QED
  BY <1>1, <1>2, <1>3, OnwardKeeps

-----------------------------------------------------------------------------
(* What goes wrong.                                                        *)

LEMMA ReadFailsKeeps ==
  ASSUME IndInv, NEW p \in Requests, ReadFails(p)
  PROVE  IndInv'
<1>1. /\ TypeOK /\ RequestsTyped /\ pc[p] # "idle" /\ (End(p) \/ GiveUp(p))
      /\ UNCHANGED <<store, held, stale, dormant, crossed, cut>>
  BY TypesSplit DEF ReadFails, IndInv
<1>2. RequestsTyped' /\ Onward(p)
  BY <1>1, EndOnward, GiveUpOnward
<1>3. StoreTyped'
  BY <1>1 DEF store, TypeOK, StoreTyped
<1> QED
  BY <1>1, <1>2, <1>3, OnwardKeeps DEF store

\* The release takes the claim away with the only run there is.
LEMMA UndoKeeps ==
  ASSUME IndInv, NEW p \in Requests, Undo(p)
  PROVE  IndInv'
<1>1. /\ TypeOK /\ RequestsTyped /\ pc[p] = "undo" /\ End(p)
      /\ UNCHANGED <<spent, catchall, script, held, dormant, crossed, cut>>
  BY TypesSplit DEF Undo, IndInv
<1>2. RequestsTyped' /\ Onward(p) /\ pc'[p] = "idle"
  BY <1>1, EndOnward
<1>3. CASE job[p].op = "maintain" /\ claimed' = FALSE /\ UNCHANGED <<rules, stale>>
  <2>1. StoreTyped'
    BY <1>1, <1>3 DEF TypeOK, StoreTyped
  <2>2. p \in Running
    BY <1>1, <1>3 DEF Running, Busy
  <2>3. OneRunner'
    BY <1>2, <2>2, OnwardKeepsRunner DEF IndInv
  <2>4. CatchallGuarded'
    BY <1>1, <1>2, <1>3, OnwardKeepsGuard DEF IndInv
  <2> QED
    BY <1>2, <2>1, <2>3, <2>4, TypesJoin DEF IndInv
<1>4. CASE /\ rules' = rules \ {job[p].rule}
           /\ stale' = stale \cup BearsOn(job[p].rule)
           /\ UNCHANGED claimed
  <2>1. BearsOn(job[p].rule) \subseteq Mailboxes
    BY <1>1 DEF BearsOn, TypeOK
  <2>2. StoreTyped'
    BY <1>1, <1>4, <2>1 DEF TypeOK, StoreTyped
  <2>3. OneRunner'
    BY <1>2, <1>4, OnwardKeepsRunner DEF IndInv
  <2>4. CatchallGuarded'
    BY <1>1, <1>2, <1>4, OnwardKeepsGuard DEF IndInv
  <2> QED
    BY <1>2, <2>2, <2>3, <2>4, TypesJoin DEF IndInv
<1> QED
  BY <1>3, <1>4 DEF Undo

LEMMA UndoFailsKeeps ==
  ASSUME IndInv, NEW p \in Requests, UndoFails(p)
  PROVE  IndInv'
<1>1. /\ TypeOK /\ RequestsTyped /\ pc[p] # "idle" /\ End(p) /\ cut' \in BOOLEAN
      /\ UNCHANGED <<store, held, stale, dormant, crossed>>
  BY TypesSplit DEF UndoFails, IndInv, TypeOK
<1>2. RequestsTyped' /\ Onward(p)
  BY <1>1, EndOnward
<1>3. StoreTyped'
  BY <1>1 DEF store, TypeOK, StoreTyped
<1> QED
  BY <1>1, <1>2, <1>3, OnwardKeeps DEF store

LEMMA CrashKeeps ==
  ASSUME IndInv, NEW p \in Requests, Crash(p)
  PROVE  IndInv'
<1>1. /\ TypeOK /\ RequestsTyped /\ pc[p] # "idle" /\ End(p) /\ cut' \in BOOLEAN
      /\ held' = [held EXCEPT ![p] = FALSE]
      /\ UNCHANGED <<store, stale, crossed>>
  BY TypesSplit DEF Crash, IndInv, TypeOK
<1>2. RequestsTyped' /\ Onward(p)
  BY <1>1, EndOnward
<1>3. dormant' \subseteq Mailboxes
  <2>1. CASE pc[p] \in {"activate", "destroy"}
    <3>1. Box(p) \in Mailboxes
      BY <1>1, <2>1, BoxTypes DEF Rebuilding
    <3> QED
      BY <1>1, <2>1, <3>1 DEF Crash, TypeOK
  <2>2. CASE pc[p] \notin {"activate", "destroy"}
    BY <1>1, <2>2 DEF Crash, TypeOK
  <2> QED
    BY <2>1, <2>2
<1>4. StoreTyped'
  BY <1>1, <1>3 DEF store, TypeOK, StoreTyped
<1> QED
  BY <1>1, <1>2, <1>4, OnwardKeeps DEF store

-----------------------------------------------------------------------------
(* The invariant behind RebuiltFollowsRules: what a step of one request    *)
(* leaves to the others.                                                   *)

\* Only request p moves, and only on; it stays crowded, or alone, until it ends.
Moves(p) ==
  /\ pc[p] # "idle"
  /\ \A q \in Requests \ {p} : pc'[q] = pc[q] /\ job'[q] = job[q]
  /\ \/ /\ pc'[p] # "idle" /\ crowded' = crowded
        /\ job'[p].op = job[p].op /\ job'[p].rule = job[p].rule
     \/ pc'[p] = "idle" /\ crowded' = crowded \ {p}

\* A change of the rules, or of the catch-all, has made stale what it bears on.
ChangeShown ==
  /\ rules' \cap Lists = rules \cap Lists \/ stale' = Mailboxes
  /\ catchall' = catchall \/ {catchall, catchall'} \ {NoBox} \subseteq stale'
  /\ \A m \in Mailboxes : m \in rules' /\ m \notin stale' => m \in rules
  /\ \A m \in Mailboxes : m \notin stale' => RulesOf(m)' = RulesOf(m)

LEMMA MovesKeepsAlone ==
  ASSUME Alone, NEW p \in Requests, Moves(p)
  PROVE  Alone'
<1> SUFFICES ASSUME NEW q \in Requests, pc'[q] # "idle", q \notin crowded',
                    NEW o \in Requests, pc'[o] # "idle"
             PROVE  o = q
  BY DEF Alone, Busy
<1>1. pc[q] # "idle" /\ pc[o] # "idle" /\ q \notin crowded
  BY DEF Moves
<1> QED
  BY <1>1 DEF Alone, Busy

\* Of two requests that have begun both are crowded.
LEMMA OthersCrowded ==
  ASSUME Alone, NEW p \in Requests, NEW q \in Requests \ {p}, pc[p] # "idle", pc[q] # "idle"
  PROVE  p \in crowded /\ q \in crowded
BY DEF Alone, Busy

LEMMA OthersInformed ==
  ASSUME TypeOK, TypeOK', NEW p \in Requests, NEW q \in Requests \ {p}, Informed(q),
         pc'[q] = pc[q], job'[q] = job[q],
         pc[q] # "idle" => q \in crowded' /\ stale \subseteq stale' /\ ChangeShown,
         held'[q] => held[q] /\ (script'[Box(q)] = script[Box(q)] \/ script'[Box(q)].exists),
         \A m \in Mailboxes : script'[m].old => script[m].old
  PROVE  Informed(q)'
<1>1. HeldThere(q)'
  BY DEF Informed, HeldThere, Box
<1>2. CASE pc[q] = "idle"
  <2>1. DraftSound(q)'
    BY <1>2 DEF DraftSound
  <2>2. ReadsTrue(q)' /\ DraftFollows(q)' /\ OwedReached(q)' /\ RunGoesOn(q)'
    BY <1>2 DEF ReadsTrue, DraftFollows, Calling, OwedReached, RunGoesOn, Running, Busy
  <2> QED
    BY <1>1, <2>1, <2>2 DEF Informed
<1>3. CASE pc[q] # "idle"
  <2>1. DraftSound(q)'
    <3>1. pc[q] = "activate" => Box(q) \in Mailboxes
      BY BoxTypes DEF Rebuilding
    <3> QED
      BY <1>3, <3>1 DEF DraftSound, Informed, Box
  <2>2. ReadsTrue(q)'
    <3>1. Knows(q)' = Knows(q)
      BY DEF Knows
    <3>2. stale' \subseteq Mailboxes
      BY DEF TypeOK
    <3>3. /\ job[q].lists # rules \cap Lists => stale = Mailboxes
          /\ Knows(q) # catchall => {Knows(q), catchall} \ {NoBox} \subseteq stale
      BY <1>3 DEF Informed, ReadsTrue, Busy
    <3>4. job[q].lists # rules' \cap Lists => stale' = Mailboxes
      BY <1>3, <3>2, <3>3 DEF ChangeShown
    <3>5. Knows(q) # catchall' => {Knows(q), catchall'} \ {NoBox} \subseteq stale'
      BY <1>3, <3>3 DEF ChangeShown
    <3> QED
      BY <1>3, <3>1, <3>4, <3>5 DEF ReadsTrue
  <2>3. DraftFollows(q)'
    <3> SUFFICES ASSUME Calling(q), Box(q) \notin stale'
                 PROVE  job[q].draft = RulesOf(Box(q))'
      BY <1>3 DEF DraftFollows, Calling, Box
    <3>1. Box(q) \in Mailboxes
      BY BoxTypes DEF Calling, Rebuilding
    <3>2. job[q].draft = RulesOf(Box(q))
      BY <1>3 DEF Informed, DraftFollows
    <3>3. PICK b \in Mailboxes : b = Box(q) /\ b = Box(q)'
      BY <3>1 DEF Box
    <3>4. RulesOf(b)' = RulesOf(b)
      BY <1>3, <3>3 DEF ChangeShown
    <3> QED
      BY <3>2, <3>3, <3>4 DEF RulesOf, Compiled
  <2>4. OwedReached(q)'
    BY <1>3 DEF OwedReached
  <2>5. RunGoesOn(q)'
    BY <1>3 DEF Informed, RunGoesOn, ChangeShown, Running, Busy
  <2> QED
    BY <1>1, <2>1, <2>2, <2>3, <2>4, <2>5 DEF Informed
<1> QED
  BY <1>2, <1>3

\* What a step of p has to show.
LEMMA StepKeeps ==
  ASSUME TypeOK, TypeOK', RebuildInv, NEW p \in Requests, Moves(p), ChangeShown,
         stale \subseteq stale' \/ p \notin crowded,
         \A q \in Requests \ {p} : held'[q] =>
           held[q] /\ (script'[Box(q)] = script[Box(q)] \/ script'[Box(q)].exists),
         \A m \in Mailboxes : script'[m].old => script[m].old,
         \A m \in Mailboxes : m \in stale /\ m \notin stale' => ~ script'[m].old,
         claimed' => claimed, cut => cut',
         p \in Running /\ pc'[p] = "idle" =>
           cut' \/ ~ claimed' \/ \A m \in Mailboxes : m \in rules' /\ m \notin stale' => ~ script'[m].old,
         Informed(p)', ScriptsSound', DormantKnown', RebuiltFollowsRules'
  PROVE  RebuildInv'
<1>1. Alone'
  BY MovesKeepsAlone DEF RebuildInv
<1>2. ASSUME NEW q \in Requests \ {p} PROVE Informed(q)'
  <2>1. pc[q] # "idle" => p \in crowded /\ q \in crowded
    BY OthersCrowded DEF RebuildInv, Moves
  <2>2. pc[q] # "idle" => q \in crowded' /\ stale \subseteq stale'
    BY <2>1 DEF Moves
  <2>3. Informed(q) /\ pc'[q] = pc[q] /\ job'[q] = job[q]
    BY DEF RebuildInv, Moves
  <2> QED
    BY <2>2, <2>3, OthersInformed
<1>3. NoOldLeft'
  <2> SUFFICES ASSUME claimed', Running' = {}, ~ cut', NEW m \in Mailboxes,
                      m \in rules', m \notin stale', script'[m].old
               PROVE  FALSE
    BY DEF NoOldLeft
  <2>1. m \in rules /\ m \notin stale /\ script[m].old
    BY DEF ChangeShown
  <2>2. Running # {}
    BY <2>1 DEF RebuildInv, NoOldLeft
  <2>3. PICK q \in Requests : pc[q] # "idle" /\ job[q].op = "maintain"
    BY <2>2 DEF Running, Busy
  <2>4. pc'[q] = "idle" \/ job'[q].op # "maintain"
    BY DEF Running, Busy
  <2>5. q = p /\ pc'[p] = "idle"
    BY <2>3, <2>4 DEF Moves
  <2>6. p \in Running
    BY <2>3, <2>5 DEF Running, Busy
  <2> QED
    BY <2>5, <2>6
<1> QED
  BY <1>1, <1>2, <1>3 DEF RebuildInv

\* The scripts stay; a request between two calls stops only where that is known.
LEMMA ScriptsKept ==
  ASSUME TypeOK, TypeOK', RebuildInv, NEW p \in Requests,
         \A q \in Requests \ {p} : pc'[q] = pc[q] /\ job'[q] = job[q],
         script' = script, stale \subseteq stale', ChangeShown,
         pc[p] \in {"activate", "destroy"} => Box(p) \in dormant' \/ ~ script[Box(p)].exists,
         \A m \in dormant : m \in dormant' \/ ~ script[m].exists
  PROVE  ScriptsSound' /\ DormantKnown' /\ RebuiltFollowsRules'
<1>1. ScriptsSound /\ DormantKnown /\ RebuiltFollowsRules
  BY DEF RebuildInv
<1>2. ScriptsSound'
  BY <1>1 DEF ScriptsSound
<1>3. DormantKnown'
  <2> SUFFICES ASSUME NEW m \in Mailboxes, script[m].exists, ~ script[m].active, m \notin dormant'
               PROVE  \E q \in Requests : pc'[q] \in {"activate", "destroy"} /\ Head(job'[q].todo) = m
    BY DEF DormantKnown, Waiting, Box
  <2>1. m \notin dormant
    OBVIOUS
  <2>2. PICK q \in Requests : pc[q] \in {"activate", "destroy"} /\ Head(job[q].todo) = m
    BY <1>1, <2>1 DEF DormantKnown, Waiting, Box
  <2>3. q # p
    BY <2>2 DEF Box
  <2> QED
    BY <2>2, <2>3
<1>4. RebuiltFollowsRules'
  <2> SUFFICES ASSUME NEW m \in Mailboxes, m \notin stale'
               PROVE  /\ script'[m].holds = RulesOf(m)'
                      /\ m \in dormant' \/ InForce(m)' = RulesOf(m)'
    BY DEF RebuiltFollowsRules
  <2>1. /\ RulesOf(m)' = RulesOf(m)
        /\ script[m].holds = RulesOf(m)
        /\ m \in dormant \/ InForce(m) = RulesOf(m)
    BY <1>1 DEF ChangeShown, RebuiltFollowsRules
  <2>2. InForce(m)' = InForce(m)
    BY DEF InForce
  <2>3. ~ script[m].exists => InForce(m) = script[m].holds
    BY <1>1 DEF ScriptsSound, InForce
  <2> QED
    BY <2>1, <2>2, <2>3
<1> QED
  BY <1>2, <1>3, <1>4

\* A step that leaves the scripts alone.
LEMMA QuietStepKeeps ==
  ASSUME TypeOK, TypeOK', RebuildInv, NEW p \in Requests, Moves(p), ChangeShown,
         script' = script, stale \subseteq stale',
         \A q \in Requests \ {p} : held'[q] = held[q],
         pc[p] \in {"activate", "destroy"} => Box(p) \in dormant' \/ ~ script[Box(p)].exists,
         \A m \in dormant : m \in dormant' \/ ~ script[m].exists,
         claimed' => claimed, cut => cut',
         p \in Running /\ pc'[p] = "idle" =>
           cut' \/ ~ claimed' \/ \A m \in Mailboxes : m \in rules' /\ m \notin stale' => ~ script'[m].old,
         Informed(p)'
  PROVE  RebuildInv'
<1>1. ScriptsSound' /\ DormantKnown' /\ RebuiltFollowsRules'
  BY ScriptsKept DEF Moves
<1> QED
  BY <1>1, StepKeeps

LEMMA NothingChanged ==
  ASSUME rules' = rules, catchall' = catchall
  PROVE  ChangeShown
BY DEF ChangeShown, RulesOf, Compiled

LEMMA RuleChanged ==
  ASSUME TypeOK, TypeOK', NEW r \in AllRules \cup {NoRule}, rules' \ {r} = rules \ {r},
         stale' = stale \cup BearsOn(r), catchall' = catchall
  PROVE  ChangeShown
<1>1. r \in Rows \cup Lists \cup {NoRule}
  BY DEF AllRules
<1>2. r \notin Mailboxes \cup Rewrites => stale' = Mailboxes
  BY DEF BearsOn, TypeOK
<1>3. rules' \cap Lists = rules \cap Lists \/ stale' = Mailboxes
  BY <1>2, RulesAssumption
<1>4. \A m \in Mailboxes : m \in rules' /\ m \notin stale' => m \in rules
  BY DEF BearsOn
<1>5. ASSUME NEW m \in Mailboxes, m \notin stale'
      PROVE  RulesOf(m)' = RulesOf(m)
  <2>1. r \in Mailboxes \cup Rewrites
    BY <1>2, <1>5
  <2>2. rules' \cap Lists = rules \cap Lists
    BY <2>1, RulesAssumption
  <2>3. CASE r \in Mailboxes
    <3>1. r # m
      BY <1>5, <2>3 DEF BearsOn
    <3>2. \A x : x \in Captures \/ x = m \/ x \in Rewrites => (x \in rules' <=> x \in rules)
      BY <2>3, <3>1, RulesAssumption
    <3> QED
      BY <2>2, <3>2 DEF RulesOf, Compiled
  <2>4. CASE r \in Rewrites
    <3>1. m # catchall
      BY <1>5, <2>4, RulesAssumption DEF BearsOn, TypeOK
    <3>2. \A x : x \in Captures \/ x = m => (x \in rules' <=> x \in rules)
      BY <2>4, RulesAssumption
    <3> QED
      BY <2>2, <3>1, <3>2 DEF RulesOf, Compiled
  <2> QED
    BY <2>1, <2>3, <2>4
<1> QED
  BY <1>3, <1>4, <1>5 DEF ChangeShown

LEMMA CatchallChanged ==
  ASSUME rules' = rules, stale' = stale \cup ({catchall, catchall'} \ {NoBox})
  PROVE  ChangeShown
<1>1. ASSUME NEW m \in Mailboxes, m \notin stale'
      PROVE  RulesOf(m)' = RulesOf(m)
  <2>1. m # catchall /\ m # catchall'
    BY <1>1, RulesAssumption
  <2> QED
    BY <2>1 DEF RulesOf, Compiled
<1> QED
  BY <1>1 DEF ChangeShown

-----------------------------------------------------------------------------
(* Steps that begin and end requests.                                      *)

LEMMA InitRebuild == Init => RebuildInv
<1> SUFFICES ASSUME Init PROVE RebuildInv
  OBVIOUS
<1>1. /\ Busy = {} /\ Running = {} /\ claimed = FALSE
      /\ \A p \in Requests : pc[p] = "idle" /\ held[p] = FALSE
      /\ rules \subseteq Mailboxes /\ catchall = NoBox
  BY DEF Init, Busy, Running
<1>2. Alone /\ NoOldLeft
  BY <1>1 DEF Alone, NoOldLeft
<1>3. \A m \in Mailboxes :
        script[m] = IF m \in rules
                    THEN [exists |-> TRUE, active |-> TRUE, holds |-> {m}, old |-> TRUE]
                    ELSE NoScript
  BY DEF Init
<1>4. \A m \in Mailboxes :
        /\ script[m].exists <=> m \in rules
        /\ script[m].active <=> m \in rules
        /\ script[m].holds = IF m \in rules THEN {m} ELSE {}
  <2> TAKE m \in Mailboxes
  <2>1. CASE m \in rules
    <3>1. script[m] = [exists |-> TRUE, active |-> TRUE, holds |-> {m}, old |-> TRUE]
      BY <1>3, <2>1
    <3>2. script[m].exists = TRUE /\ script[m].active = TRUE /\ script[m].holds = {m}
      BY <3>1
    <3> QED
      BY <2>1, <3>2
  <2>2. CASE m \notin rules
    <3>1. script[m] = [exists |-> FALSE, active |-> FALSE, holds |-> {}, old |-> FALSE]
      BY <1>3, <2>2 DEF NoScript
    <3>2. script[m].exists = FALSE /\ script[m].active = FALSE /\ script[m].holds = {}
      BY <3>1
    <3> QED
      BY <2>2, <3>2
  <2> QED
    BY <2>1, <2>2
<1>5. ScriptsSound /\ DormantKnown
  BY <1>4 DEF ScriptsSound, DormantKnown
<1>6. \A m \in Mailboxes : RulesOf(m) = IF m \in rules THEN {m} ELSE {}
  BY <1>1, RulesAssumption DEF RulesOf, Compiled
<1>7. RebuiltFollowsRules
  BY <1>4, <1>6 DEF RebuiltFollowsRules, InForce
<1>8. \A p \in Requests : Informed(p)
  BY <1>1 DEF Informed, HeldThere, DraftSound, ReadsTrue, DraftFollows, Calling, OwedReached,
              RunGoesOn
<1> QED
  BY <1>2, <1>5, <1>7, <1>8 DEF RebuildInv

\* A request that begins has read what there is, and owes nothing.
LEMMA BeginRebuild ==
  ASSUME TypeOK, TypeOK', RebuildInv, NEW p \in Requests, NEW at \in {"write", "aim"},
         NEW op \in {"add", "drop", "toggle", "catchall", "maintain"},
         NEW rule \in AllRules \cup {NoRule}, NEW new \in Mailboxes \cup {NoBox},
         Begin(p, at, op, rule, new), UNCHANGED <<rules, spent, catchall, script, cut>>,
         at = "aim" <=> op = "maintain", op = "maintain" => rule = NoRule,
         op # "maintain" => claimed' = claimed
  PROVE  RebuildInv'
<1> DEFINE j == [op |-> op, rule |-> rule, new |-> new, lists |-> rules \cap Lists,
                 target |-> catchall, todo |-> <<>>, draft |-> {}, owes |-> {}]
<1>1. /\ pc[p] = "idle" /\ pc' = [pc EXCEPT ![p] = at] /\ job' = [job EXCEPT ![p] = j]
      /\ crowded' = IF Busy = {} THEN crowded ELSE crowded \cup Busy \cup {p}
      /\ UNCHANGED <<held, stale, dormant>>
  BY DEF Begin
<1>2. /\ pc'[p] = at /\ job'[p] = j
      /\ \A q \in Requests \ {p} : pc'[q] = pc[q] /\ job'[q] = job[q]
  BY <1>1 DEF TypeOK
<1>3. /\ job'[p].op = op /\ job'[p].rule = rule /\ job'[p].lists = rules \cap Lists
      /\ job'[p].target = catchall /\ job'[p].owes = {}
  BY <1>2
<1> HIDE DEF j
<1>4. Busy' = Busy \cup {p}
  BY <1>2 DEF Busy
<1>5. Alone'
  BY <1>1, <1>4 DEF RebuildInv, Alone
<1>6. ChangeShown
  BY NothingChanged
<1>7. ASSUME NEW q \in Requests \ {p} PROVE Informed(q)'
  <2>1. pc[q] # "idle" => q \in crowded'
    BY <1>1 DEF Busy
  <2>2. Informed(q) /\ held'[q] = held[q]
    BY <1>1 DEF RebuildInv
  <2> QED
    BY <1>1, <1>2, <1>6, <2>1, <2>2, OthersInformed
<1>8. Informed(p)'
  <2>1. ~ held'[p]
    BY <1>1 DEF RebuildInv, Informed, HeldThere
  <2>2. HeldThere(p)' /\ DraftSound(p)' /\ DraftFollows(p)'
    BY <1>2, <2>1 DEF HeldThere, DraftSound, DraftFollows, Calling
  <2>3. ReadsTrue(p)'
    <3>1. Knows(p)' = catchall
      BY <1>2, <1>3 DEF Knows
    <3> QED
      BY <1>3, <3>1 DEF ReadsTrue
  <2>4. OwedReached(p)' /\ RunGoesOn(p)'
    BY <1>2, <1>3 DEF OwedReached, RunGoesOn, Running, Rebuilding
  <2> QED
    BY <2>2, <2>3, <2>4 DEF Informed
<1>9. ScriptsSound' /\ DormantKnown' /\ RebuiltFollowsRules'
  BY <1>1, <1>2, <1>6, ScriptsKept
<1>10. NoOldLeft'
  <2>1. CASE op = "maintain"
    BY <1>2, <1>3, <2>1 DEF NoOldLeft, Running, Busy
  <2>2. CASE op # "maintain"
    <3>1. Running' = {} => Running = {}
      BY <1>1, <1>2 DEF Running, Busy
    <3> QED
      BY <1>1, <2>2, <3>1 DEF RebuildInv, NoOldLeft
  <2> QED
    BY <2>1, <2>2
<1> QED
  BY <1>5, <1>7, <1>8, <1>9, <1>10 DEF RebuildInv

\* What is asked for changes nothing but the requests.
LEMMA AskRebuild ==
  ASSUME TypeOK, TypeOK', RebuildInv, NEW p \in Requests,
         \/ \E r \in Rows : BeginAdd(p, r) \/ BeginDrop(p, r)
         \/ \E r \in Lists : BeginToggle(p, r)
         \/ \E m \in Mailboxes \cup {NoBox} : BeginCatchAll(p, m)
  PROVE  RebuildInv'
<1>1. \A r \in Rows \cup Lists : r \in AllRules \cup {NoRule}
  BY DEF AllRules
<1>2. ASSUME NEW r \in Rows, BeginAdd(p, r) PROVE RebuildInv'
  BY <1>1, <1>2, BeginRebuild DEF BeginAdd, store
<1>3. ASSUME NEW r \in Rows, BeginDrop(p, r) PROVE RebuildInv'
  BY <1>1, <1>3, BeginRebuild DEF BeginDrop, store
<1>4. ASSUME NEW r \in Lists, BeginToggle(p, r) PROVE RebuildInv'
  BY <1>1, <1>4, BeginRebuild DEF BeginToggle, store
<1>5. ASSUME NEW m \in Mailboxes \cup {NoBox}, BeginCatchAll(p, m) PROVE RebuildInv'
  BY <1>5, BeginRebuild DEF BeginCatchAll, store
<1> QED
  BY <1>2, <1>3, <1>4, <1>5

\* The task is claimed; without forwards there is no script of the earlier release
\* to rebuild, and a claim nobody knows of promises nothing.
LEMMA BeginTaskRebuild ==
  ASSUME TypeOK, TypeOK', RebuildInv, NEW p \in Requests, BeginTask(p)
  PROVE  RebuildInv'
<1>1. UNCHANGED <<rules, spent, catchall, script>>
  BY DEF BeginTask
<1>2. CASE Begin(p, "aim", "maintain", NoRule, NoBox) /\ UNCHANGED cut
  BY <1>1, <1>2, BeginRebuild
<1>3. CASE (rules \cap Mailboxes = {} \/ cut') /\ UNCHANGED <<requests, stale, dormant, crossed>>
  <2>1. NoOldLeft'
    BY <1>1, <1>3 DEF NoOldLeft
  <2>2. UNCHANGED <<pc, job, held, crowded, stale, dormant>>
    BY <1>3 DEF requests
  <2>3. ScriptsSound' /\ DormantKnown' /\ RebuiltFollowsRules' /\ Alone'
    BY <1>1, <2>2 DEF RebuildInv, ScriptsSound, DormantKnown, Waiting, Box,
                      RebuiltFollowsRules, InForce, RulesOf, Compiled, Alone, Busy
  <2>4. ASSUME NEW q \in Requests PROVE Informed(q)'
    <3>1. Informed(q)
      BY DEF RebuildInv
    <3>2. HeldThere(q)' /\ DraftSound(q)'
      BY <1>1, <2>2, <3>1 DEF Informed, HeldThere, DraftSound, Box
    <3>3. ReadsTrue(q)'
      BY <1>1, <2>2, <3>1 DEF Informed, ReadsTrue, Knows, Busy
    <3>4. DraftFollows(q)'
      BY <1>1, <2>2, <3>1 DEF Informed, DraftFollows, Calling, Box, RulesOf, Compiled
    <3>5. OwedReached(q)'
      BY <1>1, <2>2, <3>1 DEF Informed, OwedReached, Busy, Reach
    <3>6. RunGoesOn(q)'
      BY <1>1, <2>2, <3>1 DEF Informed, RunGoesOn, Running, Busy
    <3> QED
      BY <3>2, <3>3, <3>4, <3>5, <3>6 DEF Informed
  <2> QED
    BY <2>1, <2>3, <2>4 DEF RebuildInv
<1> QED
  BY <1>2, <1>3 DEF BeginTask

\* The end of a request.
LEMMA EndMoves ==
  ASSUME TypeOK, NEW p \in Requests, End(p), pc[p] # "idle"
  PROVE  Moves(p) /\ pc'[p] = "idle"
BY DEF End, Moves, TypeOK

LEMMA EndedInformed ==
  ASSUME NEW p \in Requests, pc'[p] = "idle", ~ held'[p]
  PROVE  Informed(p)'
<1>1. HeldThere(p)' /\ DraftSound(p)' /\ DraftFollows(p)'
  BY DEF HeldThere, DraftSound, DraftFollows, Calling
<1>2. ReadsTrue(p)' /\ OwedReached(p)' /\ RunGoesOn(p)'
  BY DEF ReadsTrue, OwedReached, RunGoesOn, Running, Busy
<1> QED
  BY <1>1, <1>2 DEF Informed

\* A request that has not called yet, or is done with a call, knows no script.
LEMMA NotHeld ==
  ASSUME RebuildInv, NEW p \in Requests, pc[p] \notin {"activate", "destroy"}
  PROVE  ~ held[p]
BY DEF RebuildInv, Informed, HeldThere

\* It goes to take back what it did.
LEMMA UndoInformed ==
  ASSUME TypeOK, RebuildInv, NEW p \in Requests, pc[p] # "idle", pc'[p] = "undo", job' = job,
         job[p].op \in {"add", "maintain"}, ~ held'[p], crowded' = crowded,
         rules' = rules, catchall' = catchall, stale' = stale
  PROVE  Informed(p)'
<1>1. Informed(p)
  BY DEF RebuildInv
<1>2. HeldThere(p)' /\ DraftSound(p)' /\ DraftFollows(p)' /\ OwedReached(p)'
  BY DEF HeldThere, DraftSound, DraftFollows, Calling, OwedReached, Rebuilding
<1>3. ReadsTrue(p)'
  <2>1. Knows(p)' = Knows(p)
    BY DEF Knows
  <2> QED
    BY <1>1, <2>1 DEF Informed, ReadsTrue, Busy
<1>4. RunGoesOn(p)'
  BY <1>1 DEF Informed, RunGoesOn, Running, Busy, Rebuilding
<1> QED
  BY <1>2, <1>3, <1>4 DEF Informed

\* A request that gives up without having changed anything on the way.
LEMMA GiveUpInformed ==
  ASSUME TypeOK, RebuildInv, NEW p \in Requests, pc[p] # "idle", GiveUp(p), ~ held'[p],
         rules' = rules, catchall' = catchall, stale' = stale
  PROVE  /\ Moves(p) /\ Informed(p)'
         /\ pc'[p] = "idle" => p \notin Running
<1>1. CASE End(p) /\ job[p].op \notin {"add", "maintain"}
  BY <1>1, EndMoves, EndedInformed DEF Running
<1>2. CASE Goto(p, "undo") /\ job[p].op \in {"add", "maintain"}
  <2>1. /\ job' = job /\ crowded' = crowded /\ pc'[p] = "undo"
        /\ \A q \in Requests \ {p} : pc'[q] = pc[q]
    BY <1>2 DEF Goto, TypeOK
  <2> QED
    BY <1>2, <2>1, UndoInformed DEF Moves
<1> QED
  BY <1>1, <1>2 DEF GiveUp

LEMMA ReadFailsRebuild ==
  ASSUME TypeOK, TypeOK', RebuildInv, NEW p \in Requests, ReadFails(p)
  PROVE  RebuildInv'
<1>1. /\ pc[p] \in {"write", "compile", "aim"}
      /\ (pc[p] = "write" /\ End(p)) \/ GiveUp(p)
      /\ UNCHANGED <<rules, catchall, script, claimed, held, stale, dormant, crossed, cut>>
  BY DEF ReadFails, store
<1>2. ~ held'[p]
  BY <1>1, NotHeld
<1>3. Moves(p) /\ Informed(p)' /\ (pc'[p] = "idle" => p \notin Running)
  <2>1. pc[p] = "write" => p \notin Running
    BY DEF RebuildInv, Informed, RunGoesOn
  <2> QED
    BY <1>1, <1>2, <2>1, EndMoves, EndedInformed, GiveUpInformed
<1>4. ChangeShown
  BY <1>1, NothingChanged
<1> QED
  BY <1>1, <1>3, <1>4, QuietStepKeeps

-----------------------------------------------------------------------------
(* The writes, and the end of what could not be done.                      *)

LEMMA WriteRuleRebuild ==
  ASSUME TypeOK, TypeOK', RebuildInv, NEW p \in Requests, WriteRule(p)
  PROVE  RebuildInv'
<1> DEFINE j == job[p]
<1>1. /\ pc[p] = "write" /\ j.op \in {"add", "drop", "toggle"} /\ j \in JobType
      /\ UNCHANGED <<catchall, script, claimed, held, dormant, crossed, cut>>
      /\ j.rule \in AllRules
  BY DEF WriteRule, TypeOK, AllRules
<1>2. ~ held'[p] /\ p \notin Running
  BY <1>1, NotHeld DEF Running
<1>3. CASE UNCHANGED <<rules, spent, stale>> /\ End(p)
  <2>1. Moves(p) /\ Informed(p)'
    BY <1>1, <1>2, <1>3, EndMoves, EndedInformed
  <2>2. ChangeShown
    BY <1>1, <1>3, NothingChanged
  <2> QED
    BY <1>1, <1>2, <1>3, <2>1, <2>2, QuietStepKeeps
<1>4. CASE /\ rules' = IF j.op = "add" \/ (j.op = "toggle" /\ j.rule \notin rules)
                          THEN rules \cup {j.rule} ELSE rules \ {j.rule}
           /\ spent' = spent \cup ({j.rule} \ Lists)
           /\ stale' = stale \cup BearsOn(j.rule)
           /\ pc' = [pc EXCEPT ![p] = "aim"]
           /\ job' = [job EXCEPT ![p].owes = BearsOn(j.rule) \ stale, ![p].lists =
                IF j.rule \notin Lists THEN @
                ELSE IF j.rule \in rules' THEN @ \cup {j.rule} ELSE @ \ {j.rule}]
           /\ UNCHANGED <<crowded, begun>>
  <2> DEFINE lists == IF j.rule \notin Lists THEN j.lists
                      ELSE IF j.rule \in rules' THEN j.lists \cup {j.rule} ELSE j.lists \ {j.rule}
             owes == BearsOn(j.rule) \ stale
             r == [j EXCEPT !.owes = owes, !.lists = lists]
  <2>1. job'[p] = r /\ \A q \in Requests \ {p} : job'[q] = job[q]
    BY <1>1, <1>4 DEF TypeOK
  <2>2. /\ r.op = j.op /\ r.rule = j.rule /\ r.new = j.new /\ r.target = j.target
        /\ r.owes = owes /\ r.lists = lists
    BY <1>1 DEF JobType
  <2> HIDE DEF r
  <2>3. pc'[p] = "aim" /\ \A q \in Requests \ {p} : pc'[q] = pc[q]
    BY <1>4 DEF TypeOK
  <2>4. Moves(p)
    BY <1>1, <1>4, <2>1, <2>2, <2>3 DEF Moves
  <2>5. ChangeShown
    BY <1>1, <1>4, RuleChanged
  <2>6. Informed(p)
    BY DEF RebuildInv
  <2>7. ReadsTrue(p)'
    <3>1. Knows(p) = j.target /\ Knows(p)' = j.target
      BY <1>1, <2>1, <2>2 DEF Knows
    <3>2. Knows(p) # catchall => p \in crowded /\ {Knows(p), catchall} \ {NoBox} \subseteq stale
      BY <1>1, <2>6 DEF Informed, ReadsTrue, Busy
    <3>3. j.lists # rules \cap Lists => p \in crowded /\ stale = Mailboxes
      BY <1>1, <2>6 DEF Informed, ReadsTrue, Busy
    <3>4. j.lists = rules \cap Lists => lists = rules' \cap Lists
      BY <1>4
    <3>5. stale = Mailboxes => stale' = Mailboxes
      BY <1>4 DEF TypeOK
    <3> QED
      BY <1>1, <1>4, <2>1, <2>2, <3>1, <3>2, <3>3, <3>4, <3>5 DEF ReadsTrue
  <2>8. OwedReached(p)'
    <3>1. p \notin crowded => j.target = catchall
      BY <1>1, <2>6 DEF Informed, ReadsTrue, Busy, Knows
    <3> SUFFICES ASSUME p \notin crowded
                 PROVE  job'[p].owes \subseteq
                          IF job'[p].op = "catchall" THEN {job'[p].target, job'[p].new} \ {NoBox}
                          ELSE IF job'[p].rule \in Rewrites
                            THEN {IF job'[p].op = "add" THEN job'[p].target ELSE catchall'} \ {NoBox}
                          ELSE IF job'[p].rule \in Mailboxes THEN {job'[p].rule}
                          ELSE Mailboxes
      BY <1>4, <2>3 DEF OwedReached, Busy, Rebuilding, Reach
    <3>2. /\ job'[p].target = catchall /\ job'[p].op # "catchall" /\ catchall' = catchall
          /\ job'[p].rule = j.rule /\ job'[p].owes \subseteq BearsOn(j.rule)
      BY <1>1, <2>1, <2>2, <3>1
    <3>3. j.rule \in Mailboxes => j.rule \notin Rewrites
      BY RulesAssumption
    <3> QED
      BY <3>2, <3>3 DEF BearsOn
  <2>9. HeldThere(p)' /\ DraftSound(p)' /\ DraftFollows(p)' /\ RunGoesOn(p)'
    BY <1>1, <1>2, <2>1, <2>2, <2>3 DEF HeldThere, DraftSound, DraftFollows, Calling, RunGoesOn, Running
  <2>10. Informed(p)'
    BY <2>7, <2>8, <2>9 DEF Informed
  <2> QED
    BY <1>1, <1>2, <1>4, <2>4, <2>5, <2>10, QuietStepKeeps
<1> QED
  BY <1>1, <1>3, <1>4 DEF WriteRule

LEMMA WriteCatchAllRebuild ==
  ASSUME TypeOK, TypeOK', RebuildInv, NEW p \in Requests, WriteCatchAll(p)
  PROVE  RebuildInv'
<1> DEFINE j == job[p]
           affected == {catchall, j.new} \ {NoBox}
<1>1. /\ pc[p] = "write" /\ j.op = "catchall" /\ j \in JobType
      /\ catchall' = j.new /\ stale' = stale \cup affected
      /\ UNCHANGED <<rules, spent, script, claimed, held, dormant, crossed, cut>>
  BY DEF WriteCatchAll, TypeOK
<1>2. ~ held'[p] /\ p \notin Running
  BY <1>1, NotHeld DEF Running
<1>3. ChangeShown
  BY <1>1, CatchallChanged
<1>4. Moves(p) /\ Informed(p)'
  <2>1. CASE End(p)
    BY <1>1, <1>2, <2>1, EndMoves, EndedInformed
  <2>2. CASE /\ job' = [job EXCEPT ![p].owes = affected \ stale]
             /\ pc' = [pc EXCEPT ![p] = "aim"]
             /\ UNCHANGED <<crowded, begun>>
    <3> DEFINE owes == affected \ stale
               r == [j EXCEPT !.owes = owes]
    <3>1. job'[p] = r /\ \A q \in Requests \ {p} : job'[q] = job[q]
      BY <1>1, <2>2 DEF TypeOK
    <3>2. /\ r.op = j.op /\ r.rule = j.rule /\ r.new = j.new /\ r.target = j.target
          /\ r.owes = owes /\ r.lists = j.lists
      BY <1>1 DEF JobType
    <3> HIDE DEF r
    <3>3. pc'[p] = "aim" /\ \A q \in Requests \ {p} : pc'[q] = pc[q]
      BY <2>2 DEF TypeOK
    <3>4. Moves(p)
      BY <1>1, <2>2, <3>1, <3>2, <3>3 DEF Moves
    <3>5. /\ j.lists # rules \cap Lists => p \in crowded /\ stale = Mailboxes
          /\ p \notin crowded => j.target = catchall
      BY <1>1 DEF RebuildInv, Informed, ReadsTrue, Busy, Knows
    <3>6. ReadsTrue(p)'
      <4>1. Knows(p)' = catchall'
        BY <1>1, <3>1, <3>2, <3>3 DEF Knows
      <4>2. stale = Mailboxes => stale' = Mailboxes
        BY <1>1 DEF TypeOK
      <4> QED
        BY <1>1, <2>2, <3>1, <3>2, <3>5, <4>1, <4>2 DEF ReadsTrue
    <3>7. OwedReached(p)'
      <4> SUFFICES ASSUME p \notin crowded'
                   PROVE  job'[p].owes \subseteq Reach(job[p])'
        BY <3>3 DEF OwedReached, Busy, Rebuilding
      <4>1. Reach(job[p])' = {j.target, j.new} \ {NoBox}
        BY <1>1, <3>1, <3>2 DEF Reach
      <4>2. p \notin crowded
        BY <2>2
      <4> QED
        BY <3>1, <3>2, <3>5, <4>1, <4>2
    <3>8. HeldThere(p)' /\ DraftSound(p)' /\ DraftFollows(p)' /\ RunGoesOn(p)'
      BY <1>1, <1>2, <3>1, <3>2, <3>3 DEF HeldThere, DraftSound, DraftFollows, Calling, RunGoesOn, Running
    <3> QED
      BY <3>4, <3>6, <3>7, <3>8 DEF Informed
  <2> QED
    BY <2>1, <2>2 DEF WriteCatchAll
<1> QED
  BY <1>1, <1>2, <1>3, <1>4, QuietStepKeeps

LEMMA UndoRebuild ==
  ASSUME TypeOK, TypeOK', RebuildInv, NEW p \in Requests, Undo(p)
  PROVE  RebuildInv'
<1>1. /\ pc[p] = "undo" /\ End(p)
      /\ UNCHANGED <<spent, catchall, script, held, dormant, crossed, cut>>
  BY DEF Undo
<1>2. Moves(p) /\ Informed(p)'
  BY <1>1, NotHeld, EndMoves, EndedInformed
<1>3. CASE job[p].op = "maintain" /\ claimed' = FALSE /\ UNCHANGED <<rules, stale>>
  BY <1>1, <1>2, <1>3, NothingChanged, QuietStepKeeps
<1>4. CASE /\ job[p].op # "maintain" /\ UNCHANGED claimed
           /\ rules' = rules \ {job[p].rule}
           /\ stale' = stale \cup BearsOn(job[p].rule)
  <2>1. job[p].rule \in AllRules \cup {NoRule}
    BY DEF TypeOK, JobType
  <2>2. ChangeShown
    BY <1>1, <1>4, <2>1, RuleChanged
  <2>3. p \notin Running
    BY <1>4 DEF Running
  <2> QED
    BY <1>1, <1>2, <1>4, <2>2, <2>3, QuietStepKeeps
<1> QED
  BY <1>3, <1>4 DEF Undo

LEMMA UndoFailsRebuild ==
  ASSUME TypeOK, TypeOK', RebuildInv, NEW p \in Requests, UndoFails(p)
  PROVE  RebuildInv'
<1>1. /\ pc[p] = "undo" /\ End(p)
      /\ UNCHANGED <<rules, catchall, script, claimed, held, stale, dormant, crossed>>
      /\ cut => cut'
      /\ p \in Running => cut'
  BY DEF UndoFails, store, Running
<1>2. Moves(p) /\ Informed(p)' /\ ChangeShown
  BY <1>1, NotHeld, EndMoves, EndedInformed, NothingChanged
<1> QED
  BY <1>1, <1>2, QuietStepKeeps

\* An instance that stops between two calls leaves its script dormant.
LEMMA CrashRebuild ==
  ASSUME TypeOK, TypeOK', RebuildInv, NEW p \in Requests, Crash(p)
  PROVE  RebuildInv'
<1>1. /\ pc[p] # "idle" /\ End(p)
      /\ held' = [held EXCEPT ![p] = FALSE]
      /\ UNCHANGED <<rules, catchall, script, claimed, stale, crossed>>
      /\ cut => cut'
      /\ p \in Running => cut'
      /\ dormant' = IF pc[p] \in {"activate", "destroy"}
                      THEN {m \in dormant \cup {Box(p)} : script[m].exists} ELSE dormant
  BY DEF Crash, store, Running
<1>2. ~ held'[p] /\ \A q \in Requests \ {p} : held'[q] = held[q]
  BY <1>1 DEF TypeOK
<1>3. Moves(p) /\ Informed(p)' /\ ChangeShown
  BY <1>1, <1>2, EndMoves, EndedInformed, NothingChanged
<1> QED
  BY <1>1, <1>2, <1>3, QuietStepKeeps

-----------------------------------------------------------------------------
(* What is aimed at, and compiled.                                         *)

\* An arrangement of a finite set reaches all of it.
LEMMA ArrangedRange ==
  ASSUME NEW S, IsFiniteSet(S), NEW f \in SetToSeqs(S)
  PROVE  f \in Seq(S) /\ Range(f) = S
<1> DEFINE D == 1 .. Cardinality(S)
<1>1. Cardinality(S) \in Nat
  BY FS_CardinalityType
<1>2. f \in [D -> S] /\ \A i, j \in D : i # j => f[i] # f[j]
  BY DEF SetToSeqs
<1>3. IsFiniteSet(D) /\ Cardinality(D) = Cardinality(S)
  BY <1>1, FS_Interval
<1> HIDE DEF D
<1>4. f \in Injection(D, S)
  BY <1>2 DEF Injection, IsInjective
<1>5. f \in Surjection(D, S)
  BY <1>3, <1>4, FS_Injection
<1>6. Range(f) = S
  BY <1>2, <1>5 DEF Range, Surjection
<1> QED
  BY <1>1, <1>2, <1>6 DEF D

LEMMA RangeHeadTail ==
  ASSUME NEW S, NEW s \in Seq(S), s # <<>>
  PROVE  Range(s) = {Head(s)} \cup Range(Tail(s))
<1>1. /\ Len(s) \in Nat \ {0} /\ Tail(s) \in Seq(S) /\ Len(Tail(s)) = Len(s) - 1
      /\ \A i \in 1 .. Len(Tail(s)) : Tail(s)[i] = s[i + 1]
      /\ Head(s) = s[1]
  BY EmptySeq, HeadTailProperties
<1>2. Range(s) = {s[i] : i \in 1 .. Len(s)}
  BY RangeEquality
<1>3. Range(Tail(s)) = {Tail(s)[i] : i \in 1 .. Len(Tail(s))}
  BY <1>1, RangeEquality
<1>4. ASSUME NEW x \in Range(s) PROVE x \in {Head(s)} \cup Range(Tail(s))
  <2>1. PICK i \in 1 .. Len(s) : x = s[i]
    BY <1>2, <1>4
  <2>2. CASE i = 1
    BY <1>1, <2>1, <2>2
  <2>3. CASE i # 1
    <3>1. i - 1 \in 1 .. Len(Tail(s))
      BY <1>1, <2>1, <2>3
    <3>2. Tail(s)[i - 1] = s[i]
      BY <1>1, <2>1, <3>1
    <3> QED
      BY <1>3, <2>1, <3>1, <3>2
  <2> QED
    BY <2>2, <2>3
<1>5. ASSUME NEW x \in {Head(s)} \cup Range(Tail(s)) PROVE x \in Range(s)
  <2>1. CASE x = Head(s)
    BY <1>1, <1>2, <2>1
  <2>2. CASE x \in Range(Tail(s))
    <3>1. PICK i \in 1 .. Len(Tail(s)) : x = Tail(s)[i]
      BY <1>3, <2>2
    <3>2. i + 1 \in 1 .. Len(s) /\ x = s[i + 1]
      BY <1>1, <3>1
    <3> QED
      BY <1>2, <3>2
  <2> QED
    BY <1>5, <2>1, <2>2
<1> QED
  BY <1>4, <1>5

LEMMA RangeOfFew ==
  ASSUME NEW S
  PROVE  /\ Range(<<>>) = {}
         /\ \A x \in S : <<x>> \in Seq(S) /\ Range(<<x>>) = {x}
<1>1. Range(<<>>) = {}
  BY DEF Range
<1>2. ASSUME NEW x \in S PROVE <<x>> \in Seq(S) /\ Range(<<x>>) = {x}
  <2>1. <<x>> \in Seq(S) /\ <<x>> # <<>> /\ Head(<<x>>) = x /\ Tail(<<x>>) = <<>>
    OBVIOUS
  <2> QED
    BY <1>1, <2>1, RangeHeadTail
<1> QED
  BY <1>1, <1>2

\* The list of a request is what its change reaches.
LEMMA AimedRange ==
  ASSUME TypeOK, NEW j \in JobType, NEW all \in SetToSeqs(Mailboxes)
  PROVE  Aimed(j, all) \in Seq(Mailboxes) /\ Range(Aimed(j, all)) = Reach(j)
<1> DEFINE some(m) == IF m = NoBox THEN <<>> ELSE <<m>>
<1>1. \A m \in Mailboxes \cup {NoBox} : some(m) \in Seq(Mailboxes) /\ Range(some(m)) = {m} \ {NoBox}
  <2> TAKE m \in Mailboxes \cup {NoBox}
  <2>1. CASE m = NoBox
    BY <2>1, RangeOfFew, RulesAssumption
  <2>2. CASE m # NoBox
    <3>1. m \in Mailboxes /\ some(m) = <<m>>
      BY <2>2
    <3>2. Range(<<m>>) = {m} /\ <<m>> \in Seq(Mailboxes)
      BY <3>1, RangeOfFew
    <3> QED
      BY <2>2, <3>1, <3>2
  <2> QED
    BY <2>1, <2>2
<1>2. /\ j.target \in Mailboxes \cup {NoBox} /\ j.new \in Mailboxes \cup {NoBox}
      /\ catchall \in Mailboxes \cup {NoBox}
  BY DEF JobType, TypeOK
<1>3. all \in Seq(Mailboxes) /\ Range(all) = Mailboxes
  BY RulesAssumption, ArrangedRange
<1>4. Aimed(j, all) =
        IF j.op = "catchall"
          THEN IF j.target = j.new THEN some(j.new) ELSE some(j.target) \o some(j.new)
        ELSE IF j.rule \in Rewrites THEN some(IF j.op = "add" THEN j.target ELSE catchall)
        ELSE IF j.rule \in Mailboxes THEN <<j.rule>>
        ELSE all
  BY DEF Aimed, some
<1> HIDE DEF some
<1>5. CASE j.op = "catchall"
  <2>1. CASE j.target = j.new
    BY <1>1, <1>2, <1>4, <1>5, <2>1 DEF Reach
  <2>2. CASE j.target # j.new
    <3>1. Aimed(j, all) = some(j.target) \o some(j.new)
      BY <1>4, <1>5, <2>2
    <3>2. /\ some(j.target) \in Seq(Mailboxes) /\ Range(some(j.target)) = {j.target} \ {NoBox}
          /\ some(j.new) \in Seq(Mailboxes) /\ Range(some(j.new)) = {j.new} \ {NoBox}
      BY <1>1, <1>2
    <3>3. Range(some(j.target) \o some(j.new)) = Range(some(j.target)) \cup Range(some(j.new))
      BY <3>2, RangeConcatenation
    <3>4. some(j.target) \o some(j.new) \in Seq(Mailboxes)
      BY <3>2
    <3> QED
      BY <1>5, <3>1, <3>2, <3>3, <3>4 DEF Reach
  <2> QED
    BY <2>1, <2>2
<1>6. CASE j.op # "catchall" /\ j.rule \in Rewrites
  BY <1>1, <1>2, <1>4, <1>6 DEF Reach
<1>7. CASE j.op # "catchall" /\ j.rule \notin Rewrites /\ j.rule \in Mailboxes
  BY <1>4, <1>7, RangeOfFew DEF Reach
<1>8. CASE j.op # "catchall" /\ j.rule \notin Rewrites /\ j.rule \notin Mailboxes
  BY <1>3, <1>4, <1>8 DEF Reach
<1> QED
  BY <1>5, <1>6, <1>7, <1>8

LEMMA AimRebuild ==
  ASSUME TypeOK, TypeOK', RebuildInv, NEW p \in Requests, Aim(p)
  PROVE  RebuildInv'
<1> DEFINE j == job[p]
<1>1. /\ pc[p] = "aim" /\ j \in JobType
      /\ UNCHANGED <<rules, spent, catchall, script, claimed, held, dormant, crossed, cut>>
  BY DEF Aim, TypeOK, store
<1>2. PICK all \in SetToSeqs(Mailboxes) :
        LET todo == Aimed(job[p], all) IN
        IF todo = <<>> THEN Settled(p, {})
        ELSE /\ job' = [job EXCEPT ![p].todo = todo,
                                   ![p].target = CASE job[p].op = "catchall" -> job[p].new
                                                   [] AddsRewrite(job[p]) -> job[p].target
                                                   [] OTHER -> catchall]
             /\ pc' = [pc EXCEPT ![p] = "compile"]
             /\ UNCHANGED <<crowded, begun, stale>>
  BY DEF Aim
<1> DEFINE todo == Aimed(j, all)
<1>3. Range(todo) = Reach(j)
  BY <1>1, AimedRange
<1>4. ~ held'[p] /\ ChangeShown /\ Informed(p)
  BY <1>1, NotHeld, NothingChanged DEF RebuildInv
<1>5. /\ p \notin crowded => j.owes \subseteq Reach(j)
      /\ p \in Running => Reach(j) = Mailboxes
  <2>1. p \in Running => j.op = "maintain" /\ j.rule = NoRule
    BY <1>4 DEF Informed, RunGoesOn, Running
  <2> QED
    BY <1>1, <1>4, <2>1, RulesAssumption DEF Informed, OwedReached, Busy, Reach
<1>6. CASE todo = <<>>
  <2>1. Settled(p, {})
    BY <1>2, <1>6
  <2>2. Reach(j) = {}
    BY <1>3, <1>6, RangeOfFew
  <2>3. stale' = stale /\ End(p)
    BY <1>5, <2>1, <2>2 DEF Settled
  <2>4. Moves(p) /\ Informed(p)' /\ (p \in Running => Mailboxes = {})
    BY <1>1, <1>4, <1>5, <2>2, <2>3, EndMoves, EndedInformed
  <2> QED
    BY <1>1, <1>4, <2>3, <2>4, QuietStepKeeps
<1>7. CASE todo # <<>>
  <2> DEFINE target == CASE j.op = "catchall" -> j.new
                         [] AddsRewrite(j) -> j.target
                         [] OTHER -> catchall
             r == [j EXCEPT !.todo = todo, !.target = target]
  <2>1. /\ job' = [job EXCEPT ![p].todo = todo, ![p].target = target]
        /\ pc' = [pc EXCEPT ![p] = "compile"]
        /\ UNCHANGED <<crowded, begun, stale>>
    BY <1>2, <1>7
  <2> HIDE DEF target, todo
  <2>2. job'[p] = r /\ \A q \in Requests \ {p} : job'[q] = job[q]
    BY <1>1, <2>1 DEF TypeOK
  <2>3. /\ r.op = j.op /\ r.rule = j.rule /\ r.lists = j.lists /\ r.owes = j.owes
        /\ r.todo = todo /\ r.target = target
    BY <1>1 DEF JobType
  <2> HIDE DEF r
  <2>4. pc'[p] = "compile" /\ \A q \in Requests \ {p} : pc'[q] = pc[q]
    BY <2>1 DEF TypeOK
  <2>5. Moves(p)
    BY <1>1, <2>1, <2>2, <2>3, <2>4 DEF Moves
  <2>6. ReadsTrue(p)'
    <3>1. Knows(p)' = target
      BY <2>2, <2>3, <2>4 DEF Knows
    <3>2. target = Knows(p) \/ target = catchall
      BY <1>1 DEF Knows, target, AddsRewrite
    <3>3. /\ j.lists # rules \cap Lists => p \in crowded /\ stale = Mailboxes
          /\ Knows(p) # catchall => p \in crowded /\ {Knows(p), catchall} \ {NoBox} \subseteq stale
      BY <1>1, <1>4 DEF Informed, ReadsTrue, Busy
    <3> QED
      BY <1>1, <2>1, <2>2, <2>3, <3>1, <3>2, <3>3 DEF ReadsTrue
  <2>7. OwedReached(p)'
    BY <1>3, <1>5, <2>1, <2>2, <2>3, <2>4 DEF OwedReached, Busy, todo
  <2>8. RunGoesOn(p)'
    <3>1. p \in Running' => p \in Running
      BY <1>1, <2>2, <2>3 DEF Running, Busy
    <3>2. p \in Running => Range(job'[p].todo) = Mailboxes
      BY <1>3, <1>5, <2>2, <2>3 DEF todo
    <3>3. p \in Running => j.rule = NoRule
      BY <1>4 DEF Informed, RunGoesOn
    <3> QED
      BY <2>2, <2>3, <2>4, <3>1, <3>2, <3>3 DEF RunGoesOn
  <2>9. HeldThere(p)' /\ DraftSound(p)' /\ DraftFollows(p)'
    BY <1>4, <2>4 DEF HeldThere, DraftSound, DraftFollows, Calling
  <2>10. Informed(p)'
    BY <2>6, <2>7, <2>8, <2>9 DEF Informed
  <2> QED
    BY <1>1, <1>4, <2>1, <2>4, <2>5, <2>10, QuietStepKeeps
<1> QED
  BY <1>6, <1>7

\* What is compiled are the rules of the mailbox, unless others have changed them.
LEMMA CompileRebuild ==
  ASSUME TypeOK, TypeOK', RebuildInv, NEW p \in Requests, Compile(p)
  PROVE  RebuildInv'
<1> DEFINE j == job[p]
           draft == Compiled(Box(p), j.lists, j.target)
           r == [j EXCEPT !.draft = draft]
<1>1. /\ pc[p] = "compile" /\ j \in JobType
      /\ job' = [job EXCEPT ![p].draft = draft] /\ pc' = [pc EXCEPT ![p] = "deploy"]
      /\ UNCHANGED <<rules, catchall, script, claimed, held, crowded, stale, dormant, cut>>
  BY DEF Compile, TypeOK, store
<1>2. ~ held'[p] /\ ChangeShown /\ Informed(p)
  BY <1>1, NotHeld, NothingChanged DEF RebuildInv
<1>3. ASSUME p \notin crowded \/ Box(p) \notin stale
      PROVE  draft = RulesOf(Box(p))
  <2>1. Box(p) \in Mailboxes
    BY <1>1, BoxTypes DEF Rebuilding
  <2>2. Knows(p) = j.target
    BY <1>1 DEF Knows
  <2>3. /\ j.lists # rules \cap Lists => p \in crowded /\ stale = Mailboxes
        /\ j.target # catchall => p \in crowded /\ {j.target, catchall} \ {NoBox} \subseteq stale
    BY <1>1, <1>2, <2>2 DEF Informed, ReadsTrue, Busy
  <2>4. j.lists = rules \cap Lists
    BY <1>3, <2>1, <2>3
  <2>5. Box(p) = j.target <=> Box(p) = catchall
    BY <1>3, <2>1, <2>3, RulesAssumption
  <2> QED
    BY <2>4, <2>5 DEF RulesOf, Compiled
<1> HIDE DEF draft
<1>4. job'[p] = r /\ \A q \in Requests \ {p} : job'[q] = job[q]
  BY <1>1 DEF TypeOK
<1>5. /\ r.op = j.op /\ r.rule = j.rule /\ r.lists = j.lists /\ r.owes = j.owes
      /\ r.todo = j.todo /\ r.target = j.target /\ r.draft = draft
  BY <1>1 DEF JobType
<1> HIDE DEF r
<1>6. pc'[p] = "deploy" /\ \A q \in Requests \ {p} : pc'[q] = pc[q]
  BY <1>1 DEF TypeOK
<1>7. Moves(p)
  BY <1>1, <1>4, <1>5, <1>6 DEF Moves
<1>8. ReadsTrue(p)'
  <2>1. Knows(p)' = Knows(p)
    BY <1>1, <1>4, <1>5, <1>6 DEF Knows
  <2> QED
    BY <1>1, <1>2, <1>4, <1>5, <2>1 DEF Informed, ReadsTrue, Busy
<1>9. DraftFollows(p)'
  <2> SUFFICES ASSUME p \notin crowded \/ Box(p) \notin stale
               PROVE  job'[p].draft = RulesOf(Box(p))
    BY <1>1, <1>4, <1>5 DEF DraftFollows, RulesOf, Compiled, Box
  <2> QED
    BY <1>3, <1>4, <1>5
<1>10. OwedReached(p)' /\ RunGoesOn(p)'
  BY <1>1, <1>2, <1>4, <1>5, <1>6 DEF Informed, OwedReached, RunGoesOn, Running, Busy, Rebuilding
<1>11. HeldThere(p)' /\ DraftSound(p)'
  BY <1>2, <1>6 DEF HeldThere, DraftSound
<1>12. Informed(p)'
  BY <1>8, <1>9, <1>10, <1>11 DEF Informed
<1> QED
  BY <1>1, <1>2, <1>6, <1>7, <1>12, QuietStepKeeps

-----------------------------------------------------------------------------
(* The calls.                                                              *)

\* What a script is after a call: sound, not older than before; if the mailbox is in
\* line the call changes nothing it shows; if the call is the last about it, and its
\* request is alone, it brings it in line.
LEMMA AfterInLine ==
  ASSUME TypeOK, RebuildInv, NEW p \in Requests, Calling(p), Known(p),
         NEW b \in Mailboxes, b = Box(p), NEW a, a = After(p)
  PROVE  /\ a.exists <=> a.holds # {}
         /\ a.active => a.exists
         /\ a.old => script[b].old
         /\ Then(p) = "done" => ~ a.old
         /\ Then(p) # "done" => pc[p] = "deploy" /\ b \in stale /\ a.exists
         /\ Then(p) = "activate" => job[p].draft # {} /\ a.holds = job[p].draft /\ ~ a.old
         /\ Then(p) = "destroy" => job[p].draft = {}
         /\ b \notin stale \/ (Then(p) = "done" /\ p \notin crowded) =>
              /\ a.holds = RulesOf(b)
              /\ b \in dormant \/ (IF a.active THEN a.holds ELSE {}) = RulesOf(b)
         /\ Then(p) = "done" /\ a.exists /\ ~ a.active => script[b].exists /\ ~ script[b].active
<1> DEFINE s == script[b]
           draft == job[p].draft
<1>1. /\ s.exists <=> s.holds # {}
      /\ s.active => s.exists
      /\ s.exists \in BOOLEAN /\ s.active \in BOOLEAN /\ s.old \in BOOLEAN
  BY DEF RebuildInv, ScriptsSound, TypeOK, ScriptType
<1>2. s \in ScriptType
  BY DEF TypeOK
<1>3. /\ pc[p] = "activate" => draft # {} /\ ~ s.old /\ s.exists
      /\ pc[p] = "activate" /\ p \notin crowded => s.holds = draft
      /\ pc[p] = "destroy" => draft = {}
  BY DEF RebuildInv, Informed, DraftSound, HeldThere, Known
<1>4. p \notin crowded \/ b \notin stale => draft = RulesOf(b)
  BY DEF RebuildInv, Informed, DraftFollows
<1>5. b \notin stale => /\ s.holds = RulesOf(b)
                        /\ b \in dormant \/ (IF s.active THEN s.holds ELSE {}) = RulesOf(b)
  BY DEF RebuildInv, RebuiltFollowsRules, InForce
<1>6. pc[p] = "deploy" /\ p \notin crowded /\ s.exists /\ ~ s.active => b \in dormant
  <2> SUFFICES ASSUME pc[p] = "deploy", p \notin crowded, s.exists, ~ s.active, b \notin dormant
               PROVE  FALSE
    OBVIOUS
  <2>1. PICK q \in Requests : pc[q] \in {"activate", "destroy"}
    BY DEF RebuildInv, DormantKnown, Waiting
  <2> QED
    BY <2>1 DEF RebuildInv, Alone, Busy
<1>7. CASE pc[p] = "activate"
  <2>1. a = [s EXCEPT !.active = TRUE] /\ Then(p) = "done"
    BY <1>7 DEF After, Then
  <2>2. a.active = TRUE /\ a.exists = s.exists /\ a.holds = s.holds /\ a.old = s.old
    BY <1>2, <2>1 DEF ScriptType
  <2> HIDE DEF s, draft
  <2> QED
    BY <1>1, <1>3, <1>4, <1>5, <1>7, <2>1, <2>2 DEF s, draft
<1>8. CASE pc[p] = "destroy"
  <2>1. a = [exists |-> FALSE, active |-> FALSE, holds |-> {}, old |-> FALSE] /\ Then(p) = "done"
    BY <1>8 DEF After, Then, NoScript
  <2>2. a.active = FALSE /\ a.exists = FALSE /\ a.holds = {} /\ a.old = FALSE
    BY <2>1
  <2> QED
    BY <1>3, <1>4, <1>8, <2>1, <2>2
<1>9. CASE pc[p] = "deploy" /\ draft # {}
  <2>1. a = [exists |-> TRUE, active |-> s.active, holds |-> draft, old |-> FALSE]
    BY <1>9 DEF After
  <2>2. a.exists = TRUE /\ a.active = s.active /\ a.holds = draft /\ a.old = FALSE
    BY <2>1
  <2>3. Then(p) = IF s.exists THEN "done" ELSE "activate"
    BY <1>9 DEF Then
  <2> HIDE DEF s, draft
  <2>4. CASE s.exists
    BY <1>1, <1>4, <1>5, <1>6, <1>9, <2>2, <2>3, <2>4 DEF s, draft
  <2>5. CASE ~ s.exists
    BY <1>1, <1>4, <1>5, <1>9, <2>2, <2>3, <2>5 DEF s, draft
  <2> QED
    BY <2>4, <2>5
<1>10. CASE pc[p] = "deploy" /\ draft = {} /\ s.active
  <2>1. a = [s EXCEPT !.active = FALSE] /\ Then(p) = "destroy"
    BY <1>10 DEF After, Then
  <2>2. a.active = FALSE /\ a.exists = s.exists /\ a.holds = s.holds /\ a.old = s.old
    BY <1>2, <2>1 DEF ScriptType
  <2> HIDE DEF s, draft
  <2> QED
    BY <1>1, <1>4, <1>5, <1>10, <2>1, <2>2 DEF s, draft
<1>11. CASE pc[p] = "deploy" /\ draft = {} /\ ~ s.active
  <2>1. a = [exists |-> FALSE, active |-> FALSE, holds |-> {}, old |-> FALSE] /\ Then(p) = "done"
    BY <1>11 DEF After, Then, NoScript
  <2>2. a.active = FALSE /\ a.exists = FALSE /\ a.holds = {} /\ a.old = FALSE
    BY <2>1
  <2> QED
    BY <1>4, <1>11, <2>1, <2>2
<1> QED
  BY <1>7, <1>8, <1>9, <1>10, <1>11 DEF Calling

\* The scripts after a call, answered or not.
LEMMA ScriptsAfterCall ==
  ASSUME TypeOK, TypeOK', RebuildInv, NEW p \in Requests, Calling(p),
         NEW b \in Mailboxes, b = Box(p),
         \A q \in Requests \ {p} : pc'[q] = pc[q] /\ job'[q] = job[q],
         script' = script \/ (Known(p) /\ script' = [script EXCEPT ![b] = After(p)]),
         rules' = rules, catchall' = catchall,
         \A m \in dormant : m \in dormant' \/ ~ script'[m].exists,
         \/ stale' = stale
         \/ /\ stale' = stale \ {b} /\ p \notin crowded /\ Then(p) = "done"
            /\ Known(p) /\ script'[b] = After(p),
         script'[b].exists /\ ~ script'[b].active =>
           \/ b \in dormant'
           \/ pc'[p] \in {"activate", "destroy"} /\ Box(p)' = b
           \/ Then(p) = "done" /\ Known(p) /\ script'[b] = After(p) /\ pc[p] = "deploy"
  PROVE  ScriptsSound' /\ DormantKnown' /\ RebuiltFollowsRules'
<1>1. ScriptsSound /\ DormantKnown /\ RebuiltFollowsRules
  BY DEF RebuildInv
<1>2. \A m \in Mailboxes \ {b} : script'[m] = script[m]
  BY DEF TypeOK
<1>3. script'[b] = script[b] \/ (Known(p) /\ script'[b] = After(p))
  BY DEF TypeOK
<1> DEFINE a == After(p)
<1>4. Known(p) =>
        /\ a.exists <=> a.holds # {}
        /\ a.active => a.exists
        /\ b \notin stale \/ (Then(p) = "done" /\ p \notin crowded) =>
             /\ a.holds = RulesOf(b)
             /\ b \in dormant \/ (IF a.active THEN a.holds ELSE {}) = RulesOf(b)
        /\ Then(p) = "done" /\ a.exists /\ ~ a.active => script[b].exists /\ ~ script[b].active
  BY AfterInLine
<1> HIDE DEF a
<1>5. /\ script'[b].exists <=> script'[b].holds # {}
      /\ script'[b].active => script'[b].exists
  BY <1>1, <1>3, <1>4 DEF ScriptsSound, a
<1>6. ScriptsSound'
  BY <1>1, <1>2, <1>5 DEF ScriptsSound
<1>7. DormantKnown'
  <2> SUFFICES ASSUME NEW m \in Mailboxes, script'[m].exists, ~ script'[m].active, m \notin dormant'
               PROVE  \E q \in Requests : pc'[q] \in {"activate", "destroy"} /\ Head(job'[q].todo) = m
    BY DEF DormantKnown, Waiting, Box
  <2>1. m \notin dormant
    OBVIOUS
  <2>2. CASE m # b
    <3>1. PICK q \in Requests : pc[q] \in {"activate", "destroy"} /\ Head(job[q].todo) = m
      BY <1>1, <1>2, <2>1, <2>2 DEF DormantKnown, Waiting, Box
    <3>2. q # p
      BY <2>2, <3>1 DEF Box
    <3> QED
      BY <3>1, <3>2
  <2>3. CASE m = b /\ pc'[p] \in {"activate", "destroy"} /\ Box(p)' = b
    BY <2>3 DEF Box
  <2>4. CASE m = b /\ Then(p) = "done" /\ Known(p) /\ script'[b] = After(p) /\ pc[p] = "deploy"
    <3>1. script[b].exists /\ ~ script[b].active
      BY <1>4, <2>4 DEF a
    <3>2. PICK q \in Requests : pc[q] \in {"activate", "destroy"} /\ Head(job[q].todo) = b
      BY <1>1, <2>1, <2>4, <3>1 DEF DormantKnown, Waiting, Box
    <3>3. q # p
      BY <2>4, <3>2
    <3> QED
      BY <2>4, <3>2, <3>3
  <2> QED
    BY <2>2, <2>3, <2>4
<1>8. RebuiltFollowsRules'
  <2> SUFFICES ASSUME NEW m \in Mailboxes, m \notin stale'
               PROVE  /\ script'[m].holds = RulesOf(m)
                      /\ m \in dormant' \/ (IF script'[m].active THEN script'[m].holds ELSE {}) = RulesOf(m)
    BY DEF RebuiltFollowsRules, InForce, RulesOf, Compiled
  <2>1. /\ script'[m].holds = RulesOf(m)
        /\ m \in dormant \/ (IF script'[m].active THEN script'[m].holds ELSE {}) = RulesOf(m)
    <3>1. CASE m \notin stale /\ script'[m] = script[m]
      BY <1>1, <3>1 DEF RebuiltFollowsRules, InForce
    <3>2. CASE m = b /\ Known(p) /\ script'[b] = After(p)
      BY <1>4, <3>2 DEF a
    <3> QED
      BY <1>2, <1>3, <3>1, <3>2
  <2>2. ~ script'[m].exists => (IF script'[m].active THEN script'[m].holds ELSE {}) = script'[m].holds
    BY <1>6 DEF ScriptsSound
  <2> QED
    BY <2>1, <2>2
<1> QED
  BY <1>6, <1>7, <1>8

\* What a call leaves to others, and takes from the earlier release.
LEMMA CallOthers ==
  ASSUME TypeOK, NEW p \in Requests, Calling(p), RebuildInv, NEW knows, held' = Holders(p, knows),
         script' = script \/ (Known(p) /\ script' = [script EXCEPT ![Box(p)] = After(p)])
  PROVE  /\ \A q \in Requests \ {p} : held'[q] => held[q] /\ script'[Box(q)].exists
         /\ held'[p] = knows
         /\ \A m \in Mailboxes : script'[m].old => script[m].old
         /\ Box(p) \in Mailboxes
<1>1. Box(p) \in Mailboxes
  BY BoxTypes DEF Calling, Rebuilding
<1>2. Known(p) => (After(p).old => script[Box(p)].old)
  BY <1>1, AfterInLine
<1>3. \A m \in Mailboxes : script'[m].old => script[m].old
  BY <1>1, <1>2 DEF TypeOK
<1> QED
  BY <1>1, <1>3 DEF Holders

LEMMA CallFailsRebuild ==
  ASSUME TypeOK, TypeOK', RebuildInv, NEW p \in Requests, CallFails(p)
  PROVE  RebuildInv'
<1>1. /\ Calling(p)
      /\ script' = script \/ (Known(p) /\ script' = [script EXCEPT ![Box(p)] = After(p)])
      /\ held' = Holders(p, FALSE)
      /\ dormant' = {m \in dormant \cup {Box(p)} : script'[m].exists}
      /\ GiveUp(p)
      /\ UNCHANGED <<rules, spent, catchall, claimed, stale, crossed, cut>>
  BY DEF CallFails
<1>2. /\ \A q \in Requests \ {p} : held'[q] => held[q] /\ script'[Box(q)].exists
      /\ ~ held'[p] /\ Box(p) \in Mailboxes
      /\ \A m \in Mailboxes : script'[m].old => script[m].old
  BY <1>1, CallOthers
<1>3. Moves(p) /\ Informed(p)' /\ (pc'[p] = "idle" => p \notin Running)
  BY <1>1, <1>2, GiveUpInformed DEF Calling
<1>4. ScriptsSound' /\ DormantKnown' /\ RebuiltFollowsRules'
  BY <1>1, <1>2, <1>3, ScriptsAfterCall DEF Moves
<1>5. ChangeShown
  BY <1>1, NothingChanged
<1> QED
  BY <1>1, <1>2, <1>3, <1>4, <1>5, StepKeeps

\* The last mailbox of a list is all that is left to reach.
LEMMA LastOnList ==
  ASSUME NEW S, NEW s \in Seq(S), s # <<>>, Len(s) = 1
  PROVE  Range(s) = {Head(s)}
<1>1. Tail(s) \in Seq(S) /\ Len(Tail(s)) = 0
  BY HeadTailProperties
<1>2. Tail(s) = <<>>
  BY <1>1, EmptySeq
<1> QED
  BY <1>2, RangeHeadTail, RangeOfFew

LEMMA CallRebuild ==
  ASSUME TypeOK, TypeOK', RebuildInv, NEW p \in Requests, Call(p)
  PROVE  RebuildInv'
<1> DEFINE j == job[p]
<1>1. /\ Calling(p) /\ Known(p) /\ pc[p] \in Rebuilding /\ pc[p] # "idle" /\ pc[p] # "aim"
      /\ script' = [script EXCEPT ![Box(p)] = After(p)]
      /\ held' = Holders(p, Then(p) # "done")
      /\ dormant' = {m \in dormant : script'[m].exists}
      /\ UNCHANGED <<rules, spent, catchall, claimed, crossed, cut>>
      /\ j \in JobType
  BY DEF Call, Calling, Rebuilding, TypeOK
<1>2. /\ \A q \in Requests \ {p} : held'[q] => held[q] /\ script'[Box(q)].exists
      /\ held'[p] = (Then(p) # "done") /\ Box(p) \in Mailboxes
      /\ \A m \in Mailboxes : script'[m].old => script[m].old
  BY <1>1, CallOthers
<1>3. PICK b \in Mailboxes : b = Box(p)
  BY <1>2
<1>4. /\ script'[b] = After(p)
      /\ Then(p) = "done" => ~ script'[b].old
      /\ Then(p) # "done" => pc[p] = "deploy" /\ b \in stale /\ script'[b].exists
      /\ Then(p) = "activate" =>
           job[p].draft # {} /\ script'[b].holds = job[p].draft /\ ~ script'[b].old
      /\ Then(p) = "destroy" => job[p].draft = {}
      /\ Then(p) = "done" /\ script'[b].exists /\ ~ script'[b].active =>
           script[b].exists /\ ~ script[b].active
  <2>1. script'[b] = After(p)
    BY <1>1, <1>3 DEF TypeOK
  <2> QED
    BY <1>1, <1>3, <2>1, AfterInLine
<1>5. ChangeShown /\ Informed(p)
  BY <1>1, NothingChanged DEF RebuildInv
<1>6. j.todo \in Seq(Mailboxes) /\ j.todo # <<>> /\ Head(j.todo) = b
  BY <1>1, <1>3 DEF TypeOK, JobType, Box
<1>7. ASSUME Then(p) = "done", script'[b].exists, ~ script'[b].active
      PROVE  pc[p] = "deploy"
  <2>1. CASE pc[p] = "activate"
    <3>1. After(p) = [script[b] EXCEPT !.active = TRUE] /\ script[b] \in ScriptType
      BY <1>3, <2>1 DEF After, TypeOK
    <3>2. script'[b].active = TRUE
      BY <1>4, <3>1 DEF ScriptType
    <3> QED
      BY <1>7, <3>2
  <2>2. CASE pc[p] = "destroy"
    <3>1. After(p) = [exists |-> FALSE, active |-> FALSE, holds |-> {}, old |-> FALSE]
      BY <2>2 DEF After, NoScript
    <3>2. script'[b].exists = FALSE
      BY <1>4, <3>1
    <3> QED
      BY <1>7, <3>2
  <2> QED
    BY <1>1, <2>1, <2>2 DEF Calling
<1>8. /\ p \notin crowded => j.owes \cap stale \subseteq Range(j.todo)
      /\ p \in Running => \A m \in (rules \cap Mailboxes) \ stale : script[m].old => m \in Range(j.todo)
  BY <1>1, <1>5 DEF Informed, OwedReached, RunGoesOn, Busy
<1>9. CASE Then(p) # "done"
  <2>1. /\ stale' = stale /\ job' = job /\ crowded' = crowded
        /\ pc'[p] = Then(p) /\ \A q \in Requests \ {p} : pc'[q] = pc[q]
    BY <1>9 DEF Call, Goto, TypeOK
  <2>2. Then(p) \in {"activate", "destroy"}
    BY <1>9 DEF Then
  <2>3. Moves(p)
    BY <1>1, <2>1, <2>2 DEF Moves
  <2>4. Box(p)' = b
    BY <1>3, <2>1 DEF Box
  <2>5. ScriptsSound' /\ DormantKnown' /\ RebuiltFollowsRules'
    BY <1>1, <1>3, <1>4, <2>1, <2>2, <2>4, ScriptsAfterCall
  <2>6. HeldThere(p)' /\ DraftSound(p)'
    BY <1>3, <1>4, <2>1, <2>2, <2>4 DEF HeldThere, DraftSound
  <2>7. ReadsTrue(p)'
    <3>1. Knows(p)' = Knows(p)
      BY <1>1, <2>1, <2>2 DEF Knows
    <3> QED
      BY <1>1, <1>5, <2>1, <3>1 DEF Informed, ReadsTrue, Busy
  <2>8. DraftFollows(p)'
    <3> SUFFICES ASSUME p \notin crowded \/ b \notin stale
                 PROVE  job[p].draft = RulesOf(b)
      BY <1>1, <1>3, <2>1, <2>4 DEF DraftFollows, RulesOf, Compiled, Box
    <3> QED
      BY <1>1, <1>3, <1>5 DEF Informed, DraftFollows
  <2>9. OwedReached(p)' /\ RunGoesOn(p)'
    BY <1>1, <1>2, <1>5, <2>1, <2>2 DEF Informed, OwedReached, RunGoesOn, Running, Busy, Rebuilding
  <2>10. Informed(p)'
    BY <2>6, <2>7, <2>8, <2>9 DEF Informed
  <2> QED
    BY <1>1, <1>2, <1>5, <2>1, <2>2, <2>3, <2>5, <2>10, StepKeeps
<1>10. CASE Then(p) = "done" /\ Len(j.todo) = 1
  <2>1. Settled(p, {b})
    BY <1>3, <1>10 DEF Call
  <2>2. Range(j.todo) = {b}
    BY <1>6, <1>10, LastOnList
  <2>3. stale' = (IF p \in crowded THEN stale ELSE stale \ {b}) /\ End(p)
    BY <1>8, <2>1, <2>2 DEF Settled
  <2>4. Moves(p) /\ Informed(p)' /\ pc'[p] = "idle"
    BY <1>1, <1>2, <1>10, <2>3, EndMoves, EndedInformed
  <2>5. ScriptsSound' /\ DormantKnown' /\ RebuiltFollowsRules'
    BY <1>1, <1>3, <1>4, <1>7, <1>10, <2>3, <2>4, ScriptsAfterCall DEF Moves
  <2>6. p \in Running => \A m \in Mailboxes : m \in rules' /\ m \notin stale' => ~ script'[m].old
    BY <1>1, <1>2, <1>4, <1>8, <1>10, <2>2, <2>3
  <2> QED
    BY <1>1, <1>2, <1>4, <1>5, <1>10, <2>3, <2>4, <2>5, <2>6, StepKeeps
<1>11. CASE Then(p) = "done" /\ Len(j.todo) # 1
  <2> DEFINE r == [j EXCEPT !.todo = Tail(@), !.draft = {}]
  <2>1. /\ stale' = (IF p \in crowded THEN stale ELSE stale \ {b})
        /\ job' = [job EXCEPT ![p].todo = Tail(@), ![p].draft = {}]
        /\ pc' = [pc EXCEPT ![p] = "compile"]
        /\ crowded' = crowded
    BY <1>3, <1>11 DEF Call
  <2>2. job'[p] = r /\ \A q \in Requests \ {p} : job'[q] = job[q]
    BY <1>1, <2>1 DEF TypeOK
  <2>3. /\ r.op = j.op /\ r.rule = j.rule /\ r.lists = j.lists /\ r.owes = j.owes
        /\ r.new = j.new /\ r.target = j.target /\ r.todo = Tail(j.todo)
    BY <1>1 DEF JobType
  <2> HIDE DEF r
  <2>4. pc'[p] = "compile" /\ \A q \in Requests \ {p} : pc'[q] = pc[q]
    BY <2>1 DEF TypeOK
  <2>5. Moves(p)
    BY <1>1, <2>1, <2>2, <2>3, <2>4 DEF Moves
  <2>6. Range(j.todo) = {b} \cup Range(Tail(j.todo))
    BY <1>6, RangeHeadTail
  <2>7. ScriptsSound' /\ DormantKnown' /\ RebuiltFollowsRules'
    BY <1>1, <1>3, <1>4, <1>7, <1>11, <2>1, <2>2, <2>4, ScriptsAfterCall
  <2>8. ReadsTrue(p)'
    <3>1. Knows(p)' = Knows(p)
      BY <1>1, <2>2, <2>3, <2>4 DEF Knows
    <3>2. /\ j.lists # rules \cap Lists => p \in crowded /\ stale = Mailboxes
          /\ Knows(p) # catchall => p \in crowded /\ {Knows(p), catchall} \ {NoBox} \subseteq stale
      BY <1>1, <1>5 DEF Informed, ReadsTrue, Busy
    <3> QED
      BY <1>1, <2>1, <2>2, <2>3, <3>1, <3>2 DEF ReadsTrue
  <2>9. OwedReached(p)'
    BY <1>8, <2>1, <2>2, <2>3, <2>4, <2>6 DEF OwedReached, Busy
  <2>10. RunGoesOn(p)'
    <3>1. p \in Running' => p \in Running
      BY <1>1, <2>2, <2>3 DEF Running, Busy
    <3>2. ASSUME p \in Running, NEW m \in (rules' \cap Mailboxes) \ stale', script'[m].old
          PROVE  m \in Range(job'[p].todo)
      <4>1. m # b /\ m \notin stale /\ script[m].old
        BY <1>2, <1>4, <1>11, <2>1, <3>2
      <4> QED
        BY <1>1, <1>8, <2>2, <2>3, <2>6, <3>2, <4>1
    <3>3. p \in Running => j.rule = NoRule
      BY <1>5 DEF Informed, RunGoesOn
    <3> QED
      BY <2>2, <2>3, <2>4, <3>1, <3>2, <3>3 DEF RunGoesOn
  <2>11. HeldThere(p)' /\ DraftSound(p)' /\ DraftFollows(p)'
    BY <1>2, <1>11, <2>4 DEF HeldThere, DraftSound, DraftFollows, Calling
  <2>12. Informed(p)'
    BY <2>8, <2>9, <2>10, <2>11 DEF Informed
  <2> QED
    BY <1>1, <1>2, <1>4, <1>5, <1>11, <2>1, <2>4, <2>5, <2>7, <2>12, StepKeeps
<1> QED
  BY <1>9, <1>10, <1>11

-----------------------------------------------------------------------------
(* The theorems.                                                           *)

LEMMA NextKeeps == IndInv /\ [Next]_vars => IndInv'
<1> SUFFICES ASSUME IndInv, [Next]_vars PROVE IndInv'
  OBVIOUS
<1>1. CASE UNCHANGED vars
  BY <1>1 DEF IndInv, TypeOK, CatchallGuarded, RewritesHaveCatchall, OneRunner, Running, Busy,
              vars, store, requests
<1>2. ASSUME NEW p \in Requests,
             \/ \E r \in Rows : BeginAdd(p, r) \/ BeginDrop(p, r)
             \/ \E r \in Lists : BeginToggle(p, r)
             \/ \E m \in Mailboxes \cup {NoBox} : BeginCatchAll(p, m)
             \/ BeginTask(p)
      PROVE  IndInv'
  BY <1>2, BeginAddKeeps, BeginDropKeeps, BeginToggleKeeps, BeginCatchAllKeeps, BeginTaskKeeps
<1>3. ASSUME NEW p \in Requests,
             WriteRule(p) \/ WriteCatchAll(p) \/ Aim(p) \/ Compile(p) \/ Call(p) \/ CallFails(p)
      PROVE  IndInv'
  BY <1>3, WriteRuleKeeps, WriteCatchAllKeeps, AimKeeps, CompileKeeps, CallKeeps, CallFailsKeeps
<1>4. ASSUME NEW p \in Requests, ReadFails(p) \/ Undo(p) \/ UndoFails(p) \/ Crash(p)
      PROVE  IndInv'
  BY <1>4, ReadFailsKeeps, UndoKeeps, UndoFailsKeeps, CrashKeeps
<1> QED
  BY <1>1, <1>2, <1>3, <1>4 DEF Next

\* Types, and what the two properties below rest on, hold in every state.
THEOREM IndInvCorrect == Spec => []IndInv
BY InitHolds, NextKeeps, PTL DEF Spec

\* Rewrites are without a catch-all only when it was cleared while one was added,
\* for any number of requests and any failures (UpdateCatchAll,
\* CreatePatternRewrite).
THEOREM RewritesHaveCatchallCorrect == Spec => []RewritesHaveCatchall
<1>1. IndInv => RewritesHaveCatchall
  BY DEF IndInv, CatchallGuarded
<1> QED
  BY <1>1, IndInvCorrect, PTL

\* However many instances start, the task of maintenance.go is run by one at a time.
THEOREM TaskRunsAlone == Spec => [](Cardinality(Running) <= 1)
<1>1. IndInv => Cardinality(Running) <= 1
  <2> SUFFICES ASSUME IndInv PROVE Cardinality(Running) <= 1
    OBVIOUS
  <2>1. CASE Running = {}
    BY <2>1, FS_EmptySet
  <2>2. CASE Running # {}
    <3>1. PICK p \in Running : Running = {p}
      BY <2>2 DEF IndInv, OneRunner
    <3>2. Cardinality({p}) = 1
      BY FS_Singleton
    <3> QED
      BY <3>1, <3>2
  <2> QED
    BY <2>1, <2>2
<1> QED
  BY <1>1, IndInvCorrect, PTL

-----------------------------------------------------------------------------
(* Scripts follow the rules.                                               *)

LEMMA NextRebuilds == IndInv /\ IndInv' /\ RebuildInv /\ [Next]_vars => RebuildInv'
<1> SUFFICES ASSUME TypeOK, TypeOK', RebuildInv, [Next]_vars PROVE RebuildInv'
  BY DEF IndInv
<1>1. CASE UNCHANGED vars
  <2>1. UNCHANGED <<rules, catchall, script, claimed, pc, job, held, crowded, stale, dormant, cut>>
    BY <1>1 DEF vars, store, requests
  <2>2. Alone' /\ ScriptsSound' /\ DormantKnown' /\ NoOldLeft' /\ RebuiltFollowsRules'
    BY <2>1 DEF RebuildInv, Alone, Busy, ScriptsSound, DormantKnown, Waiting, Box, NoOldLeft, Running,
                RebuiltFollowsRules, InForce, RulesOf, Compiled
  <2>3. ASSUME NEW p \in Requests PROVE Informed(p)'
    <3>1. Informed(p)
      BY DEF RebuildInv
    <3>2. HeldThere(p)' /\ DraftSound(p)'
      BY <2>1, <3>1 DEF Informed, HeldThere, DraftSound, Box
    <3>3. ReadsTrue(p)'
      BY <2>1, <3>1 DEF Informed, ReadsTrue, Knows, Busy
    <3>4. DraftFollows(p)'
      BY <2>1, <3>1 DEF Informed, DraftFollows, Calling, Box, RulesOf, Compiled
    <3>5. OwedReached(p)'
      BY <2>1, <3>1 DEF Informed, OwedReached, Busy, Reach
    <3>6. RunGoesOn(p)'
      BY <2>1, <3>1 DEF Informed, RunGoesOn, Running, Busy
    <3> QED
      BY <3>2, <3>3, <3>4, <3>5, <3>6 DEF Informed
  <2> QED
    BY <2>2, <2>3 DEF RebuildInv
<1>2. ASSUME NEW p \in Requests,
             \/ \E r \in Rows : BeginAdd(p, r) \/ BeginDrop(p, r)
             \/ \E r \in Lists : BeginToggle(p, r)
             \/ \E m \in Mailboxes \cup {NoBox} : BeginCatchAll(p, m)
             \/ BeginTask(p)
      PROVE  RebuildInv'
  BY <1>2, AskRebuild, BeginTaskRebuild
<1>3. ASSUME NEW p \in Requests,
             WriteRule(p) \/ WriteCatchAll(p) \/ Aim(p) \/ Compile(p) \/ Call(p) \/ CallFails(p)
      PROVE  RebuildInv'
  BY <1>3, WriteRuleRebuild, WriteCatchAllRebuild, AimRebuild, CompileRebuild, CallRebuild,
     CallFailsRebuild
<1>4. ASSUME NEW p \in Requests, ReadFails(p) \/ Undo(p) \/ UndoFails(p) \/ Crash(p)
      PROVE  RebuildInv'
  BY <1>4, ReadFailsRebuild, UndoRebuild, UndoFailsRebuild, CrashRebuild
<1> QED
  BY <1>1, <1>2, <1>3, <1>4 DEF Next

\* What requests know, and owe, is right in every state.
THEOREM RebuildInvCorrect == Spec => []RebuildInv
BY InitRebuild, NextRebuilds, IndInvCorrect, PTL DEF Spec

\* Every script that a change has dealt with to its end, undisturbed, holds the rules
\* of its mailbox, and is in force unless a request stopped between the calls that
\* make it; for any number of mailboxes, rules and requests, whatever else fails
\* (redeployMailboxScript, DeploySieveScript).
THEOREM RebuiltFollowsRulesCorrect == Spec => []RebuiltFollowsRules
<1>1. RebuildInv => RebuiltFollowsRules
  BY DEF RebuildInv
<1> QED
  BY <1>1, RebuildInvCorrect, PTL

\* The task is run by one instance at a time, and its claim, when no run goes on and
\* none was cut off, stands for work that is done (maintenance.go).
THEOREM TaskRunsOrIsReleasedCorrect == Spec => []TaskRunsOrIsReleased
<1>1. RebuildInv /\ Cardinality(Running) <= 1 => TaskRunsOrIsReleased
  BY DEF RebuildInv, NoOldLeft, TaskRunsOrIsReleased
<1> QED
  BY <1>1, RebuildInvCorrect, TaskRunsAlone, PTL
=============================================================================
