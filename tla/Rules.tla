------------------------------- MODULE Rules -------------------------------
(***************************************************************************)
(* The mail rules of one domain: their rows in the database, the catch-all *)
(* address in the mail cluster, and the one Sieve script of each mailbox   *)
(* that all the rules are compiled into                                    *)
(* (backend/internal/handlers/sieve_rules.go, stalwart/sieve.go).  Every   *)
(* change of a rule rebuilds the scripts it bears on, mailbox by mailbox,  *)
(* in calls that may fail; so does a task that runs once after an upgrade  *)
(* (handlers/maintenance.go).                                              *)
(*                                                                         *)
(* A script is abstracted to the rules it was compiled from.  The reads it *)
(* is compiled from are one step; finding a script by its name and the     *)
(* first call about it are one step too, and what is done later by its id  *)
(* fails once another request has removed it.                              *)
(*                                                                         *)
(* A mailbox has one rule of its own here, its forward, which is taken     *)
(* back when it cannot be deployed.  Internal access and delegation are    *)
(* not in the model: settings of one mailbox, which stay when the deploy   *)
(* fails, as those of the domain do (handlers/mailbox_settings.go).        *)
(***************************************************************************)
EXTENDS Naturals, FiniteSets, Sequences, SequencesExt

CONSTANTS
  Mailboxes,  \* of the domain; as a rule, the mailbox's forward
  Lists,      \* spam settings: columns of the domain's row
  Captures,   \* ids of bcc_captures rows
  Rewrites,   \* ids of pattern_rewrites rows
  Requests,   \* requests, and API instances that start
  Ops,        \* what is asked for in this instance
  Faults,     \* what goes wrong in this instance
  MaxBegins,  \* bound: requests in a behaviour
  NoBox,      \* no catch-all
  NoRule

ASSUME RulesAssumption ==
  /\ NoBox \notin Mailboxes
  /\ NoRule \notin Mailboxes \cup Lists \cup Captures \cup Rewrites
  /\ Lists \cap (Mailboxes \cup Captures \cup Rewrites) = {}
  /\ Captures \cap (Mailboxes \cup Rewrites) = {} /\ Rewrites \cap Mailboxes = {}
  /\ IsFiniteSet(Mailboxes)
  /\ Ops \subseteq {"add", "drop", "toggle", "catchall", "maintain"}
  /\ Faults \subseteq {"call", "statement", "crash"}
  /\ MaxBegins \in Nat

VARIABLES
  rules,      \* the rules there are
  spent,      \* ids that were given out
  catchall,   \* the catch-all, in the cluster
  script,     \* the script of each mailbox, in the cluster
  pc, job,    \* each request: where it is, and what it does
  held,       \* the script it knows by its id is still there
  begun,      \* how many there have been, for the bound
  claimed,    \* the row of the task in maintenance_runs
  crowded,    \* history: requests that have run beside another
  stale,      \* history: mailboxes whose rules have changed since they were last
              \* in line: since a change that bore on them ended well, and
              \* undisturbed, or a redeploy did
  dormant,    \* history: mailboxes where a request stopped between the two
              \* calls that make, or remove, a script
  crossed,    \* history: the catch-all was cleared while a rewrite was added
  cut         \* history: the task ended, or was claimed and not run, without its release

store == <<rules, spent, catchall, script, claimed>>
requests == <<pc, job, held, begun, crowded>>
vars == <<store, requests, stale, dormant, crossed, cut>>

-----------------------------------------------------------------------------
Rows == Captures \cup Rewrites \cup Mailboxes
AllRules == Rows \cup Lists

ScriptType == [exists : BOOLEAN, active : BOOLEAN, holds : SUBSET AllRules, old : BOOLEAN]
NoScript == [exists |-> FALSE, active |-> FALSE, holds |-> {}, old |-> FALSE]

\* target is the catch-all as far as the request knows, draft what it deploys;
\* owes is history: the mailboxes that were in line before its change.
JobType == [op : {"none", "add", "drop", "toggle", "catchall", "maintain"},
            rule : AllRules \cup {NoRule}, new : Mailboxes \cup {NoBox},
            lists : SUBSET Lists, target : Mailboxes \cup {NoBox},
            todo : Seq(Mailboxes), draft : SUBSET AllRules, owes : SUBSET Mailboxes]
NoJob == [op |-> "none", rule |-> NoRule, new |-> NoBox, lists |-> {}, target |-> NoBox,
          todo |-> <<>>, draft |-> {}, owes |-> {}]

Busy == {p \in Requests : pc[p] # "idle"}
Box(p) == Head(job[p].todo)

\* What the script of a mailbox is compiled from, given the domain's row and
\* whether the mailbox is taken for the catch-all.
Compiled(m, lists, target) ==
  lists \cup {r \in rules : r \in Captures \/ r = m \/ (r \in Rewrites /\ m = target)}

RulesOf(m) == Compiled(m, rules \cap Lists, catchall)

\* The mailboxes a rule bears on.
BearsOn(r) ==
  IF r \in Mailboxes THEN {r}
  ELSE IF r \in Rewrites THEN {catchall} \ {NoBox}
  ELSE Mailboxes

\* Some mailboxes have a forward, in scripts an earlier release has compiled.
Init ==
  /\ rules \in SUBSET Mailboxes
  /\ spent = rules
  /\ catchall = NoBox
  /\ script = [m \in Mailboxes |->
       IF m \in rules THEN [exists |-> TRUE, active |-> TRUE, holds |-> {m}, old |-> TRUE]
       ELSE NoScript]
  /\ pc = [p \in Requests |-> "idle"]
  /\ job = [p \in Requests |-> NoJob]
  /\ held = [p \in Requests |-> FALSE]
  /\ begun = 0
  /\ claimed = FALSE
  /\ crowded = {}
  /\ stale = {}
  /\ dormant = {}
  /\ crossed = FALSE
  /\ cut = FALSE

-----------------------------------------------------------------------------
(* How requests begin and end.                                             *)

Clears(j) == j.op = "catchall" /\ j.new = NoBox
AddsRewrite(j) == j.op = "add" /\ j.rule \in Rewrites

\* The handler has loaded the domain's row and, where it needs it, the catch-all.
\* (bound) There have been fewer than MaxBegins.
Begin(p, at, op, rule, new) ==
  LET j == [op |-> op, rule |-> rule, new |-> new, lists |-> rules \cap Lists,
            target |-> catchall, todo |-> <<>>, draft |-> {}, owes |-> {}]
  IN /\ op \in Ops
     /\ pc[p] = "idle" /\ begun < MaxBegins
     /\ begun' = begun + 1
     /\ pc' = [pc EXCEPT ![p] = at]
     /\ job' = [job EXCEPT ![p] = j]
     /\ crowded' = IF Busy = {} THEN crowded ELSE crowded \cup Busy \cup {p}
     /\ crossed' = (crossed \/ \E q \in Busy : \/ Clears(j) /\ AddsRewrite(job[q])
                                               \/ AddsRewrite(j) /\ Clears(job[q]))
     /\ UNCHANGED <<held, stale, dormant>>

End(p) ==
  /\ pc' = [pc EXCEPT ![p] = "idle"]
  /\ job' = [job EXCEPT ![p] = NoJob]
  /\ crowded' = crowded \ {p}
  /\ UNCHANGED begun

\* Every mailbox a change was for has been dealt with; done is the last of them.
Settled(p, done) ==
  /\ stale' = IF p \in crowded THEN stale ELSE stale \ (done \cup job[p].owes)
  /\ End(p)

Goto(p, at) == pc' = [pc EXCEPT ![p] = at] /\ UNCHANGED <<job, crowded, begun>>

\* A rule that was added is taken back, the task is released, anything else stays
\* as far as it has come.
GiveUp(p) == IF job[p].op \in {"add", "maintain"} THEN Goto(p, "undo") ELSE End(p)

-----------------------------------------------------------------------------
(* The handlers up to their first write.                                   *)

\* CreateBccCapture, CreateMailboxForward, CreatePatternRewrite.  (bound) An id is
\* given out once.
BeginAdd(p, r) ==
  /\ r \in Rows \ spent
  /\ r \in Rewrites => catchall # NoBox
  /\ Begin(p, "write", "add", r, NoBox)
  /\ UNCHANGED <<store, cut>>

BeginDrop(p, r) ==
  /\ r \in rules \ Lists
  /\ Begin(p, "write", "drop", r, NoBox)
  /\ UNCHANGED <<store, cut>>

\* The spam settings, one of which changes.
BeginToggle(p, r) ==
  /\ r \in Lists
  /\ Begin(p, "write", "toggle", r, NoBox)
  /\ UNCHANGED <<store, cut>>

\* (fault) the catch-all is cleared whatever rewrites there are.
BeginCatchAll_Unchecked(p, m) ==
  /\ Begin(p, "write", "catchall", NoRule, m)
  /\ UNCHANGED <<store, cut>>

\* UpdateCatchAll: it is not cleared while there are rewrites.
BeginCatchAll(p, m) ==
  /\ m = NoBox => rules \cap Rewrites = {}
  /\ Begin(p, "write", "catchall", NoRule, m)
  /\ UNCHANGED <<store, cut>>

\* An instance starts; the first one claims the task, which has nothing to do on
\* a domain without forwards.  When the answer to the claim is lost, the claim stands
\* and nobody runs the task, or releases it.
BeginTask(p) ==
  /\ pc[p] = "idle" /\ ~ claimed /\ "maintain" \in Ops
  /\ claimed' = TRUE
  /\ \/ /\ IF rules \cap Mailboxes # {}
               THEN Begin(p, "aim", "maintain", NoRule, NoBox)
               ELSE UNCHANGED <<requests, stale, dormant, crossed>>
        /\ UNCHANGED cut
     \/ /\ "statement" \in Faults
        /\ cut' = TRUE
        /\ UNCHANGED <<requests, stale, dormant, crossed>>
  /\ UNCHANGED <<rules, spent, catchall, script>>

-----------------------------------------------------------------------------
(* The write, and the mailboxes it is for.                                 *)

\* The statement that adds, removes or sets a rule.  The handler puts a setting it
\* has changed into its own copy of the domain's row.
WriteRule(p) ==
  LET j == job[p] IN
  /\ pc[p] = "write" /\ j.op \in {"add", "drop", "toggle"}
  /\ IF j.op = "drop" /\ j.rule \notin rules
       THEN UNCHANGED <<rules, spent, stale>> /\ End(p)
       ELSE /\ rules' = IF j.op = "add" \/ (j.op = "toggle" /\ j.rule \notin rules)
                          THEN rules \cup {j.rule} ELSE rules \ {j.rule}
            /\ spent' = spent \cup ({j.rule} \ Lists)
            /\ stale' = stale \cup BearsOn(j.rule)
            /\ pc' = [pc EXCEPT ![p] = "aim"]
            /\ job' = [job EXCEPT ![p].owes = BearsOn(j.rule) \ stale, ![p].lists =
                 IF j.rule \notin Lists THEN @
                 ELSE IF j.rule \in rules' THEN @ \cup {j.rule} ELSE @ \ {j.rule}]
            /\ UNCHANGED <<crowded, begun>>
  /\ UNCHANGED <<catchall, script, claimed, held, dormant, crossed, cut>>

\* SetCatchAllAddress; the answer may be lost.
WriteCatchAll(p) ==
  LET j == job[p]
      affected == {catchall, j.new} \ {NoBox}
  IN
  /\ pc[p] = "write" /\ j.op = "catchall"
  /\ catchall' = j.new
  /\ stale' = stale \cup affected
  /\ \/ /\ job' = [job EXCEPT ![p].owes = affected \ stale]
        /\ pc' = [pc EXCEPT ![p] = "aim"]
        /\ UNCHANGED <<crowded, begun>>
     \/ "call" \in Faults /\ End(p)
  /\ UNCHANGED <<rules, spent, script, claimed, held, dormant, crossed, cut>>

\* (fault) only the new catch-all's script is rebuilt.
Aimed_NewOnly(j, all) ==
  LET some(m) == IF m = NoBox THEN <<>> ELSE <<m>>
  IN IF j.op = "catchall" THEN some(j.new)
     ELSE IF j.rule \in Rewrites THEN some(IF j.op = "add" THEN j.target ELSE catchall)
     ELSE IF j.rule \in Mailboxes THEN <<j.rule>>
     ELSE all

\* The mailboxes to rebuild, in order: the catch-all of before and the one of now,
\* the catch-all, the mailbox of a forward, or all of them.
Aimed(j, all) ==
  LET some(m) == IF m = NoBox THEN <<>> ELSE <<m>>
  IN IF j.op = "catchall"
       THEN IF j.target = j.new THEN some(j.new) ELSE some(j.target) \o some(j.new)
     ELSE IF j.rule \in Rewrites THEN some(IF j.op = "add" THEN j.target ELSE catchall)
     ELSE IF j.rule \in Mailboxes THEN <<j.rule>>
     ELSE all

\* Which mailboxes, and which of them is taken for the catch-all from here on: the
\* new one, the one read before a rewrite was added, or the one that is read now.
Aim(p) ==
  LET j == job[p] IN
  /\ pc[p] = "aim"
  /\ \E all \in SetToSeqs(Mailboxes) :
       LET todo == Aimed(j, all) IN
       IF todo = <<>> THEN Settled(p, {})
       ELSE /\ job' = [job EXCEPT ![p].todo = todo,
                                  ![p].target = CASE j.op = "catchall" -> j.new
                                                  [] AddsRewrite(j) -> j.target
                                                  [] OTHER -> catchall]
            /\ pc' = [pc EXCEPT ![p] = "compile"]
            /\ UNCHANGED <<crowded, begun, stale>>
  /\ UNCHANGED <<store, held, dormant, crossed, cut>>

\* redeployMailboxScript reads the rules of the next mailbox.
Compile(p) ==
  /\ pc[p] = "compile"
  /\ job' = [job EXCEPT ![p].draft = Compiled(Box(p), job[p].lists, job[p].target)]
  /\ pc' = [pc EXCEPT ![p] = "deploy"]
  /\ UNCHANGED <<store, held, begun, crowded, stale, dormant, crossed, cut>>

-----------------------------------------------------------------------------
(* The calls of DeploySieveScript and RemoveSieveScript.                   *)

Calling(p) == pc[p] \in {"deploy", "activate", "destroy"}

\* The script of the mailbox after the call.  An update leaves a script as active
\* as it was.
After(p) ==
  LET s == script[Box(p)]
      draft == job[p].draft
  IN IF pc[p] = "activate" THEN [s EXCEPT !.active = TRUE]
     ELSE IF pc[p] = "destroy" THEN NoScript
     ELSE IF draft # {}
       THEN [exists |-> TRUE, active |-> s.active, holds |-> draft, old |-> FALSE]
     ELSE IF s.active THEN [s EXCEPT !.active = FALSE]
     ELSE NoScript

\* A script that was made has still to be activated, one that was deactivated to
\* be destroyed.
Then(p) ==
  LET s == script[Box(p)] IN
  IF pc[p] # "deploy" THEN "done"
  ELSE IF job[p].draft # {} THEN IF s.exists THEN "done" ELSE "activate"
  ELSE IF s.active THEN "destroy" ELSE "done"

\* Others may lose the script they know by a call.
Holders(p, knows) ==
  [q \in Requests |->
     IF q = p THEN knows ELSE held[q] /\ script'[Box(q)].exists]

Known(p) == pc[p] # "deploy" => held[p]

\* A call that is answered; after the last mailbox the request ends.
Call(p) ==
  /\ Calling(p) /\ Known(p)
  /\ script' = [script EXCEPT ![Box(p)] = After(p)]
  /\ held' = Holders(p, Then(p) # "done")
  /\ IF Then(p) # "done" THEN Goto(p, Then(p)) /\ UNCHANGED stale
     ELSE IF Len(job[p].todo) = 1 THEN Settled(p, {Box(p)})
     ELSE /\ stale' = IF p \in crowded THEN stale ELSE stale \ {Box(p)}
          /\ job' = [job EXCEPT ![p].todo = Tail(@), ![p].draft = {}]
          /\ pc' = [pc EXCEPT ![p] = "compile"]
          /\ UNCHANGED <<crowded, begun>>
  /\ dormant' = {m \in dormant : script'[m].exists}
  /\ UNCHANGED <<rules, spent, catchall, claimed, crossed, cut>>

\* A call about a script that is no longer there; or one that fails, or is not
\* answered.
CallFails(p) ==
  /\ Calling(p)
  /\ \/ ~ Known(p) /\ UNCHANGED script
     \/ "call" \in Faults /\ UNCHANGED script
     \/ "call" \in Faults /\ Known(p) /\ script' = [script EXCEPT ![Box(p)] = After(p)]
  /\ held' = Holders(p, FALSE)
  /\ dormant' = {m \in dormant \cup {Box(p)} : script'[m].exists}
  /\ GiveUp(p)
  /\ UNCHANGED <<rules, spent, catchall, claimed, stale, crossed, cut>>

-----------------------------------------------------------------------------
(* What else goes wrong.                                                   *)

\* A read of the database or of the cluster fails; the first write does not take
\* place.  A mailbox that is deleted meanwhile fails its read as well.
ReadFails(p) ==
  /\ \/ /\ pc[p] = "write" /\ End(p)
        /\ IF job[p].op = "catchall" THEN "call" \in Faults ELSE "statement" \in Faults
     \/ "statement" \in Faults /\ pc[p] = "compile" /\ GiveUp(p)
     \/ "call" \in Faults /\ pc[p] = "aim" /\ GiveUp(p)
  /\ UNCHANGED <<store, held, stale, dormant, crossed, cut>>

\* (fault) the rule that was refused stays, and the task is not released.
Undo_Forgotten(p) ==
  /\ pc[p] = "undo"
  /\ End(p)
  /\ UNCHANGED <<store, stale, held, dormant, crossed, cut>>

\* The handler takes its row back; the task is released for the next start.
Undo(p) ==
  /\ pc[p] = "undo"
  /\ End(p)
  /\ IF job[p].op = "maintain"
       THEN claimed' = FALSE /\ UNCHANGED <<rules, stale>>
       ELSE /\ rules' = rules \ {job[p].rule}
            /\ stale' = stale \cup BearsOn(job[p].rule)
            /\ UNCHANGED claimed
  /\ UNCHANGED <<spent, catchall, script, held, dormant, crossed, cut>>

\* The statement fails, as it does in the context of a client that has gone or of
\* a task whose time is up.
UndoFails(p) ==
  /\ "statement" \in Faults
  /\ pc[p] = "undo"
  /\ End(p)
  /\ cut' = (cut \/ job[p].op = "maintain")
  /\ UNCHANGED <<store, held, stale, dormant, crossed>>

\* The instance stops.
Crash(p) ==
  /\ "crash" \in Faults
  /\ pc[p] # "idle"
  /\ End(p)
  /\ held' = [held EXCEPT ![p] = FALSE]
  /\ dormant' = IF pc[p] \in {"activate", "destroy"}
                  THEN {m \in dormant \cup {Box(p)} : script[m].exists} ELSE dormant
  /\ cut' = (cut \/ job[p].op = "maintain")
  /\ UNCHANGED <<store, stale, crossed>>

Next ==
  \E p \in Requests :
    \/ \E r \in Rows : BeginAdd(p, r) \/ BeginDrop(p, r)
    \/ \E r \in Lists : BeginToggle(p, r)
    \/ \E m \in Mailboxes \cup {NoBox} : BeginCatchAll(p, m)
    \/ BeginTask(p)
    \/ WriteRule(p)
    \/ WriteCatchAll(p)
    \/ Aim(p)
    \/ Compile(p)
    \/ Call(p)
    \/ CallFails(p)
    \/ ReadFails(p)
    \/ Undo(p)
    \/ UndoFails(p)
    \/ Crash(p)

Spec == Init /\ [][Next]_vars

-----------------------------------------------------------------------------
(* Properties.                                                             *)

Rebuilding == {"compile", "deploy", "activate", "destroy"}

\* Types; a request that rebuilds has a mailbox to rebuild, one that is about to
\* write has a rule of the kind its operation is for.
TypeOK ==
  /\ rules \subseteq AllRules /\ spent \subseteq Rows
  /\ catchall \in Mailboxes \cup {NoBox}
  /\ script \in [Mailboxes -> ScriptType]
  /\ pc \in [Requests -> {"idle", "write", "aim", "undo"} \cup Rebuilding]
  /\ job \in [Requests -> JobType]
  /\ \A p \in Requests :
       /\ pc[p] \in Rebuilding => job[p].todo # <<>>
       /\ pc[p] = "write" /\ job[p].op \in {"add", "drop"} => job[p].rule \in Rows
       /\ pc[p] = "write" /\ job[p].op = "toggle" => job[p].rule \in Lists
  /\ held \in [Requests -> BOOLEAN]
  /\ begun \in Nat
  /\ claimed \in BOOLEAN /\ crossed \in BOOLEAN /\ cut \in BOOLEAN
  /\ crowded \subseteq Requests
  /\ stale \subseteq Mailboxes /\ dormant \subseteq Mailboxes

InForce(m) == IF script[m].active THEN script[m].holds ELSE {}

\* A change that ends well and undisturbed leaves every mailbox it bears on in
\* line; and whatever failed, stopped or overlapped before, so does the next change
\* that rebuilds the mailbox's script undisturbed ("the next rule change will
\* redeploy to every mailbox anyway", mailboxes.go).  From then on, as long as the
\* rules do not change, the script holds the rules there are; and it is in force,
\* unless some request stopped between making and activating it.
RebuiltFollowsRules ==
  \A m \in Mailboxes \ stale :
    /\ script[m].holds = RulesOf(m)
    /\ m \in dormant \/ InForce(m) = RulesOf(m)

\* The same for mailboxes where a request did stop there: the script is updated
\* from then on, and never activated.  Not a property of the code.
RebuiltInForce == \A m \in Mailboxes \ stale : InForce(m) = RulesOf(m)

\* There are rewrites without a catch-all to act on only when it was cleared
\* while one was added; no failure, and no rewrite taken back late, leads there.
RewritesHaveCatchall == rules \cap Rewrites # {} /\ catchall = NoBox => crossed

\* The task is run by one instance at a time; and while its claim stands no
\* mailbox with a forward, at rest, has a script of the earlier release, unless
\* the run that claimed it goes on, was cut off, or never learned of its claim.
Running == {p \in Busy : job[p].op = "maintain"}
TaskRunsOrIsReleased ==
  /\ Cardinality(Running) <= 1
  /\ claimed /\ Running = {} /\ ~ cut =>
       \A m \in (rules \cap Mailboxes) \ stale : ~ script[m].old

-----------------------------------------------------------------------------
(* The inductive invariant behind RebuiltFollowsRules and                  *)
(* TaskRunsOrIsReleased, beside types and the run that is alone.           *)

\* The catch-all request p goes by, and the mailboxes its change is for.
Knows(p) == IF job[p].op = "catchall" /\ pc[p] = "aim" THEN job[p].new ELSE job[p].target

Reach(j) ==
  IF j.op = "catchall" THEN {j.target, j.new} \ {NoBox}
  ELSE IF j.rule \in Rewrites THEN {IF j.op = "add" THEN j.target ELSE catchall} \ {NoBox}
  ELSE IF j.rule \in Mailboxes THEN {j.rule}
  ELSE Mailboxes

\* A request that is not crowded has been alone since it began.
Alone == \A p \in Busy \ crowded : Busy = {p}

ScriptsSound ==
  \A m \in Mailboxes : /\ script[m].exists <=> script[m].holds # {}
                       /\ script[m].active => script[m].exists

\* A script that is not active was left so, or is about to be activated or removed.
Waiting(m) == \E q \in Requests : pc[q] \in {"activate", "destroy"} /\ Box(q) = m
DormantKnown ==
  \A m \in Mailboxes : script[m].exists /\ ~ script[m].active => m \in dormant \/ Waiting(m)

HeldThere(p) == held[p] => pc[p] \in {"activate", "destroy"} /\ script[Box(p)].exists

DraftSound(p) ==
  /\ pc[p] = "activate" => job[p].draft # {} /\ ~ script[Box(p)].old
  /\ pc[p] = "activate" /\ p \notin crowded => script[Box(p)].holds = job[p].draft
  /\ pc[p] = "destroy" => job[p].draft = {}

\* What a request has read is true, or another has made stale what it bears on.
ReadsTrue(p) ==
  p \in Busy =>
    /\ job[p].lists # rules \cap Lists => p \in crowded /\ stale = Mailboxes
    /\ Knows(p) # catchall => p \in crowded /\ {Knows(p), catchall} \ {NoBox} \subseteq stale

DraftFollows(p) ==
  Calling(p) /\ (p \notin crowded \/ Box(p) \notin stale) => job[p].draft = RulesOf(Box(p))

\* A request that is alone has on its list what it owes and has not dealt with.
OwedReached(p) ==
  p \in Busy \ crowded =>
    /\ pc[p] = "write" => job[p].owes = {}
    /\ pc[p] = "aim" => job[p].owes \subseteq Reach(job[p])
    /\ pc[p] \in Rebuilding => job[p].owes \cap stale \subseteq Range(job[p].todo)

\* A run of the task is for every mailbox, and has every script of the earlier
\* release still on its list.
RunGoesOn(p) ==
  p \in Running =>
    /\ job[p].rule = NoRule /\ pc[p] # "write"
    /\ pc[p] \in Rebuilding =>
         \A m \in (rules \cap Mailboxes) \ stale : script[m].old => m \in Range(job[p].todo)

Informed(p) ==
  /\ HeldThere(p) /\ DraftSound(p) /\ ReadsTrue(p) /\ DraftFollows(p)
  /\ OwedReached(p) /\ RunGoesOn(p)

NoOldLeft ==
  claimed /\ Running = {} /\ ~ cut => \A m \in (rules \cap Mailboxes) \ stale : ~ script[m].old

RebuildInv ==
  /\ Alone /\ ScriptsSound /\ DormantKnown /\ NoOldLeft /\ RebuiltFollowsRules
  /\ \A p \in Requests : Informed(p)
=============================================================================
