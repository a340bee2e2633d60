----------------------------- MODULE Dashboard -----------------------------
(***************************************************************************)
(* One browser tab of a dashboard: the page it is on, what that page shows *)
(* of the thing its URL names, the requests it has sent and what their     *)
(* answers do when they come back, in any order, late, or not at all.  The *)
(* pages are those of the CONSTANT PageSet, in the terms of PageProtocol.  *)
(*                                                                         *)
(* The router keeps a page's component when only the thing in the URL      *)
(* changes (the search palette, the browser's history and the sidebar go   *)
(* from one mailbox or domain to another on the same page), and makes a    *)
(* new one otherwise; a request outlives both.                             *)
(*                                                                         *)
(* The content of a page is abstracted to whose it is, the number of the   *)
(* operation that made it, and, for a list, its rows.                      *)
(***************************************************************************)
EXTENDS PageProtocol, Naturals, Sequences, SequencesExt

CONSTANTS
  PageSet,   \* the pages of the dashboard
  Ids,       \* mailboxes, or domains
  NoId,
  Calls,     \* requests that may be in flight together
  MaxOps     \* bound: operations in a behaviour

ASSUME DashboardAssumption ==
  /\ NoId \notin Ids
  /\ MaxOps \in Nat

ASSUME PagesAssumption == \A p \in PageSet : CoherentPage(p)

VARIABLES
  server,    \* the content of the page's resource, by thing
  gone,      \* things deleted or given away
  page, id,  \* the last page, and the thing in its URL, NoId when it is closed
  shown,     \* the content on the screen, or Nothing
  edited,    \* the form holds unsaved edits of it
  locks,     \* flags that are set
  dialog,    \* the open confirmation
  call,      \* requests in flight
  clock,     \* operations sent so far
  fate       \* what has happened to the component

vars == <<server, gone, page, id, shown, edited, locks, dialog, call, clock, fate>>

\* What the properties tell apart of a component's past: an answer was put on
\* the screen of another thing than it is about; a request failed; two
\* requests were in flight of which neither replaces the other; the URL moved
\* to another thing; an earlier component of the page left a change under way;
\* and an operation hit something else than was meant, by what it aimed with.
Astray == {"wrong page", "wrong form", "wrong typed", "wrong row", "wrong rule", "wrong index"}
Fates == {"late", "failed", "overlapped", "moved", "inherited"} \cup Astray

Nothing == [of |-> NoId, version |-> 0, rows |-> <<>>]

\* What is asked for: an operation and its target.
NoOp == [Save EXCEPT !.kind = "none", !.lock = "none", !.waits = FALSE]
Aim == [op |-> NoOp, id |-> NoId, row |-> 0, pos |-> 0, meant |-> NoId]
NoDialog == Aim

\* A request: reads, or does aim; n is the number of the operation, at the thing
\* in the URL when it was sent.
NoCall == [aim |-> Aim, reads |-> FALSE, n |-> 0,
           at |-> NoId, stage |-> "none", got |-> Nothing, home |-> "away"]

\* The read of a page when it opens or moves.
Read == [NoOp EXCEPT !.kind = "load"]

\* What a thing holds before anything is done to it.
Original(p) == [version |-> 0, rows |-> IF p.rows THEN <<1, 2>> ELSE <<>>]
ContentOf(i, things) == [of |-> i, version |-> things[i].version, rows |-> things[i].rows]
Content(i) == ContentOf(i, server)

Busy(c) == call[c].stage # "none"
Mine(c) == Busy(c) /\ call[c].home = "component"

\* (fault) a load is never dropped.
Replaced_Never(c) == FALSE

\* Requests of its own that the component drops when it reads again.
Replaced(c) == Mine(c) /\ call[c].reads /\ call[c].aim.op = Read

-----------------------------------------------------------------------------
(* Sending. *)

Reading(op, i) ==
  [NoCall EXCEPT !.aim = [Aim EXCEPT !.op = op, !.id = i], !.reads = TRUE,
                 !.stage = "sent", !.home = "component"]

\* r goes out with the requests calls around it.
Sent(calls, r) ==
  \E c \in Calls : /\ calls[c] = NoCall
                   /\ call' = [calls EXCEPT ![c] = r]

Overlap(calls) ==
  IF \E c \in Calls : calls[c].stage # "none" /\ calls[c].home = "component"
    THEN {"overlapped"} ELSE {}

\* The page goes away, and with it what it shows, its flags and its loads; the
\* other requests calls go on.
Closed(calls) ==
  /\ id' = NoId
  /\ shown' = Nothing
  /\ edited' = FALSE
  /\ locks' = {}
  /\ dialog' = NoDialog
  /\ fate' = {}
  /\ call' = [c \in Calls |-> IF calls[c].stage = "none" \/ calls[c].reads THEN NoCall
                             ELSE IF calls[c].home = "away" THEN calls[c]
                             ELSE [calls[c] EXCEPT !.home = "page"]]

\* A link, the palette, the browser's history: to a page of another component,
\* or to none of those that are modelled.
Close ==
  /\ id # NoId
  /\ Closed(call)
  /\ UNCHANGED <<server, gone, page, clock>>

\* A new component, which reads what the page shows.  Requests of another page
\* matter no more, unless their answer navigates, or changes what beta's mailbox
\* pages share: that is kept by the layout around them, not read again here, and
\* changed by the answers of pages that were left.  It is in MailboxContext; the
\* page of it, the mailbox's overview, is here as opened with its layout.
Open(p, i) ==
  LET left == [c \in Calls |->
                 IF p = page \/ call[c].home = "away" THEN call[c]
                 ELSE IF call[c].aim.op.then = "leave" THEN [call[c] EXCEPT !.home = "away"]
                 ELSE NoCall]
      inherits == \E c \in Calls : left[c].home = "page"
  IN  /\ id = NoId
      /\ p.app = page.app
      /\ page' = p
      /\ id' = i
      /\ server' = IF inherits THEN server ELSE [j \in Ids |-> Original(p)]
      /\ fate' = IF inherits THEN {"inherited"} ELSE {}
      /\ IF p.loads = "none" THEN call' = left ELSE Sent(left, Reading(Read, i))
      /\ UNCHANGED <<gone, shown, edited, locks, dialog, clock>>

\* (fault) what was shown stays on the screen until the load answers.
Forgets_Never == FALSE

\* Whether a page shows nothing while it loads another thing.
Forgets == page.loads = "switch"

\* The same page for another thing: the component stays, with its dialog and
\* its flags.
Move(i) ==
  LET kept == IF page.loads = "switch"
                THEN [c \in Calls |-> IF Replaced(c) THEN NoCall ELSE call[c]]
                ELSE call
  IN  /\ page.about = "thing"
      /\ id \notin {i, NoId}
      /\ id' = i
      /\ shown' = IF Forgets THEN Nothing ELSE shown
      /\ edited' = (edited /\ ~ Forgets)
      /\ fate' = fate \cup {"moved"} \cup Overlap(kept)
      /\ IF page.loads = "none" THEN call' = call ELSE Sent(kept, Reading(Read, i))
      /\ UNCHANGED <<server, gone, page, locks, dialog, clock>>

\* The person changes what the form shows.
Edit ==
  /\ dialog = NoDialog
  /\ shown # Nothing
  /\ \E op \in page.ops : op.needs = "edit"
  /\ edited' = TRUE
  /\ UNCHANGED <<server, gone, page, id, shown, locks, dialog, call, clock, fate>>

\* A button reads the page again.
Refresh ==
  LET kept == [c \in Calls |-> IF Replaced(c) /\ page.loads = "switch" THEN NoCall ELSE call[c]]
  IN  /\ page.again
      /\ id # NoId
      /\ Sent(kept, Reading(Read, id))
      /\ fate' = fate \cup Overlap(kept)
      /\ UNCHANGED <<server, gone, page, id, shown, edited, locks, dialog, clock>>

-----------------------------------------------------------------------------
(* Operations. *)

\* The button of op can be used.
Offered(op) ==
  /\ id # NoId
  /\ dialog = NoDialog
  /\ op.waits => op.lock \notin locks
  /\ op.needs # "nothing" => shown # Nothing
  /\ op.needs = "edit" => edited

\* What op would be about, row k of the screen for an operation on a row.
Target(op, k) ==
  IF op.kind = "drop"
    THEN [op |-> op, id |-> IF op.aim = "rule" THEN id ELSE shown.of,
          row |-> shown.rows[k], pos |-> k, meant |-> shown.of]
    ELSE [Aim EXCEPT !.op = op, !.id = IF op.aim = "shown" THEN shown.of ELSE id,
                     !.meant = IF op.kind = "save" \/ op.aim = "shown" THEN shown.of ELSE id]

RowsFor(op) == IF op.kind = "drop" THEN DOMAIN shown.rows ELSE {0}

\* The request goes out.  A form that keeps what was typed shows, from now on,
\* what it asked for.
Send(a) ==
  /\ clock < MaxOps
  /\ clock' = clock + 1
  /\ Sent(call, [aim |-> a, reads |-> FALSE, n |-> clock', at |-> id,
                 stage |-> "sent", got |-> Nothing, home |-> "component"])
  /\ locks' = locks \cup ({a.op.lock} \ {"none"})
  /\ IF a.op.kind = "save" /\ a.op.then = "keep"
       THEN shown' = [shown EXCEPT !.version = clock'] /\ edited' = FALSE
       ELSE UNCHANGED <<shown, edited>>
  /\ fate' = fate \cup Overlap(call)

Submit ==
  /\ \E op \in page.ops :
       /\ op.dialog = "none"
       /\ Offered(op)
       /\ \E k \in RowsFor(op) : Send(Target(op, k))
  /\ UNCHANGED <<server, gone, page, id, dialog>>

Ask ==
  /\ \E op \in page.ops :
       /\ op.dialog # "none"
       /\ Offered(op)
       /\ \E k \in RowsFor(op) :
            dialog' = IF op.dialog = "typed" THEN [Target(op, k) EXCEPT !.meant = NoId] ELSE Target(op, k)
  /\ UNCHANGED <<server, gone, page, id, shown, edited, locks, call, clock, fate>>

\* The name of a thing is typed into the dialog that asks for it.
Type(i) ==
  /\ dialog.op.dialog = "typed"
  /\ dialog' = [dialog EXCEPT !.meant = i]
  /\ UNCHANGED <<server, gone, page, id, shown, edited, locks, call, clock, fate>>

\* Beta keeps a dialog open while its operation is under way.
Cancel ==
  /\ dialog # NoDialog
  /\ page.app = "beta" => dialog.op.lock \notin locks
  /\ dialog' = NoDialog
  /\ UNCHANGED <<server, gone, page, id, shown, edited, locks, call, clock, fate>>

\* The thing is the one in the URL by now; a row is the one that was chosen.
Confirmed(a) == IF a.op.aim \in {"page", "rule"} THEN [a EXCEPT !.id = id] ELSE a

\* (fault) the name is not compared.
Confirm_AnyName ==
  /\ dialog # NoDialog
  /\ dialog.op.lock \notin locks
  /\ Send(Confirmed(dialog))
  /\ UNCHANGED <<server, gone, page, id, dialog>>

Confirm ==
  /\ dialog # NoDialog
  /\ dialog.op.lock \notin locks
  /\ dialog.op.dialog = "typed" => dialog.meant = id
  /\ Send(Confirmed(dialog))
  /\ UNCHANGED <<server, gone, page, id, dialog>>

-----------------------------------------------------------------------------
(* The server, and the way there and back. *)

\* The request changes nothing: what it is about is gone, or the row is not one
\* of the thing it names.
Misses(a) ==
  \/ a.id \in gone
  \/ /\ a.op.kind = "drop"
     /\ IF a.op.aim = "index"
          THEN a.pos > Len(server[a.id].rows)
          ELSE a.meant # a.id \/ ~ Contains(server[a.id].rows, a.row)

\* What the request makes of the rows of its thing.
Rows(r) ==
  LET rows == server[r.aim.id].rows
  IN  CASE r.aim.op.kind = "add" /\ page.rows -> Append(rows, r.n + 2)
        [] r.aim.op.kind = "drop" ->
             IF r.aim.op.aim = "index" THEN RemoveAt(rows, r.aim.pos) ELSE Remove(rows, r.aim.row)
        [] OTHER -> rows

\* The request changes something else than the person chose.
Misled(a) ==
  IF a.op.aim = "index" THEN server[a.id].rows[a.pos] # a.row ELSE a.meant # a.id

How(op) ==
  IF op.kind = "save" THEN "wrong form"
  ELSE IF op.dialog = "typed" THEN "wrong typed"
  ELSE CASE op.aim \in {"page", "shown"} -> "wrong page"
         [] op.aim = "row" -> "wrong row"
         [] op.aim = "rule" -> "wrong rule"
         [] op.aim = "index" -> "wrong index"

Apply(r) ==
  LET a == r.aim
  IN  /\ server' = IF r.home = "away" \/ a.op.kind \in {"act", "end"} THEN server
                   ELSE [server EXCEPT ![a.id] = [version |-> r.n, rows |-> Rows(r)]]
      /\ gone' = IF a.op.kind = "end" THEN gone \cup {a.id} ELSE gone
      /\ fate' = fate \cup (IF r.home = "component" /\ Misled(a) THEN {How(a.op)} ELSE {})

\* What comes back.
Answered(r, stage, got) == [r EXCEPT !.stage = stage, !.got = got]

\* The request reaches the server or is lost; if it is answered, the answer may
\* be lost as well, and the page sees a failure.
Process(c) ==
  LET r == call[c]
      Reply(stage, got) == call' = [call EXCEPT ![c] = Answered(r, stage, got)]
  IN  /\ r.stage = "sent"
      /\ \/ /\ Reply("failed", Nothing)
            /\ UNCHANGED <<server, gone, fate>>
         \/ /\ r.reads /\ r.aim.id \notin gone
            /\ Reply("done", Content(r.aim.id))
            /\ UNCHANGED <<server, gone, fate>>
         \/ /\ ~ r.reads /\ ~ Misses(r.aim)
            /\ Apply(r)
            /\ \/ Reply("done", IF r.aim.op.then = "show" THEN ContentOf(r.aim.id, server')
                                 ELSE Nothing)
               \/ Reply("failed", Nothing)
      /\ UNCHANGED <<page, id, shown, edited, locks, dialog, clock>>

-----------------------------------------------------------------------------
(* The answers. *)

Without(c) == [call EXCEPT ![c] = NoCall]

\* What the answer carries goes on the screen, whatever the URL names by now.
Show(r) ==
  /\ shown' = r.got
  /\ edited' = FALSE
  /\ fate' = fate \cup (IF r.aim.op # Read /\ r.got.of # id THEN {"late"} ELSE {})

\* (fault) only a request that succeeded clears its flag.
Release_OnSuccess(r) == locks' = IF r.stage = "done" THEN locks \ {r.aim.op.lock} ELSE locks

\* Its flag is cleared, whatever the answer is.
Release(r) == locks' = locks \ {r.aim.op.lock}

\* The answer to a read: of the page itself, or the one an operation awaits.
ReadAnswer(c) ==
  LET r == call[c]
      own == r.aim.op = Read
  IN  /\ Mine(c) /\ r.reads
      /\ call' = Without(c)
      /\ Release(r)
      /\ \/ r.stage = "done" /\ Show(r)
         \/ /\ r.stage = "failed"
            /\ fate' = fate \cup {"failed"}
            /\ IF (own /\ page.loads = "switch" /\ ~ page.again) \/ page.reload = "empties"
                 THEN shown' = Nothing /\ edited' = FALSE
                 ELSE UNCHANGED <<shown, edited>>
      /\ UNCHANGED <<server, gone, page, id, dialog, clock>>

\* Reading again after an operation.
Reload(c) ==
  LET r == call[c]
      kept == [d \in Calls |-> IF Replaced(d) THEN NoCall ELSE Without(c)[d]]
  IN  IF page.reload \in {"switch", "blank"}
        THEN /\ Sent(kept, Reading(Read, id))
             /\ Release(r)
             /\ shown' = IF page.reload = "blank" THEN Nothing ELSE shown
        ELSE /\ Sent(Without(c), Reading(r.aim.op, IF page.reload = "closure" THEN r.at ELSE id))
             /\ UNCHANGED <<shown, locks>>

\* (fault) only an operation that reads again after a failure too does so.
Reloads_OnlyAlways(r) == r.stage \in {"done", "failed"} /\ r.aim.op.then = "always"

Reloads(r) ==
  \/ r.stage = "done" /\ r.aim.op.then \in {"reload", "always"}
  \/ r.stage = "failed" /\ r.aim.op.then = "always"

\* Its dialog closes, or stays open for another try.
Closes(r) ==
  IF r.aim.op = dialog.op /\ (r.stage = "done" \/ r.aim.op.dialog # "stays") THEN NoDialog ELSE dialog

\* The answer to an operation that leaves the person on the page.
OpAnswer(c) ==
  LET r == call[c]
      op == r.aim.op
      failed == IF r.stage = "failed" THEN {"failed"} ELSE {}
  IN  /\ Mine(c) /\ ~ r.reads /\ r.stage \in {"done", "failed"}
      /\ ~ (r.stage = "done" /\ op.then = "leave")
      /\ dialog' = Closes(r)
      /\ IF Reloads(r)
           THEN /\ Reload(c)
                /\ fate' = fate \cup failed \cup Overlap(Without(c))
                /\ UNCHANGED edited
           ELSE /\ call' = Without(c)
                /\ Release(r)
                /\ IF r.stage = "done" /\ op.then = "show"
                     THEN Show(r)
                     ELSE fate' = fate \cup failed /\ UNCHANGED <<shown, edited>>
      /\ UNCHANGED <<server, gone, page, id, clock>>

\* The answer to an operation that navigates does so even if the person has
\* left its page.
LeaveAnswer(c) ==
  LET r == call[c]
  IN  /\ Busy(c) /\ ~ r.reads /\ r.stage = "done" /\ r.aim.op.then = "leave"
      /\ Closed(Without(c))
      /\ UNCHANGED <<server, gone, page, clock>>

\* An answer nobody waits for any more.
DeadAnswer(c) ==
  LET r == call[c]
  IN  /\ Busy(c) /\ ~ Mine(c) /\ r.stage \in {"done", "failed"}
      /\ ~ (r.stage = "done" /\ r.aim.op.then = "leave")
      /\ call' = Without(c)
      /\ UNCHANGED <<server, gone, page, id, shown, edited, locks, dialog, clock, fate>>

-----------------------------------------------------------------------------
Init ==
  /\ gone = {}
  /\ page \in PageSet
  /\ id = NoId
  /\ shown = Nothing
  /\ edited = FALSE
  /\ locks = {}
  /\ dialog = NoDialog
  /\ server = [i \in Ids |-> Original(page)]
  /\ clock = 0
  /\ fate = {}
  /\ call = [c \in Calls |-> NoCall]

Next ==
  \/ Close \/ Refresh \/ Edit \/ Submit \/ Ask \/ Cancel \/ Confirm
  \/ \E p \in PageSet, i \in Ids : Open(p, i)
  \/ \E i \in Ids : Move(i) \/ Type(i)
  \/ \E c \in Calls : Process(c) \/ ReadAnswer(c) \/ OpAnswer(c) \/ LeaveAnswer(c) \/ DeadAnswer(c)

Spec == Init /\ [][Next]_vars

-----------------------------------------------------------------------------
\* Nothing is under way.
Idle == \A c \in Calls : ~ Busy(c)

\* What a page shows of another thing than its URL names is the answer to a
\* change sent before the URL moved on, never the answer to an earlier load:
\* loads that can be late are dropped.
LateAnswersOnly ==
  (page.loads = "switch" /\ shown # Nothing /\ shown.of # id) => "late" \in fate

\* Once everything has been answered and nothing has failed, a page shows what
\* the server has.
Converges ==
  (/\ Idle /\ id \in Ids \ gone /\ page.loads # "none"
   /\ fate \cap {"failed", "inherited", "late"} = {}
   /\ page.loads = "follow" => "moved" \notin fate
   /\ ~ ReadsAgain(page) => "overlapped" \notin fate)
    => shown = Content(id)

\* A form that was filled from one thing is saved to another only after a late
\* answer has filled it.
OwnFormSaved == (page.loads = "switch" /\ "wrong form" \in fate) => "late" \in fate

\* A row that is named by itself and a thing whose name was typed are the ones
\* that were meant, however late the request goes out.
RightTarget == fate \cap {"wrong row", "wrong rule", "wrong typed"} = {}

\* A flag that is set has a request that will clear it.
NoLockLeft ==
  \A l \in locks : \E c \in Calls : Mine(c) /\ call[c].aim.op.lock = l

-----------------------------------------------------------------------------
(* The inductive invariant behind them, but for Converges.                 *)

\* The shape of the state; rows are of any kind.
IsContent(x) == x = [of |-> x.of, version |-> x.version, rows |-> x.rows]
IsAim(a) ==
  a = [op |-> a.op, id |-> a.id, row |-> a.row, pos |-> a.pos, meant |-> a.meant]
IsCall(r) ==
  /\ r = [aim |-> r.aim, reads |-> r.reads, n |-> r.n, at |-> r.at, stage |-> r.stage,
          got |-> r.got, home |-> r.home]
  /\ IsAim(r.aim) /\ r.reads \in BOOLEAN /\ IsContent(r.got)
  /\ r.stage \in {"none", "sent", "done", "failed"}
  /\ r.home \in {"component", "page", "away"}

TypeOK ==
  /\ server = [i \in Ids |-> server[i]]
  /\ page \in PageSet /\ id \in Ids \cup {NoId}
  /\ IsContent(shown) /\ edited \in BOOLEAN
  /\ IsAim(dialog)
  /\ call = [c \in Calls |-> call[c]] /\ \A c \in Calls : IsCall(call[c])
  /\ clock \in Nat

\* Nothing is left of a page that was closed.
ClosedIsClean ==
  id = NoId =>
    /\ shown = Nothing /\ edited = FALSE /\ locks = {} /\ dialog = NoDialog /\ fate = {}
    /\ \A c \in Calls : ~ Mine(c)

LocksHeld == "none" \notin locks /\ NoLockLeft

\* A row that was chosen is named together with its thing.
NamesItsRow(a) == a.op.aim = "row" /\ a.op.kind # "save" => a.meant = a.id

\* An open confirmation is about an operation of the page that asks for one.
DialogSound ==
  dialog # NoDialog =>
    dialog.op \in page.ops /\ dialog.op.dialog # "none" /\ NamesItsRow(dialog)

\* What a component has under way: a read of the page is about the thing in the
\* URL where loads are dropped, and brings what it asked for; an operation is
\* about what its kind of aim promises.
Sound(r) ==
  r.stage # "none" /\ r.home = "component" =>
    IF r.reads
      THEN /\ r.aim.op \in page.ops \cup {Read}
           /\ page.loads = "switch" /\ r.aim.op = Read => r.aim.id = id
           /\ r.stage = "done" => r.got.of = r.aim.id
      ELSE /\ r.aim.op \in page.ops
           /\ NamesItsRow(r.aim)
           /\ r.aim.op.dialog = "typed" => r.aim.meant = r.aim.id
           /\ page.loads = "switch" /\ r.aim.op.kind = "save" /\ r.aim.meant # r.aim.id =>
                "late" \in fate

IndInv ==
  /\ TypeOK /\ ClosedIsClean /\ LocksHeld /\ DialogSound
  /\ \A c \in Calls : Sound(call[c])
  /\ LateAnswersOnly /\ OwnFormSaved /\ RightTarget

-----------------------------------------------------------------------------
(* The inductive invariant behind Converges, beside IndInv.                *)

\* No change of an earlier component is under way, and two requests of this one
\* have overlapped if there are two.
NoHeirs == id # NoId /\ "inherited" \notin fate => \A c \in Calls : call[c].home # "page"
OneAtATime == "overlapped" \notin fate => \A c, d \in Calls : Mine(c) /\ Mine(d) => c = d

Undisturbed ==
  /\ id \in Ids \ gone /\ page.loads # "none"
  /\ fate \cap {"failed", "inherited", "late"} = {}
  /\ page.loads = "follow" => "moved" \notin fate

\* A request that is alone finds the screen, and leaves it, as the server has it.
InTurn(r) ==
  IF r.reads
    THEN /\ r.aim.id = id
         /\ r.stage = "done" => r.got = Content(id)
    ELSE /\ r.at = id
         /\ r.stage = "sent" =>
              IF r.aim.op.kind = "save" /\ r.aim.op.then = "keep"
                THEN r.aim.id = id /\ shown = [Content(id) EXCEPT !.version = r.n]
                ELSE shown = Content(id)
         /\ r.stage = "done" /\ r.aim.op.then = "show" => r.got = Content(r.aim.id)
         /\ r.stage = "done" /\ r.aim.op.then \notin {"show", "reload", "always", "leave"} =>
              shown = Content(id)

TakesTurns ==
  Undisturbed /\ "overlapped" \notin fate =>
    /\ \A c \in Calls : Mine(c) => InTurn(call[c])
    /\ (\A c \in Calls : ~ Mine(c)) => shown = Content(id)

\* Where reads replace each other there is one, and it comes after the last change
\* that was answered.
OneRead ==
  ReadsAgain(page) /\ page.loads # "none" =>
    /\ \A c, d \in Calls : Mine(c) /\ Mine(d) /\ call[c].reads /\ call[d].reads => c = d
    /\ \A c \in Calls : Mine(c) /\ call[c].reads => call[c].aim.op = Read

LastReadCounts ==
  Undisturbed /\ ReadsAgain(page) /\ (\A c \in Calls : Mine(c) => call[c].reads) =>
    /\ \A c \in Calls : Mine(c) /\ call[c].stage = "done" => call[c].got = Content(id)
    /\ (\A c \in Calls : ~ Mine(c)) => shown = Content(id)

ConvergeInv == NoHeirs /\ OneAtATime /\ OneRead /\ TakesTurns /\ LastReadCounts
=============================================================================
