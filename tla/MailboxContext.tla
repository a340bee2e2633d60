--------------------------- MODULE MailboxContext ---------------------------
(***************************************************************************)
(* What the pages of one mailbox share in a beta tab                       *)
(* (beta/src/app/mailbox/mailbox-context.ts): the layout around them       *)
(* fetches the mailbox the URL names, once, and a page that saves          *)
(* something puts the answer there, for the other pages to see.  The       *)
(* context outlives the pages: a save that is answered after its page was  *)
(* left still changes it.                                                  *)
(*                                                                         *)
(* The origin answers a save of the overview with the whole mailbox: the   *)
(* row as it read it before, with the one field it has written.  Only this *)
(* tab's saves change the rows here: changes made elsewhere are shown when *)
(* the context is fetched again, and are in Mailboxes.                     *)
(***************************************************************************)
CONSTANTS
  Boxes,      \* the mailboxes
  Names,      \* the names they may be given
  Saves       \* saves that may be under way together

ASSUME ContextAssumption == Boxes # {} /\ "missing" \notin Boxes /\ Names # {}

VARIABLES
  row,        \* the rows of the mailboxes
  url,        \* the mailbox the URL names
  open,       \* the page, of those that save into the context, or "none"
  fetch,      \* the context's fetch; a newer one replaces it
  mailbox,    \* what the context holds: a mailbox, or Missing
  save,       \* saves under way
  crossed     \* history: what the context holds may have missed, or mistaken, a save

contextVars == <<row, url, open, fetch, mailbox, save, crossed>>

\* The overview has the name and the status, the listing settings the name.
Pages == {"overview", "listing"}

Missing == [of |-> "missing", name |-> "missing", active |-> FALSE]
NoFetch == [stage |-> "none", got |-> Missing]
Fetching == [NoFetch EXCEPT !.stage = "sent"]

\* stage: a save is "left" when the layout it would tell is gone; tells: whom the answer
\* concerns, the "page" and the context, or the "context"; got: the mailbox as the origin
\* has read it, or answers with.
NoSave == [stage |-> "none", field |-> "name", of |-> "missing", name |-> "missing",
           active |-> FALSE, tells |-> "context", got |-> Missing]

Mailbox(b) == [of |-> b, name |-> row[b].name, active |-> row[b].active]
UnderWay == {c \in Saves : save[c].stage # "none"}
Fetched == fetch.stage = "none"

ContextInit ==
  /\ row \in [Boxes -> [name : Names, active : {TRUE}]]
  /\ url \in Boxes
  /\ open = "overview"
  /\ fetch = Fetching
  /\ mailbox = Missing
  /\ save = [c \in Saves |-> NoSave]
  /\ crossed = FALSE

\* No mailbox is followed: one of the beginnings will do.
ContextAtRest ==
  /\ ContextInit
  /\ url = CHOOSE b \in Boxes : TRUE
  /\ row = [b \in Boxes |-> [name |-> CHOOSE n \in Names : TRUE, active |-> TRUE]]

-----------------------------------------------------------------------------
(* Moving about. *)

\* The saves under way are told to the context alone.
PageGone == [c \in Saves |-> [save[c] EXCEPT !.tells = "context"]]

\* Another page of the mailbox, or the same one again: a new component, with the
\* context of the old one.
OpenPage(p) ==
  /\ open' = p
  /\ save' = PageGone
  /\ UNCHANGED <<row, url, fetch, mailbox, crossed>>

\* The context fetches anew; saves under way may be stored after that, or answered
\* for a mailbox that is left.
Fetches ==
  /\ fetch' = Fetching
  /\ mailbox' = Missing
  /\ crossed' = (UnderWay # {})

\* The same page of another mailbox: the router keeps layout and page.
Visit(b) ==
  /\ b # url
  /\ url' = b
  /\ Fetches
  /\ UNCHANGED <<row, open, save>>

\* The save s once its layout is gone: it may be stored, and nobody hears of it.
Left(s) ==
  IF s.stage \in {"sent", "read", "left"}
    THEN [s EXCEPT !.stage = "left", !.tells = "context", !.got = Missing]
    ELSE NoSave

\* The mailbox is left, and later this or another one is opened: a new layout.
Enter(b, p) ==
  /\ url' = b
  /\ open' = p
  /\ Fetches
  /\ save' = [c \in Saves |-> Left(save[c])]
  /\ UNCHANGED row

-----------------------------------------------------------------------------
(* The fetch. *)

ServeFetch ==
  /\ fetch.stage = "sent"
  /\ \E got \in {Mailbox(url), Missing} : fetch' = [stage |-> "done", got |-> got]
  /\ UNCHANGED <<row, url, open, mailbox, save, crossed>>

\* A mailbox that could not be fetched is shown as missing, without its page.
FetchAnswer ==
  /\ fetch.stage = "done"
  /\ mailbox' = fetch.got
  /\ fetch' = NoFetch
  /\ IF fetch.got = Missing
       THEN open' = "none" /\ save' = PageGone
       ELSE UNCHANGED <<open, save>>
  /\ UNCHANGED <<row, url, crossed>>

-----------------------------------------------------------------------------
(* Saves. *)

\* The button waits while its save is under way, on this page.
Sends(c, s) ==
  /\ save[c] = NoSave
  /\ \A d \in UnderWay : save[d].tells = "page" => save[d].field # s.field
  /\ save' = [save EXCEPT ![c] = s]
  /\ crossed' = (crossed \/ UnderWay # {} \/ ~ Fetched)
  /\ UNCHANGED <<row, url, open, fetch, mailbox>>

Saving(field, b) == [NoSave EXCEPT !.stage = "sent", !.field = field, !.of = b, !.tells = "page"]

\* A name goes to the mailbox in the URL.
SaveName(c) ==
  /\ open = "overview" /\ mailbox # Missing
  /\ \E n \in Names \ {mailbox.name} : Sends(c, [Saving("name", url) EXCEPT !.name = n])

\* Suspending and activating goes to the mailbox that is shown.
ToggleStatus(c) ==
  /\ open = "overview" /\ mailbox # Missing
  /\ Sends(c, [Saving("status", mailbox.of) EXCEPT !.active = ~ mailbox.active])

\* The listing settings have a form of their own, which may be there before the
\* mailbox is.
SaveListing(c) ==
  /\ open = "listing" /\ (Fetched => mailbox # Missing)
  /\ \E n \in Names : Sends(c, [Saving("listing", url) EXCEPT !.name = n])

\* The mailbox, or row, m with the field of save s written.
Written(m, s) ==
  IF s.field = "status" THEN [m EXCEPT !.active = s.active] ELSE [m EXCEPT !.name = s.name]

Answered(s, stage, got) ==
  [NoSave EXCEPT !.stage = stage, !.field = s.field, !.tells = s.tells, !.got = got]

\* The handler reads the mailbox, and then writes one field of it.
ReadRow(c) ==
  /\ save[c].stage = "sent"
  /\ save' = [save EXCEPT ![c].stage = "read", ![c].got = Mailbox(save[c].of)]
  /\ UNCHANGED <<row, url, open, fetch, mailbox, crossed>>

\* It answers with what it has read, and the field; the answer may be lost.
WriteRow(c) ==
  LET s == save[c] IN
  /\ s.stage = "read"
  /\ row' = [row EXCEPT ![s.of] = Written(@, s)]
  /\ \/ save' = [save EXCEPT ![c] = Answered(s, "done", Written(s.got, s))] /\ UNCHANGED crossed
     \/ save' = [save EXCEPT ![c] = Answered(s, "failed", Missing)] /\ crossed' = TRUE
  /\ UNCHANGED <<url, open, fetch, mailbox>>

\* It is refused, or does not get there.
Refuse(c) ==
  /\ save[c].stage \in {"sent", "read"}
  /\ save' = [save EXCEPT ![c] = Answered(save[c], "failed", Missing)]
  /\ UNCHANGED <<row, url, open, fetch, mailbox, crossed>>

\* What becomes of a save whose layout is gone.
LeftSaveEnds(c) ==
  /\ save[c].stage = "left"
  /\ row' \in {row, [row EXCEPT ![save[c].of] = Written(@, save[c])]}
  /\ save' = [save EXCEPT ![c] = NoSave]
  /\ UNCHANGED <<url, open, fetch, mailbox, crossed>>

\* What an answer makes of the context: the mailbox it carries takes the place of
\* whatever is there; a listing changes the name of a mailbox that is there.
Updated(s) ==
  IF s.field # "listing" THEN s.got
  ELSE IF mailbox = Missing THEN mailbox
  ELSE [mailbox EXCEPT !.name = s.got.name]

\* (fault) an answer is only for the page that is waiting for it.
SaveAnswer_OnPage(c) ==
  LET s == save[c] IN
  /\ s.stage \in {"done", "failed"}
  /\ mailbox' = IF s.stage = "done" /\ s.tells = "page" THEN Updated(s) ELSE mailbox
  /\ save' = [save EXCEPT ![c] = NoSave]
  /\ UNCHANGED <<row, url, open, fetch, crossed>>

SaveAnswer(c) ==
  LET s == save[c] IN
  /\ s.stage \in {"done", "failed"}
  /\ mailbox' = IF s.stage = "done" THEN Updated(s) ELSE mailbox
  /\ save' = [save EXCEPT ![c] = NoSave]
  /\ UNCHANGED <<row, url, open, fetch, crossed>>

ContextNext ==
  \/ ServeFetch \/ FetchAnswer
  \/ \E p \in Pages : OpenPage(p)
  \/ \E b \in Boxes : Visit(b)
  \/ \E b \in Boxes, p \in Pages : Enter(b, p)
  \/ \E c \in Saves :
       \/ SaveName(c) \/ ToggleStatus(c) \/ SaveListing(c)
       \/ ReadRow(c) \/ WriteRow(c) \/ Refuse(c) \/ LeftSaveEnds(c) \/ SaveAnswer(c)

-----------------------------------------------------------------------------
\* Every page sees what was saved on another, also on one that was left before the
\* answer came: once nothing is under way, the context holds the mailbox of the URL
\* as the origin has it.  It fails only where two saves overlapped, each with an
\* answer that misses the other; where a save met a fetch, or the way to another
\* mailbox; or where it was stored and its answer lost.
ContextIsStored ==
  Fetched /\ UnderWay = {} /\ mailbox # Missing /\ ~ crossed => mailbox = Mailbox(url)

-----------------------------------------------------------------------------
(* The inductive invariant behind ContextIsStored. *)

RowType == [name : Names, active : BOOLEAN]
HeldType == [of : Boxes, name : Names, active : BOOLEAN] \cup {Missing}

SaveType == [stage : {"none", "sent", "read", "done", "failed", "left"},
             field : {"name", "status", "listing"},
             of : Boxes \cup {"missing"}, name : Names \cup {"missing"}, active : BOOLEAN,
             tells : {"page", "context"}, got : HeldType]

ContextTypes ==
  /\ row \in [Boxes -> RowType] /\ url \in Boxes
  /\ fetch \in [stage : {"none", "sent", "done"}, got : HeldType]
  /\ mailbox \in HeldType
  /\ save \in [Saves -> SaveType]
  /\ \A c \in Saves : save[c].stage \in {"sent", "read", "left"} =>
       save[c].of \in Boxes /\ (save[c].field # "status" => save[c].name \in Names)
  /\ \A c \in Saves : save[c].stage \in {"read", "done"} => save[c].got # Missing
  /\ crossed \in BOOLEAN

\* What is under way of save s, and what the context holds meanwhile.
InStep(s) ==
  /\ s.stage # "left"
  /\ s.stage # "done" => mailbox = Mailbox(url)
  /\ s.stage \in {"sent", "read"} => s.of = url
  /\ s.stage = "read" => s.got = Mailbox(url)
  /\ s.stage = "done" => Updated(s) = Mailbox(url)

\* Unless something crossed, a save is alone and finds the stored mailbox in the
\* context, and its answer makes it the stored one again.
ContextInv ==
  /\ ContextTypes
  /\ ~ crossed =>
       /\ ~ Fetched => UnderWay = {}
       /\ fetch.stage = "done" => fetch.got \in {Mailbox(url), Missing}
       /\ \A c, d \in UnderWay : c = d
       /\ \A c \in UnderWay : InStep(save[c])
       /\ ContextIsStored
=============================================================================
