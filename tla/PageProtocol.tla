--------------------------- MODULE PageProtocol ---------------------------
(***************************************************************************)
(* The vocabulary in which the pages of the two dashboards (beta, Angular; *)
(* frontend, React) are described.  A page shows something of one thing,   *)
(* the mailbox or domain its URL names, or of the account; it loads it,    *)
(* offers operations on it, and does something with their answers.         *)
(*                                                                         *)
(*   app     which of the two dashboards it is a page of.                  *)
(*   about   "thing": the URL names a mailbox or a domain, and the router  *)
(*           keeps the component when only that name changes; "account":   *)
(*           there is only one.                                            *)
(*   loads   "switch": a load is dropped when the URL moves on (switchMap, *)
(*           an unsubscribed request); "follow": an effect starts another  *)
(*           and the earlier one still answers (useEffect without a        *)
(*           cleanup); "none": nothing is loaded.                          *)
(*   reload  what reading again after an operation does: "switch" replaces *)
(*           the reload before it, "blank" does and shows nothing          *)
(*           meanwhile, "await" is part of the operation and is not        *)
(*           replaced, "closure" is that for the thing the operation was   *)
(*           about, even if the page has moved, "empties" is "await" that  *)
(*           shows nothing when it fails.                                  *)
(*   rows    whether what it shows is a list of rows.                      *)
(*   again   whether a button reads it again.                              *)
(*   ops     the operations.                                               *)
(*                                                                         *)
(* An operation:                                                           *)
(*   kind    "save" replaces the content by what the form holds, "add"     *)
(*           and "drop" add and remove a row, "poke" changes the thing in  *)
(*           another way, "act" does something the page does not show,     *)
(*           "end" takes the thing away from the user.                     *)
(*   lock    the flag that is set while it runs ("none": there is none).   *)
(*   waits   whether its button is disabled while its flag is set.         *)
(*   needs   what must be on the screen: "nothing", the "content", or an   *)
(*           "edit" of it.                                                 *)
(*   dialog  "none", or the confirmation that is asked first: "plain",     *)
(*           "stays" (open when the operation fails), "typed" (the name of *)
(*           the thing must be typed).                                     *)
(*   aim     what the request names: the thing in the URL ("page") or the  *)
(*           one on the screen ("shown"), a row by its own identity        *)
(*           ("row"), a row of the thing in the URL ("rule"), or a         *)
(*           position in the list it was shown in ("index").               *)
(*   then    what its answer does: "show" puts the content it carries on   *)
(*           the screen, "keep" leaves the form as it is, "reload" reads   *)
(*           the page again, "always" does so after a failure too, "leave" *)
(*           navigates to another page.                                    *)
(***************************************************************************)

Save == [kind |-> "save", lock |-> "form", waits |-> TRUE, needs |-> "edit",
         dialog |-> "none", aim |-> "page", then |-> "show"]

Add == [Save EXCEPT !.kind = "add", !.needs = "nothing", !.then = "reload"]

Drop == [Save EXCEPT !.kind = "drop", !.lock = "row", !.needs = "content",
                     !.dialog = "plain", !.aim = "rule", !.then = "reload"]

Poke == [Save EXCEPT !.kind = "poke", !.lock = "other", !.needs = "content"]

End == [Save EXCEPT !.kind = "end", !.needs = "content", !.dialog = "plain",
                    !.then = "leave"]

\* A form that does something elsewhere and shows what came of it in its own
\* place, or goes to the list.
Result == [Add EXCEPT !.kind = "act", !.then = "keep"]
Leave == [Result EXCEPT !.then = "leave"]

\* The same operation without a flag of its own: it can be started again
\* while it runs.
Unlocked(op) == [op EXCEPT !.lock = "none", !.waits = FALSE]

Page == [app |-> "beta", about |-> "thing", loads |-> "switch", reload |-> "switch",
         rows |-> FALSE, again |-> FALSE, ops |-> {}]

\* A page of the React dashboard.
Follow == [Page EXCEPT !.app = "frontend", !.loads = "follow", !.reload = "closure"]

Form(page, ops) == [page EXCEPT !.ops = ops]
List(page, ops) == [page EXCEPT !.rows = TRUE, !.ops = ops]

\* A page that shows nothing it would have to load.
Bare(page, ops) == [page EXCEPT !.loads = "none", !.ops = ops]

\* A page about the account: its URL names no thing.
OfAccount(page) == [page EXCEPT !.about = "account"]

-----------------------------------------------------------------------------
(* What the properties take from the pages.                                *)

Kinds == {"save", "add", "drop", "poke", "act", "end"}
Aims == {"page", "shown", "row", "rule", "index"}

\* A form is saved without a question, and only when it shows something; rows
\* alone are found by their position or in the thing of the URL; a name is typed
\* for the thing in the URL; and an answer after which nothing is put on the
\* screen, or read again, is to an operation that leaves what is shown as it is.
Coherent(op, p) ==
  /\ op.kind \in Kinds /\ op.aim \in Aims
  /\ op.kind = "save" => op.dialog = "none" /\ op.needs # "nothing"
  /\ op.aim \in {"rule", "index"} => op.kind = "drop"
  /\ op.dialog = "typed" => op.aim = "page"
  /\ p.loads # "none" /\ op.then \notin {"show", "reload", "always", "leave"} =>
       op.kind \in {"save", "act", "end"} /\ (op.kind = "save" => op.then = "keep")

\* Pages that replace a reload by the next one read again after every change.
ReadsAgain(p) == p.rows /\ p.reload \in {"switch", "blank"}

CoherentPage(p) ==
  /\ \A op \in p.ops : Coherent(op, p)
  /\ ReadsAgain(p) /\ p.loads # "none" =>
       p.loads = "switch" /\ \A op \in p.ops : op.then \in {"reload", "always"}
=============================================================================
