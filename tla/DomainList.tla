----------------------------- MODULE DomainList -----------------------------
(***************************************************************************)
(* The list of domains a beta tab shares between its sidebar and its pages *)
(* (beta/src/app/domains.ts): the last list that was fetched, and on top   *)
(* of it the stars and the order the person has just changed, which are    *)
(* shown before the server has them and taken back when it refuses them.   *)
(***************************************************************************)
EXTENDS Naturals, FiniteSets

CONSTANTS
  Domains,   \* the domains of the list
  Edits,     \* changes that may be in flight together
  None       \* no list

\* A list is not None, and only a list with domains is edited.
ASSUME ListAssumption == None # "list" /\ Domains # {}

VARIABLES
  stored,    \* the server's list: its stars and which domain is first
  fetched,   \* the last list that was fetched, or None
  local,     \* the edited copy, or None
  edit,      \* changes on their way
  load,      \* the fetch under way; a newer one replaces it
  raced      \* history: what is shown may miss a change

listVars == <<stored, fetched, local, edit, load, raced>>

NoList == [is |-> None, stars |-> {}, first |-> None]
NoEdit == [stage |-> "none", star |-> {}, set |-> FALSE, first |-> None]
NoLoad == [stage |-> "none", got |-> NoList]

\* What is on the screen.
Shown == IF local # NoList THEN local ELSE fetched

\* A change: the stars of some domains, or the domain that comes first.
Changed(l, e) ==
  [l EXCEPT !.stars = IF e.set THEN @ \cup e.star ELSE @ \ e.star,
            !.first = IF e.first # None THEN e.first ELSE @]

InFlight == {c \in Edits : edit[c].stage # "none"}
Unserved == {c \in Edits : edit[c].stage = "sent"}
Loading == load.stage # "none"

\* Two changes of the same star, or of the order.
Clash(e, f) == (e.star \cap f.star) # {} \/ (e.first # None /\ f.first # None)

ListInit ==
  /\ stored = [is |-> "list", stars |-> {}, first |-> CHOOSE d \in Domains : TRUE]
  /\ fetched = NoList
  /\ local = NoList
  /\ edit = [c \in Edits |-> NoEdit]
  /\ load = [NoLoad EXCEPT !.stage = "sent"]
  /\ raced = FALSE

\* Reading the list again drops the fetch under way.
Reload ==
  /\ load' = [NoLoad EXCEPT !.stage = "sent"]
  /\ raced' = (Unserved # {})

\* A page asks for it: a domain was added or removed, or its status changed.
ReloadAsked ==
  /\ Reload
  /\ UNCHANGED <<stored, fetched, local, edit>>

\* setFavorite and setOrder: shown at once, then sent.
Change(c, e) ==
  /\ Shown # NoList
  /\ edit[c] = NoEdit
  /\ local' = Changed(Shown, e)
  /\ edit' = [edit EXCEPT ![c] = e]
  /\ raced' = (raced \/ Loading \/ \E d \in Unserved : Clash(e, edit[d]))
  /\ UNCHANGED <<stored, fetched, load>>

SetFavorite(c) ==
  \E d \in Domains :
    Change(c, [stage |-> "sent", star |-> {d}, set |-> d \notin Shown.stars, first |-> None])

SetOrder(c) ==
  \E d \in Domains \ {Shown.first} : Change(c, [stage |-> "sent", star |-> {}, set |-> TRUE, first |-> d])

\* The change is stored and answered, which does nothing more; or it is stored
\* and its answer lost; or it never arrives.
ServeEdit(c) ==
  /\ edit[c].stage = "sent"
  /\ \/ stored' = Changed(stored, edit[c]) /\ edit' = [edit EXCEPT ![c] = NoEdit]
     \/ /\ stored' \in {stored, Changed(stored, edit[c])}
        /\ edit' = [edit EXCEPT ![c] = [NoEdit EXCEPT !.stage = "failed"]]
  /\ UNCHANGED <<fetched, local, load, raced>>

\* (fault) the page keeps showing what could not be saved.
EditFailed_NotUndone(c) ==
  /\ edit[c].stage = "failed"
  /\ edit' = [edit EXCEPT ![c] = NoEdit]
  /\ UNCHANGED <<stored, fetched, local, load, raced>>

EditFailed(c) ==
  /\ edit[c].stage = "failed"
  /\ edit' = [edit EXCEPT ![c] = NoEdit]
  /\ Reload
  /\ UNCHANGED <<stored, fetched, local>>

ServeLoad ==
  /\ load.stage = "sent"
  /\ load' \in {[stage |-> "done", got |-> stored], [stage |-> "done", got |-> NoList]}
  /\ UNCHANGED <<stored, fetched, local, edit, raced>>

\* A list that was fetched, or could not be, takes the place of the edited copy.
LoadAnswer ==
  /\ load.stage = "done"
  /\ fetched' = load.got
  /\ local' = NoList
  /\ load' = NoLoad
  /\ UNCHANGED <<stored, edit, raced>>

ListNext ==
  \/ ReloadAsked \/ ServeLoad \/ LoadAnswer
  \/ \E c \in Edits : SetFavorite(c) \/ SetOrder(c) \/ ServeEdit(c) \/ EditFailed(c)

-----------------------------------------------------------------------------
\* Once nothing is under way the list on the screen is the stored one: what
\* could not be saved has been taken back, what could is not lost.  It fails
\* only where a change met a fetch under way, whose answer is older than the
\* change and takes its place, or where two changes of one thing crossed.
SettledListIsStored ==
  InFlight = {} /\ ~ Loading /\ Shown # NoList /\ ~ raced => Shown = stored

-----------------------------------------------------------------------------
(* The inductive invariant behind SettledListIsStored. *)

ListType == [is : {"list"}, stars : SUBSET Domains, first : Domains \cup {None}]

EditType == [stage : {"none", "sent", "failed"}, star : SUBSET Domains, set : BOOLEAN,
             first : Domains \cup {None}]

\* A list is the stored one with the changes on their way on top.
Ahead(l) ==
  /\ \A d \in Domains :
       (\A c \in Unserved : d \notin edit[c].star) => (d \in l.stars <=> d \in stored.stars)
  /\ \A c \in Unserved : \A d \in edit[c].star : d \in l.stars <=> edit[c].set
  /\ (\A c \in Unserved : edit[c].first = None) => l.first = stored.first
  /\ \A c \in Unserved : edit[c].first # None => l.first = edit[c].first

\* Unless something raced, a fetch under way met no change, and the changes on
\* their way are of different things; so what is shown runs ahead of the stored
\* list by just these changes until one of them fails, which starts a fetch.
ListInv ==
  /\ stored \in ListType
  /\ fetched \in ListType \cup {NoList} /\ local \in ListType \cup {NoList}
  /\ edit \in [Edits -> EditType]
  /\ load \in [stage : {"none", "sent", "done"}, got : ListType \cup {NoList}]
  /\ raced \in BOOLEAN
  /\ ~ raced => \A c, d \in Unserved : c # d => ~ Clash(edit[c], edit[d])
  /\ ~ raced /\ Loading => Unserved = {}
  /\ ~ raced /\ load.stage = "done" => load.got \in {stored, NoList}
  /\ ~ raced /\ ~ Loading /\ Shown # NoList /\ Unserved = InFlight => Ahead(Shown)
=============================================================================
