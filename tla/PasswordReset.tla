---------------------------- MODULE PasswordReset ----------------------------
(***************************************************************************)
(* Links that set the password of a mailbox                                *)
(* (backend/internal/handlers/password_reset.go, db/password_reset.go),    *)
(* composed with the life of the mailboxes (Mailboxes.tla): a reset reads  *)
(* its token, its mailbox, calls the cluster by the mailbox's name and     *)
(* marks the token, four steps between which the mailbox may be deleted,   *)
(* its name taken again, and the same link used by another request.        *)
(***************************************************************************)
EXTENDS Mailboxes

CONSTANTS
  Tokens,       \* rows of password_reset_tokens
  Resets,       \* reset requests in flight at the same time
  ResetFaults,  \* what goes wrong with them in this instance
  NoToken,      \* no token
  MaxUses       \* (bound) a link is not followed again after this many uses

ASSUME ResetsAssumption == IsFiniteSet(Resets) /\ NoToken \notin Tokens
ASSUME MaxUsesAssumption == MaxUses \in Nat
ASSUME ResetFaultsAssumption == ResetFaults \subseteq {"call", "answer", "record"}

VARIABLES
  token,     \* password_reset_tokens
  step,      \* where each reset is
  held,      \* the token it works on
  known,     \* history: the mailboxes there were when it loaded its own
  uses,      \* history: how many times each token set a password
  unmarked   \* history: tokens that did and were not marked for it

resetVars == <<token, step, held, known, uses, unmarked>>
allVars == <<vars, resetVars>>

TokenType ==
  [state : {"unissued", "open", "used", "gone"}, id : Ids \cup {NoId}, expired : BOOLEAN]

ResetInit ==
  /\ Init
  /\ token = [t \in Tokens |-> [state |-> "unissued", id |-> NoId, expired |-> FALSE]]
  /\ step = [s \in Resets |-> "idle"]
  /\ held = [s \in Resets |-> NoToken]
  /\ known = [s \in Resets |-> {}]
  /\ uses = [t \in Tokens |-> 0]
  /\ unmarked = {}

-----------------------------------------------------------------------------
(* Mailboxes come and go; the tokens of a deleted one go with it.          *)
Cascade ==
  token' = [t \in Tokens |->
    IF token[t].id \in Ids /\ row'[token[t].id].status = "gone"
      THEN [token[t] EXCEPT !.state = "gone"] ELSE token[t]]

MailboxStep ==
  /\ Next
  /\ Cascade
  /\ UNCHANGED <<step, held, known, uses, unmarked>>

\* sendMailboxPasswordInvite: the token is stored, then the link is mailed.
Issue(t, i) ==
  /\ token[t].state = "unissued" /\ Live(i)
  /\ token' = [token EXCEPT ![t].state = "open", ![t].id = i]
  /\ UNCHANGED <<vars, step, held, known, uses, unmarked>>

\* The database's clock passes expires_at.
Lapse(t) ==
  /\ token[t].state = "open" /\ ~token[t].expired
  /\ token' = [token EXCEPT ![t].expired = TRUE]
  /\ UNCHANGED <<vars, step, held, known, uses, unmarked>>

-----------------------------------------------------------------------------
(* CompletePasswordReset.                                                  *)
Goes(s, to) == step' = [step EXCEPT ![s] = to]

End(s) ==
  /\ Goes(s, "idle")
  /\ held' = [held EXCEPT ![s] = NoToken]
  /\ known' = [known EXCEPT ![s] = {}]

\* GetValidPasswordResetToken.
Valid(t) == token[t].state = "open" /\ ~token[t].expired

Name(s) == row[token[held[s]].id].name

\* (fault) a token that was used is good until it expires.
BeginReset_UsedToo(s, t) ==
  /\ step[s] = "idle"
  /\ token[t].state \in {"open", "used"} /\ ~token[t].expired /\ uses[t] < MaxUses
  /\ Goes(s, "load")
  /\ held' = [held EXCEPT ![s] = t]
  /\ UNCHANGED <<vars, token, known, uses, unmarked>>

\* The link is followed.
BeginReset(s, t) ==
  /\ step[s] = "idle" /\ Valid(t) /\ uses[t] < MaxUses
  /\ Goes(s, "load")
  /\ held' = [held EXCEPT ![s] = t]
  /\ UNCHANGED <<vars, token, known, uses, unmarked>>

\* (fault) the row of a deleted mailbox is kept, and loaded.
LoadMailbox_DeletedToo(s) ==
  /\ step[s] = "load"
  /\ Goes(s, "call")
  /\ known' = [known EXCEPT ![s] = {i \in Ids : Live(i)}]
  /\ UNCHANGED <<vars, token, held, uses, unmarked>>

\* GetMailbox and GetDomainByID.
LoadMailbox(s) ==
  /\ step[s] = "load"
  /\ IF Live(token[held[s]].id)
       THEN /\ Goes(s, "call")
            /\ known' = [known EXCEPT ![s] = {i \in Ids : Live(i)}]
            /\ UNCHANGED held
       ELSE End(s)
  /\ UNCHANGED <<vars, token, uses, unmarked>>

PasswordSet(s) ==
  /\ account[Name(s)] # "none"
  /\ account' = [account EXCEPT ![Name(s)] = "open"]
  /\ uses' = [uses EXCEPT ![held[s]] = @ + 1]
  /\ UNCHANGED <<row, pc, job, todo, asked, loose, token>>

SetPassword(s) ==
  /\ step[s] = "call"
  /\ PasswordSet(s)
  /\ Goes(s, "mark")
  /\ UNCHANGED <<held, known, unmarked>>

\* There is no such account, or the call fails.
SetPasswordFails(s) ==
  /\ step[s] = "call"
  /\ account[Name(s)] = "none" \/ "call" \in ResetFaults
  /\ End(s)
  /\ UNCHANGED <<vars, token, uses, unmarked>>

PasswordAnswerLost(s) ==
  /\ step[s] = "call" /\ "answer" \in ResetFaults
  /\ PasswordSet(s)
  /\ unmarked' = unmarked \cup {held[s]}
  /\ End(s)

\* MarkPasswordResetTokenUsed: by id, whatever has become of the token.
MarkUsed(s) ==
  /\ step[s] = "mark"
  /\ token' = IF token[held[s]].state = "gone" THEN token
              ELSE [token EXCEPT ![held[s]].state = "used"]
  /\ End(s)
  /\ UNCHANGED <<vars, uses, unmarked>>

\* It fails, and the request succeeds all the same; or the server stops.
MarkFails(s) ==
  /\ step[s] = "mark" /\ "record" \in ResetFaults
  /\ unmarked' = unmarked \cup {held[s]}
  /\ End(s)
  /\ UNCHANGED <<vars, token, uses>>

ResetNext ==
  \/ MailboxStep
  \/ \E t \in Tokens : Lapse(t) \/ \E i \in Ids : Issue(t, i)
  \/ \E s \in Resets :
       \/ \E t \in Tokens : BeginReset(s, t)
       \/ LoadMailbox(s) \/ SetPassword(s) \/ SetPasswordFails(s) \/ PasswordAnswerLost(s)
       \/ MarkUsed(s) \/ MarkFails(s)

ResetSpec == ResetInit /\ [][ResetNext]_allVars

-----------------------------------------------------------------------------
(* Properties.                                                             *)

ResetTypeOK ==
  /\ token \in [Tokens -> TokenType]
  /\ \A t \in Tokens : token[t].state = "unissued" <=> token[t].id = NoId
  /\ step \in [Resets -> {"idle", "load", "call", "mark"}]
  /\ held \in [Resets -> Tokens \cup {NoToken}]
  /\ \A s \in Resets : step[s] # "idle" => held[s] \in Tokens
  /\ \A s \in Resets : step[s] # "idle" => token[held[s]].state # "unissued"
  /\ known \in [Resets -> SUBSET Ids]
  /\ uses \in [Tokens -> Nat]
  /\ unmarked \subseteq Tokens

\* A link sets a password no more often than requests have raced with it: once
\* one of them has ended, it is dead for those that come later; unless the
\* password was set and the token could not be marked (CompletePasswordReset).
RacedUses == \A t \in Tokens \ unmarked : uses[t] <= Cardinality(Resets)

\* "This link expires in 24 hours and can only be used once"
\* (sendMailboxPasswordInvite).
UsedOnce == \A t \in Tokens \ unmarked : uses[t] <= 1

\* A link never sets the password of a mailbox other than its own, unless its
\* own is deleted and the name taken again while the call is on its way: the
\* links of a deleted mailbox die with it (the foreign key's cascade and
\* GetMailbox), so the next holder of the name is out of their reach.
OwnPasswordOrNewer ==
  [][\A s \in Resets :
       step[s] = "call" /\ uses' # uses /\ step'[s] # "call" =>
         \A i \in known[s] : Live(i) /\ row[i].name = Name(s) => i = token[held[s]].id]_allVars

-----------------------------------------------------------------------------
(* The inductive invariant behind RacedUses: uses so far and uses to come   *)
(* are of different requests while the token is open, and when it is not    *)
(* no further request can begin.                                            *)

Racing(t) == {s \in Resets : held[s] = t /\ step[s] \in {"load", "call"}}
Marking(t) == {s \in Resets : held[s] = t /\ step[s] = "mark"}

UsesCounted ==
  \A t \in Tokens \ unmarked :
    /\ token[t].state \in {"unissued", "open"} => uses[t] = Cardinality(Marking(t))
    /\ uses[t] + Cardinality(Racing(t)) <= Cardinality(Resets)

ResetInv == ResetTypeOK /\ UsesCounted

-----------------------------------------------------------------------------
(* The inductive invariant behind OwnPasswordOrNewer, beside ResetInv.      *)

\* What was live when a reset loaded its mailbox has names that tell it apart for
\* good, its own mailbox among it.
KnownApart ==
  \A s \in Resets : step[s] = "call" =>
    /\ token[held[s]].id \in known[s]
    /\ \A i \in known[s] : row[i].status # "absent"
    /\ \A i, k \in known[s] : row[i].name = row[k].name => i = k

\* It rests on what holds of the mailboxes by themselves, which resets leave true.
OwnInv == IndInv /\ LiveUnique /\ KnownApart
=============================================================================
