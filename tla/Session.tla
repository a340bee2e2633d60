------------------------------ MODULE Session ------------------------------
(***************************************************************************)
(* The session check of a dashboard tab: beta/src/app/session.ts with the  *)
(* route guard and the sign-in page, and frontend/src/context/             *)
(* AuthContext.tsx with its protected routes.  A tab opens a page, asks    *)
(* GET /api/me who is signed in, through the edge worker                   *)
(* (cloudflare/edge), and tries again while the API does not answer.  The  *)
(* origin may sleep, and it may be up and in trouble.                      *)
(***************************************************************************)
EXTENDS Naturals

CONSTANT RetryDelays   \* waits before the API is called unreachable (three)

ASSUME RetryDelaysAssumption == RetryDelays \in Nat

VARIABLES
  api,         \* the origin behind the edge: "up", "down" or "waking"
  trouble,     \* what is wrong beside: "none", the "database", the "signature" by which
               \* the origin knows the edge, the "bindings" the edge needs
  app,         \* which dashboard the tab runs
  cookie,      \* the browser's cookie names a session the server knows
  customer,    \* the tab takes the person to be signed in
  view,        \* "opening" a page, on a "page", or at "login"
  check,       \* "none", "asking", "answered" or "paused"
  status,      \* HTTP status of the answer
  tries,       \* attempts that failed
  slowTimer,   \* runs until the check has taken SLOW_AFTER_MS
  connection,  \* what the overlay says: "ok" is nothing
  reason       \* history: why the tab may take the person to be signed out, since the
               \* page was loaded: the session is "gone", or "trouble", or "none"

sessionVars ==
  <<app, cookie, customer, view, check, status, tries, slowTimer, connection, reason>>

Troubles == {"none", "database", "signature", "bindings"}

-----------------------------------------------------------------------------
(* What the edge answers to GET /api/me. *)

\* requireSession answers 401 to a session it does not know, and to any error of
\* looking it up; the profile comes after that.  A request the edge has not signed
\* right, or too long ago, is refused before.
OriginStatuses(known) ==
  IF trouble = "signature" \/ ~ known THEN {401}
  ELSE IF trouble = "database" THEN {200, 401, 500}
  ELSE {200}

\* (fault) an origin that cannot be reached is reported as an unknown page.
EdgeStatuses_NotFound(known) ==
  IF trouble = "bindings" THEN {500} ELSE IF api = "up" THEN OriginStatuses(known) ELSE {404}

\* The origin's own answer, or 502 when its container does not give one.
EdgeStatuses(known) ==
  IF trouble = "bindings" THEN {500} ELSE IF api = "up" THEN OriginStatuses(known) ELSE {502}

\* The origin may refuse a session it knows.
Refusing == api = "up" /\ trouble \in {"database", "signature"}

\* No status at all: the network failed, or the attempt timed out.
NoAnswer == 0

\* Only a 4xx means signed out.
Refused(s) == 400 <= s /\ s < 500

-----------------------------------------------------------------------------
\* A check starts.
Asks ==
  /\ check' = "asking"
  /\ status' = NoAnswer
  /\ tries' = 0
  /\ slowTimer' = TRUE
  /\ connection' = "ok"

\* The whole page is loaded: nothing is known yet.
Loads(v) == Asks /\ customer' = FALSE /\ view' = v

SessionInit ==
  /\ app \in {"beta", "frontend"}
  /\ cookie \in BOOLEAN
  /\ customer = FALSE
  /\ view = "opening"
  /\ check = "asking"
  /\ status = NoAnswer
  /\ tries = 0
  /\ slowTimer = TRUE
  /\ connection = "ok"
  /\ reason = IF cookie THEN "none" ELSE "gone"

\* A tab whose check is over.
SessionAtRest ==
  /\ app = "beta" /\ cookie = TRUE /\ customer = TRUE /\ view = "page"
  /\ check = "none" /\ status = NoAnswer /\ tries = 0 /\ slowTimer = FALSE
  /\ connection = "ok" /\ reason = "none"

\* The attempt reaches the edge, or ends without an answer.
Answer ==
  /\ check = "asking"
  /\ check' = "answered"
  /\ status' \in EdgeStatuses(cookie)
                   \cup (IF api = "up" /\ trouble = "none" THEN {} ELSE {NoAnswer})
  /\ reason' = IF reason = "none" /\ Refusing THEN "trouble" ELSE reason
  /\ UNCHANGED <<app, cookie, customer, view, tries, slowTimer, connection>>

\* The check is over, whatever it found, and the overlay goes.
CheckOver ==
  check' = "none" /\ status' = NoAnswer /\ tries' = 0 /\ slowTimer' = FALSE /\ connection' = "ok"

SignedIn ==
  /\ check = "answered" /\ status = 200
  /\ customer' = TRUE
  /\ view' = "page"
  /\ CheckOver
  /\ UNCHANGED <<app, cookie, reason>>

\* To the sign-in page, which in beta checks once more.
SignedOut ==
  /\ check = "answered" /\ Refused(status)
  /\ customer' = FALSE
  /\ view' = "login"
  /\ IF app = "beta" /\ view = "opening" THEN Asks ELSE CheckOver
  /\ UNCHANGED <<app, cookie, reason>>

\* Anything else is the API starting up or down: wait, and ask again.
TryLater ==
  /\ check = "answered" /\ status # 200 /\ ~ Refused(status)
  /\ check' = "paused"
  /\ status' = NoAnswer
  /\ tries' = IF tries < RetryDelays THEN tries + 1 ELSE tries
  /\ connection' = IF tries >= RetryDelays THEN "unreachable" ELSE connection
  /\ UNCHANGED <<app, cookie, customer, view, slowTimer, reason>>

\* (fault) no attempt follows the last of the delays.
Wake_WhileDelaysLast ==
  /\ check = "paused" /\ tries < RetryDelays
  /\ check' = "asking"
  /\ UNCHANGED <<app, cookie, customer, view, status, tries, slowTimer, connection, reason>>

Wake ==
  /\ check = "paused"
  /\ check' = "asking"
  /\ UNCHANGED <<app, cookie, customer, view, status, tries, slowTimer, connection, reason>>

SlowAfter ==
  /\ slowTimer
  /\ slowTimer' = FALSE
  /\ connection' = IF connection = "ok" THEN "slow" ELSE connection
  /\ UNCHANGED <<app, cookie, customer, view, check, status, tries, reason>>

\* The overlay's button.  In beta it ends the pause and changes nothing about an
\* attempt under way; the other dashboard drops the attempt and starts over.
Retry ==
  /\ connection = "unreachable"
  /\ connection' = "slow"
  /\ IF app = "beta"
       THEN /\ check' = IF check = "paused" THEN "asking" ELSE check
            /\ UNCHANGED <<status, tries, slowTimer>>
       ELSE check' = "asking" /\ status' = NoAnswer /\ tries' = 0 /\ slowTimer' = TRUE
  /\ UNCHANGED <<app, cookie, customer, view, reason>>

-----------------------------------------------------------------------------
\* Beta forgets the person and loads the sign-in page whether or not the server
\* could be told; the other dashboard only does so when it could.
Logout ==
  /\ view = "page" /\ customer /\ check = "none"
  /\ \E told \in BOOLEAN, heard \in BOOLEAN :
       /\ told => api = "up" /\ trouble \notin {"signature", "bindings"}
       /\ heard => told
       /\ cookie' = (cookie /\ ~ told)
       /\ reason' = IF app = "beta" \/ told THEN "gone" ELSE reason
       /\ IF app = "beta"
            THEN Loads("login")
            ELSE /\ customer' = ~ heard
                 /\ view' = IF heard THEN "login" ELSE view
                 /\ UNCHANGED <<check, status, tries, slowTimer, connection>>
  /\ UNCHANGED app

\* Signing in goes by way of another site and comes back to a new page.
SignIn ==
  /\ view = "login" /\ check = "none" /\ api = "up" /\ trouble = "none"
  /\ cookie' = TRUE
  /\ reason' = "none"
  /\ Loads("opening")
  /\ UNCHANGED app

Reopen ==
  /\ check = "none"
  /\ Loads("opening")
  /\ reason' = IF cookie THEN "none" ELSE "gone"
  /\ UNCHANGED <<app, cookie>>

\* The session runs out, or is ended in another tab.
Expire ==
  /\ cookie
  /\ cookie' = FALSE
  /\ reason' = "gone"
  /\ UNCHANGED <<app, customer, view, check, status, tries, slowTimer, connection>>

CheckStep == Answer \/ SignedIn \/ SignedOut \/ TryLater \/ Wake
SessionNext == CheckStep \/ SlowAfter \/ Retry \/ Logout \/ SignIn \/ Reopen \/ Expire

-----------------------------------------------------------------------------
\* A person is taken to be signed out only when the session is gone, or the origin
\* was up and could not look it up, or did not accept the edge's word: never because
\* it slept, woke, timed out or failed otherwise, whatever was clicked meanwhile.
SentAwayOnlyWhenRefused == view = "login" => reason # "none"

\* session.ts and AuthContext.tsx: only a 4xx means signed out, and a failing API
\* does not send people with a valid session to the sign-in page.  Not a property of
\* the code, where a failing lookup of the session is answered by a 4xx.
ValidSessionKept == view = "login" => reason = "gone"

\* Once the origin stays up and well every check ends, however long it was down and
\* whatever the person clicked.
ChecksEnd == <>[](api = "up" /\ trouble = "none") => []<>(check = "none")

-----------------------------------------------------------------------------
(* The inductive invariant behind SentAwayOnlyWhenRefused. *)

SessionInv ==
  /\ status \in {NoAnswer, 200, 401, 500, 502}
  /\ reason \in {"none", "gone", "trouble"}
  /\ reason # "gone" => cookie
  /\ status = 401 => reason # "none"
  /\ SentAwayOnlyWhenRefused
=============================================================================
