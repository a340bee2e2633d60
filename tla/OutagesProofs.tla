---------------------------- MODULE OutagesProofs ----------------------------
(***************************************************************************)
(* What the clients of the origin keep through its outages, for any        *)
(* numbers of changes, messages, isolates, attempts and domains: the list  *)
(* of a tab settles on the stored one, a message is given up as done only  *)
(* when the domain is verified or gone, and only a refusal, deserved or    *)
(* not, sends a person to the sign-in page.                                *)
(***************************************************************************)
EXTENDS Outages, TLAPS

-----------------------------------------------------------------------------
(* The session check. *)

LEMMA SessionInitInv == Init => SessionInv
BY DEF Init, SessionInit, SessionAtRest, SessionInv, SentAwayOnlyWhenRefused, NoAnswer

LEMMA SessionNextInv == SessionInv /\ [Next]_vars => SessionInv'
<1> SUFFICES ASSUME SessionInv, [Next]_vars PROVE SessionInv'
  OBVIOUS
<1> USE DEF SessionInv, SentAwayOnlyWhenRefused, NoAnswer
<1>1. CASE SessionPart
  <2>1. SessionNext
    BY <1>1 DEF SessionPart
  <2>2. CASE Answer
    \* 401 is for a session that is gone, or from an origin that refuses.
    <3>1. /\ status' \in {NoAnswer, 200, 401, 500, 502}
          /\ status' = 401 => ~ cookie \/ Refusing
      BY <2>2 DEF Answer, EdgeStatuses, OriginStatuses, Refusing
    <3>2. /\ reason' = IF reason = "none" /\ Refusing THEN "trouble" ELSE reason
          /\ UNCHANGED <<cookie, view>>
      BY <2>2 DEF Answer
    <3>3. status' = 401 => reason' # "none"
      BY <3>1, <3>2
    <3> QED
      BY <3>1, <3>2, <3>3
  <2>3. CASE SignedIn \/ TryLater \/ Wake
    BY <2>3 DEF SignedIn, TryLater, Wake, CheckOver
  <2>4. CASE SignedOut
    <3>1. status = 401
      BY <2>4 DEF SignedOut, Refused
    <3> QED
      BY <2>4, <3>1 DEF SignedOut, CheckOver, Asks
  <2>5. CASE SlowAfter \/ Retry \/ Expire
    BY <2>5 DEF SlowAfter, Retry, Expire
  <2>6. CASE SignIn \/ Reopen
    BY <2>6 DEF SignIn, Reopen, Loads, Asks
  <2>7. CASE Logout
    <3>1. PICK told \in BOOLEAN, heard \in BOOLEAN :
            /\ heard => told
            /\ cookie' = (cookie /\ ~ told)
            /\ reason' = IF app = "beta" \/ told THEN "gone" ELSE reason
            /\ \/ app = "beta" /\ status' = NoAnswer
               \/ view' = (IF heard THEN "login" ELSE view) /\ status' = status
      BY <2>7 DEF Logout, Loads, Asks
    <3>2. CASE reason' = "gone"
      BY <3>1, <3>2
    <3>3. CASE reason' # "gone"
      <4>1. ~ told /\ ~ heard /\ app # "beta" /\ reason' = reason
        BY <3>1, <3>3
      <4>2. view' = view /\ status' = status
        BY <3>1, <4>1
      <4>3. cookie => cookie'
        BY <3>1, <4>1
      <4> QED
        BY <4>1, <4>2, <4>3
    <3> QED
      BY <3>2, <3>3
  <2> QED
    BY <2>1, <2>2, <2>3, <2>4, <2>5, <2>6, <2>7 DEF SessionNext, CheckStep
<1>2. CASE ~ SessionPart
  BY <1>2 DEF Next, vars, Origin, ListPart, ContextPart, QueuePart, WorkflowPart, sessionVars
<1> QED
  BY <1>1, <1>2

\* A person is taken to be signed out only when the session is gone, or the
\* origin was up and refused what it could not look up or did not trust: never
\* because it slept, woke, timed out or failed otherwise.
THEOREM SentAwayOnlyWhenRefusedCorrect == Spec => []SentAwayOnlyWhenRefused
<1>1. SessionInv => SentAwayOnlyWhenRefused
  BY DEF SessionInv
<1> QED
  BY <1>1, SessionInitInv, SessionNextInv, PTL DEF Spec

-----------------------------------------------------------------------------
(* The verification queue. *)

LEMMA QueueInitInv == Init => QueueInv
<1> SUFFICES ASSUME QueueInit PROVE QueueInv
  BY DEF Init
<1>1. /\ Unsent \in MessageType /\ Unsent.at = "producer"
      /\ NoDelivery \in DeliveryType /\ NoDelivery.stage = "none"
  BY DEF Unsent, MessageType, NoDelivery, DeliveryType
<1> QED
  BY <1>1 DEF QueueInit, QueueInv, FoundIsPublished, AckedIsVerified

\* A delivery that ends leaves every message as it was, or moves its own from
\* the queue to where it was sent.
LEMMA SettleKeeps ==
  ASSUME QueueInv, NEW m \in Messages, NEW a \in Attempts, NEW to \in {"queue", "acked", "dead"},
         NEW failed \in BOOLEAN, Settle(m, a, to, failed)
  PROVE  /\ message' \in [Messages -> MessageType]
         /\ delivery' \in [Messages \X Attempts -> DeliveryType]
         /\ \A ma \in Messages \X Attempts : delivery'[ma].stage \in {"none", delivery[ma].stage}
         /\ \A n \in Messages : message'[n].at \in {message[n].at, to}
<1>0. /\ message \in [Messages -> MessageType]
      /\ delivery \in [Messages \X Attempts -> DeliveryType]
      /\ <<m, a>> \in Messages \X Attempts
  BY DEF QueueInv
<1>1. NoDelivery \in DeliveryType /\ NoDelivery.stage = "none"
  BY DEF NoDelivery, DeliveryType
<1>2. /\ delivery' \in [Messages \X Attempts -> DeliveryType]
      /\ \A ma \in Messages \X Attempts : delivery'[ma].stage \in {"none", delivery[ma].stage}
  BY <1>0, <1>1 DEF Settle
<1>3. CASE message[m].at = "queue"
  <2>1. message' = [message EXCEPT ![m].at = to, ![m].failed = @ \/ failed]
    BY <1>3 DEF Settle
  <2>2. message' \in [Messages -> MessageType] /\ \A n \in Messages : message'[n].at \in {message[n].at, to}
    BY <1>0, <2>1 DEF MessageType
  <2> QED
    BY <1>2, <2>2
<1>4. CASE message[m].at # "queue"
  BY <1>0, <1>2, <1>4 DEF Settle
<1> QED
  BY <1>3, <1>4

LEMMA QueueStepInv ==
  ASSUME QueueInv, QueueNext
  PROVE  QueueInv'
<1>0. /\ record \in BOOLEAN /\ there \in BOOLEAN /\ verified \in BOOLEAN
      /\ verified => there
      /\ seen \in [Isolates -> {"nothing", "missing", "found"}]
      /\ message \in [Messages -> MessageType]
      /\ delivery \in [Messages \X Attempts -> DeliveryType]
      /\ FoundIsPublished
      /\ AckedIsVerified
  BY DEF QueueInv
<1>1. CASE Publish
  BY <1>0, <1>1 DEF Publish, QueueInv, FoundIsPublished, AckedIsVerified
<1>8. CASE DeleteDomain
  BY <1>0, <1>8 DEF DeleteDomain, QueueInv, FoundIsPublished, AckedIsVerified
<1>2. ASSUME NEW m \in Messages, Enqueue(m) PROVE QueueInv'
  <2>1. message' \in [Messages -> MessageType]
    BY <1>0, <1>2 DEF Enqueue, MessageType
  <2>2. \A n \in Messages : message'[n].at = "acked" => message[n].at = "acked"
    BY <1>0, <1>2 DEF Enqueue, MessageType
  <2> QED
    BY <1>0, <1>2, <2>1, <2>2 DEF Enqueue, QueueInv, FoundIsPublished, AckedIsVerified
<1>3. ASSUME NEW m \in Messages, NEW i \in Isolates, Deliver(m, i) PROVE QueueInv'
  <2>1. message' \in [Messages -> MessageType] /\ \A n \in Messages : message'[n].at = message[n].at
    BY <1>0, <1>3 DEF Deliver, MessageType
  <2> DEFINE d == [in |-> i, stage |-> IF seen[i] = "nothing" THEN "looking" ELSE seen[i]]
             k == <<m, message[m].attempts + 1>>
  <2>2. d \in DeliveryType /\ (d.stage = "found" => seen[i] = "found")
    BY <1>0 DEF DeliveryType
  <2>3. delivery' = [delivery EXCEPT ![k] = d]
    BY <1>3 DEF Deliver
  <2> HIDE DEF d, k
  <2>4. /\ delivery' \in [Messages \X Attempts -> DeliveryType]
        /\ \A ma \in Messages \X Attempts : delivery'[ma].stage = "found"
             => delivery[ma].stage = "found" \/ seen[i] = "found"
    BY <1>0, <2>2, <2>3
  <2> QED
    BY <1>0, <1>3, <2>1, <2>4 DEF Deliver, QueueInv, FoundIsPublished, AckedIsVerified
<1>4. ASSUME NEW m \in Messages, NEW a \in Attempts, Look(m, a) PROVE QueueInv'
  <2>1. PICK outcome \in {"missing"} \cup (IF record THEN {"found"} ELSE {}) :
          /\ delivery' = [delivery EXCEPT ![<<m, a>>].stage = outcome]
          /\ seen' = [seen EXCEPT ![delivery[<<m, a>>].in] = outcome]
          /\ message' = [message EXCEPT ![m].failed = @ \/ outcome = "missing"]
    BY <1>4 DEF Look
  <2>2. outcome \in {"missing", "found"} /\ (outcome = "found" => record) /\ <<m, a>> \in Messages \X Attempts
    BY <2>1
  <2>3. message' \in [Messages -> MessageType] /\ \A n \in Messages : message'[n].at = message[n].at
    BY <1>0, <2>1 DEF MessageType
  <2>4. seen' \in [Isolates -> {"nothing", "missing", "found"}]
    BY <1>0, <2>1, <2>2
  <2>5. delivery' \in [Messages \X Attempts -> DeliveryType]
    BY <1>0, <2>1, <2>2 DEF DeliveryType
  <2>6. CASE outcome = "found"
    BY <1>0, <1>4, <2>2, <2>3, <2>4, <2>5, <2>6 DEF Look, QueueInv, FoundIsPublished, AckedIsVerified
  <2>7. CASE outcome = "missing"
    <3>1. \A ma \in Messages \X Attempts : delivery'[ma].stage = "found" => delivery[ma].stage = "found"
      BY <1>0, <2>1, <2>2, <2>7 DEF DeliveryType
    <3>2. \A i \in Isolates : seen'[i] = "found" => seen[i] = "found"
      BY <1>0, <2>1, <2>7
    <3> QED
      BY <1>0, <1>4, <2>3, <2>4, <2>5, <3>1, <3>2
         DEF Look, QueueInv, FoundIsPublished, AckedIsVerified
  <2> QED
    BY <2>2, <2>6, <2>7
<1>5. ASSUME NEW m \in Messages, NEW a \in Attempts, NotYet(m, a) \/ Crash(m, a) PROVE QueueInv'
  <2>1. PICK failed \in BOOLEAN : Again(m, a, failed)
    BY <1>5 DEF NotYet, Crash
  <2>2. PICK to \in {"queue", "dead"} : Settle(m, a, to, failed)
    BY <2>1 DEF Again
  <2>3. UNCHANGED <<record, there, verified, seen>>
    BY <1>5 DEF NotYet, Crash
  <2>4. /\ message' \in [Messages -> MessageType]
        /\ delivery' \in [Messages \X Attempts -> DeliveryType]
        /\ \A ma \in Messages \X Attempts : delivery'[ma].stage \in {"none", delivery[ma].stage}
        /\ \A n \in Messages : message'[n].at \in {message[n].at, to}
    BY <2>2, SettleKeeps
  <2> QED
    BY <1>0, <2>2, <2>3, <2>4 DEF QueueInv, FoundIsPublished, AckedIsVerified
<1>6. ASSUME NEW m \in Messages, NEW a \in Attempts, Persist(m, a) PROVE QueueInv'
  <2>1. /\ record = TRUE
        /\ UNCHANGED <<record, there, seen>>
    BY <1>0, <1>6 DEF Persist, FoundIsPublished
  <2>2. PICK to \in {"queue", "dead", "acked"}, failed \in BOOLEAN :
          /\ Settle(m, a, to, failed)
          /\ verified' \in {verified, there}
          /\ to = "acked" => verified' = there
    BY <1>6 DEF Persist, Again
  <2>3. /\ message' \in [Messages -> MessageType]
        /\ delivery' \in [Messages \X Attempts -> DeliveryType]
        /\ \A n \in Messages : message'[n].at \in {message[n].at, to}
    BY <2>2, SettleKeeps
  <2>4. /\ verified' \in BOOLEAN /\ (verified' => there)
        /\ (verified => verified')
        /\ to = "acked" => verified' = there
    <3>1. CASE verified' = verified
      BY <1>0, <2>2, <3>1
    <3>2. CASE verified' = there
      BY <1>0, <3>2
    <3> QED
      BY <2>2, <3>1, <3>2
  <2>5. AckedIsVerified'
    BY <1>0, <2>1, <2>3, <2>4 DEF AckedIsVerified
  <2>6. FoundIsPublished' /\ record' \in BOOLEAN
    BY <2>1 DEF FoundIsPublished
  <2> QED
    BY <1>0, <2>1, <2>3, <2>4, <2>5, <2>6 DEF QueueInv
<1>7. ASSUME NEW i \in Isolates, Recycle(i) PROVE QueueInv'
  <2>1. /\ seen' \in [Isolates -> {"nothing", "missing", "found"}]
        /\ \A j \in Isolates : seen'[j] = "found" => seen[j] = "found"
    BY <1>0, <1>7 DEF Recycle
  <2> QED
    BY <1>0, <1>7, <2>1 DEF Recycle, QueueInv, FoundIsPublished, AckedIsVerified
<1> QED
  BY <1>1, <1>2, <1>3, <1>4, <1>5, <1>6, <1>7, <1>8 DEF QueueNext, QueueStep

LEMMA QueueNextInv == QueueInv /\ [Next]_vars => QueueInv'
<1> SUFFICES ASSUME QueueInv, [Next]_vars PROVE QueueInv'
  OBVIOUS
<1>1. CASE QueuePart
  BY <1>1, QueueStepInv DEF QueuePart
<1>2. CASE ~ QueuePart
  <2>1. UNCHANGED queueVars
    BY <1>2 DEF Next, vars, Origin, SessionPart, ListPart, ContextPart, WorkflowPart
  <2> QED
    BY <2>1 DEF queueVars, QueueInv, FoundIsPublished, AckedIsVerified
<1> QED
  BY <1>1, <1>2

THEOREM QueueInvCorrect == Spec => []QueueInv
BY QueueInitInv, QueueNextInv, PTL DEF Spec

\* A message is given up as done only when the origin has the domain verified,
\* or has no such domain any more, across deliveries of one message in two
\* isolates, lost answers and crashes.
THEOREM AckedIsVerifiedCorrect == Spec => []AckedIsVerified
<1>1. QueueInv => AckedIsVerified
  BY DEF QueueInv
<1> QED
  BY <1>1, QueueInvCorrect, PTL

\* The origin has a domain verified only when its record was published.
THEOREM VerifiedIsPublishedCorrect == Spec => []VerifiedIsPublished
<1>1. QueueInv => VerifiedIsPublished
  BY DEF QueueInv, FoundIsPublished, VerifiedIsPublished
<1> QED
  BY <1>1, QueueInvCorrect, PTL

-----------------------------------------------------------------------------
(* The domain list. *)

LEMMA ListInitInv == Init => ListInv
<1> SUFFICES ASSUME ListInit PROVE ListInv
  BY DEF Init
<1>1. stored \in ListType
  <2>1. (CHOOSE d \in Domains : TRUE) \in Domains
    BY ListAssumption
  <2> QED
    BY <2>1 DEF ListInit, ListType
<1>2. NoEdit \in EditType /\ NoEdit.stage = "none"
  BY DEF NoEdit, EditType
<1>3. edit \in [Edits -> EditType] /\ Unserved = {}
  BY <1>2 DEF ListInit, Unserved
<1>4. /\ load \in [stage : {"none", "sent", "done"}, got : ListType \cup {NoList}]
      /\ load.stage = "sent"
  BY DEF ListInit, NoLoad
<1> QED
  BY <1>1, <1>3, <1>4 DEF ListInit, ListInv, Loading

\* A change keeps a list a list, and so tells it from none.
LEMMA ChangedIsList ==
  ASSUME NEW l \in ListType, NEW e \in EditType
  PROVE  /\ Changed(l, e) \in ListType
         /\ Changed(l, e).stars = IF e.set THEN l.stars \cup e.star ELSE l.stars \ e.star
         /\ Changed(l, e).first = IF e.first # None THEN e.first ELSE l.first
<1>1. /\ l.stars \in SUBSET Domains /\ e.star \in SUBSET Domains
      /\ l.first \in Domains \cup {None} /\ e.first \in Domains \cup {None}
  BY DEF ListType, EditType
<1> DEFINE stars == IF e.set THEN l.stars \cup e.star ELSE l.stars \ e.star
           first == IF e.first # None THEN e.first ELSE l.first
<1>2. stars \in SUBSET Domains /\ first \in Domains \cup {None}
  BY <1>1
<1>3. Changed(l, e) = [l EXCEPT !.stars = stars, !.first = first]
  BY DEF Changed
<1> HIDE DEF stars, first
<1>4. Changed(l, e) \in ListType /\ Changed(l, e).stars = stars /\ Changed(l, e).first = first
  BY <1>2, <1>3 DEF ListType
<1> QED
  BY <1>4 DEF stars, first

LEMMA ListIsNotNone ==
  ASSUME NEW l \in ListType
  PROVE  l # NoList
BY ListAssumption DEF ListType, NoList

\* What the invariant says of the types.
ListTypes ==
  /\ stored \in ListType
  /\ fetched \in ListType \cup {NoList} /\ local \in ListType \cup {NoList}
  /\ edit \in [Edits -> EditType]
  /\ load \in [stage : {"none", "sent", "done"}, got : ListType \cup {NoList}]
  /\ raced \in BOOLEAN

\* The rest of it, for what is shown.
ListSound ==
  /\ ~ raced => \A c, d \in Unserved : c # d => ~ Clash(edit[c], edit[d])
  /\ ~ raced /\ Loading => Unserved = {}
  /\ ~ raced /\ load.stage = "done" => load.got \in {stored, NoList}
  /\ ~ raced /\ ~ Loading /\ Shown # NoList /\ Unserved = InFlight => Ahead(Shown)

LEMMA ListParts == ListInv <=> ListTypes /\ ListSound
BY DEF ListInv, ListTypes, ListSound

LEMMA ShownIsList ==
  ASSUME ListTypes, Shown # NoList
  PROVE  Shown \in ListType
BY DEF ListTypes, Shown

\* A new fetch: nothing is claimed of what is shown until it is answered.
LEMMA ReloadKeeps ==
  ASSUME ListTypes, Reload, UNCHANGED <<stored, fetched, local>>,
         edit' \in [Edits -> EditType], Unserved' = Unserved
  PROVE  ListInv'
<1>1. /\ load' \in [stage : {"none", "sent", "done"}, got : ListType \cup {NoList}]
      /\ load'.stage = "sent"
  BY DEF Reload, NoLoad
<1>2. raced' = (Unserved # {}) /\ raced' \in BOOLEAN
  BY DEF Reload
<1>3. Loading' /\ load'.stage # "done"
  BY <1>1 DEF Loading
<1> QED
  BY <1>1, <1>2, <1>3 DEF ListInv, ListTypes

\* A change is shown at once, and then it is one of those on their way.
LEMMA ChangeKeeps ==
  ASSUME ListInv, NEW c \in Edits, NEW e \in EditType, e.stage = "sent", Change(c, e)
  PROVE  ListInv'
<1>0. ListTypes /\ ListSound
  BY ListParts
<1>1. Shown \in ListType /\ Shown # NoList /\ edit[c].stage = "none"
  BY <1>0, ShownIsList DEF Change, NoEdit
<1>2. /\ local' = Changed(Shown, e) /\ local' \in ListType /\ local' # NoList
      /\ local'.stars = IF e.set THEN Shown.stars \cup e.star ELSE Shown.stars \ e.star
      /\ local'.first = IF e.first # None THEN e.first ELSE Shown.first
  BY <1>1, ChangedIsList, ListIsNotNone DEF Change
<1>3. Shown' = local'
  BY <1>2 DEF Shown
<1>4. /\ edit' \in [Edits -> EditType] /\ edit'[c] = e
      /\ \A d \in Edits \ {c} : edit'[d] = edit[d]
  BY <1>0 DEF Change, ListTypes
<1>5. Unserved' = Unserved \cup {c} /\ c \notin Unserved /\ InFlight' = InFlight \cup {c} /\ c \notin InFlight
  BY <1>1, <1>4 DEF Unserved, InFlight
<1>6. /\ raced' = (raced \/ Loading \/ \E d \in Unserved : Clash(e, edit[d]))
      /\ UNCHANGED <<stored, fetched, load>>
  BY DEF Change
<1>7. Loading' = Loading /\ raced' \in BOOLEAN
  BY <1>0, <1>6 DEF Loading, ListTypes
<1>8. ListTypes'
  BY <1>0, <1>2, <1>4, <1>6, <1>7 DEF ListTypes
<1>9. ASSUME ~ raced' PROVE ListSound'
  <2>1. ~ raced /\ ~ Loading /\ \A d \in Unserved : ~ Clash(e, edit[d])
    BY <1>0, <1>6, <1>9 DEF ListTypes
  <2>2. \A d \in Unserved : edit'[d] = edit[d] /\ d # c
    BY <1>4, <1>5 DEF Unserved
  <2>3. \A d, f \in Unserved' : d # f => ~ Clash(edit[d], edit[f])'
    <3>1. \A d, f \in Unserved : d # f => ~ Clash(edit'[d], edit'[f])
      BY <1>0, <2>1, <2>2 DEF ListSound
    <3>2. \A d \in Unserved : ~ Clash(e, edit'[d]) /\ ~ Clash(edit'[d], e)
      BY <2>1, <2>2 DEF Clash
    <3>3. \A d, f \in Unserved \cup {c} : d # f => ~ Clash(edit'[d], edit'[f])
      BY <1>4, <3>1, <3>2
    <3> QED
      BY <1>5, <3>3 DEF Clash
  <2>4. ~ Loading' /\ load'.stage # "done"
    BY <1>6, <1>7, <2>1 DEF Loading
  <2>5. ASSUME Unserved' = InFlight' PROVE Ahead(Shown)'
    <3>1. Unserved = InFlight
      BY <1>5, <2>5
    <3>2. Ahead(Shown)
      BY <1>0, <1>1, <2>1, <3>1 DEF ListSound
    <3> DEFINE l == local'
    <3>3. \A d \in Domains :
            (\A f \in Unserved \cup {c} : d \notin edit'[f].star) => (d \in l.stars <=> d \in stored.stars)
      BY <1>2, <1>4, <2>2, <3>2 DEF Ahead
    <3>4. \A f \in Unserved \cup {c} : \A d \in edit'[f].star : d \in l.stars <=> edit'[f].set
      <4>1. \A d \in e.star : d \in l.stars <=> e.set
        BY <1>2
      <4>2. \A f \in Unserved : \A d \in edit[f].star : d \in l.stars <=> edit[f].set
        BY <1>2, <2>1, <3>2 DEF Ahead, Clash
      <4> QED
        BY <1>4, <2>2, <4>1, <4>2
    <3>5. (\A f \in Unserved \cup {c} : edit'[f].first = None) => l.first = stored.first
      BY <1>2, <1>4, <2>2, <3>2 DEF Ahead
    <3>6. \A f \in Unserved \cup {c} : edit'[f].first # None => l.first = edit'[f].first
      BY <1>2, <1>4, <2>1, <2>2, <3>2 DEF Ahead, Clash
    <3> HIDE DEF l
    <3> QED
      BY <1>3, <1>5, <1>6, <3>3, <3>4, <3>5, <3>6 DEF Ahead, l
  <2> QED
    BY <2>3, <2>4, <2>5 DEF ListSound
<1>10. raced' => ListSound'
  BY DEF ListSound
<1> QED
  BY <1>7, <1>8, <1>9, <1>10 DEF ListInv, ListTypes, ListSound

\* A change that is stored leaves those on their way, and the stored list has it.
LEMMA ServeEditKeeps ==
  ASSUME ListInv, NEW c \in Edits, ServeEdit(c)
  PROVE  ListInv'
<1>0. ListTypes /\ ListSound
  BY ListParts
<1>1. /\ edit[c] \in EditType /\ edit[c].stage = "sent" /\ c \in Unserved
      /\ UNCHANGED <<fetched, local, load, raced>>
  BY <1>0 DEF ServeEdit, ListTypes, Unserved
<1>2. /\ Changed(stored, edit[c]) \in ListType
      /\ Changed(stored, edit[c]).stars
           = IF edit[c].set THEN stored.stars \cup edit[c].star ELSE stored.stars \ edit[c].star
      /\ Changed(stored, edit[c]).first = IF edit[c].first # None THEN edit[c].first ELSE stored.first
  BY <1>0, <1>1, ChangedIsList DEF ListTypes
<1>3. PICK n \in EditType :
        /\ edit' = [edit EXCEPT ![c] = n]
        /\ stored' \in {stored, Changed(stored, edit[c])}
        /\ \/ n.stage = "none" /\ stored' = Changed(stored, edit[c])
           \/ n.stage = "failed"
  <2>1. NoEdit \in EditType /\ NoEdit.stage = "none"
    BY DEF NoEdit, EditType
  <2>2. [NoEdit EXCEPT !.stage = "failed"] \in EditType /\ [NoEdit EXCEPT !.stage = "failed"].stage = "failed"
    BY DEF NoEdit, EditType
  <2> QED
    BY <2>1, <2>2 DEF ServeEdit
<1>4. /\ edit' \in [Edits -> EditType] /\ edit'[c] = n
      /\ \A d \in Edits \ {c} : edit'[d] = edit[d]
  BY <1>0, <1>3 DEF ListTypes
<1>5. /\ Unserved' = Unserved \ {c}
      /\ n.stage = "none" => InFlight' = InFlight \ {c}
      /\ n.stage = "failed" => c \in InFlight'
  BY <1>1, <1>3, <1>4 DEF Unserved, InFlight
<1>6. ListTypes'
  BY <1>0, <1>1, <1>2, <1>3, <1>4 DEF ListTypes
<1>7. Loading' = Loading /\ Shown' = Shown
  BY <1>1 DEF Loading, Shown
<1>8. ASSUME ~ raced' PROVE ListSound'
  <2>1. ~ raced /\ ~ Loading /\ load'.stage # "done"
    BY <1>0, <1>1, <1>8 DEF ListSound, Loading
  <2>2. \A d \in Unserved \ {c} : edit'[d] = edit[d] /\ ~ Clash(edit[c], edit[d])
    BY <1>0, <1>1, <1>4, <2>1 DEF ListSound, Unserved
  <2>3. \A d, f \in Unserved' : d # f => ~ Clash(edit[d], edit[f])'
    <3>1. \A d, f \in Unserved \ {c} : d # f => ~ Clash(edit'[d], edit'[f])
      BY <1>0, <2>1, <2>2 DEF ListSound
    <3> QED
      BY <1>5, <3>1 DEF Clash
  <2>4. ASSUME Shown' # NoList', Unserved' = InFlight' PROVE Ahead(Shown)'
    <3>1. n.stage = "none" /\ stored' = Changed(stored, edit[c])
      BY <1>3, <1>5, <2>4
    <3>2. Unserved = InFlight
      BY <1>1, <1>5, <2>4, <3>1 DEF Unserved, InFlight
    <3>3. Shown # NoList
      BY <1>7, <2>4 DEF NoList
    <3>4. Ahead(Shown)
      BY <1>0, <2>1, <3>2, <3>3 DEF ListSound
    <3> DEFINE l == Shown
    <3>5. \A d \in Domains :
            (\A f \in Unserved \ {c} : d \notin edit'[f].star) => (d \in l.stars <=> d \in stored'.stars)
      BY <1>1, <1>2, <2>2, <3>1, <3>4 DEF Ahead
    <3>6. \A f \in Unserved \ {c} : \A d \in edit'[f].star : d \in l.stars <=> edit'[f].set
      BY <2>2, <3>4 DEF Ahead
    <3>7. (\A f \in Unserved \ {c} : edit'[f].first = None) => l.first = stored'.first
      BY <1>1, <1>2, <2>2, <3>1, <3>4 DEF Ahead
    <3>8. \A f \in Unserved \ {c} : edit'[f].first # None => l.first = edit'[f].first
      BY <2>2, <3>4 DEF Ahead
    <3> HIDE DEF l
    <3> QED
      BY <1>5, <1>7, <3>5, <3>6, <3>7, <3>8 DEF Ahead, l
  <2> QED
    BY <1>7, <2>1, <2>3, <2>4 DEF ListSound
<1>9. raced' => ListSound'
  BY DEF ListSound
<1> QED
  BY <1>6, <1>8, <1>9 DEF ListInv, ListTypes, ListSound

LEMMA ListStepInv ==
  ASSUME ListInv, ListNext
  PROVE  ListInv'
<1>0. ListTypes /\ ListSound
  BY ListParts
<1>1. CASE ReloadAsked
  BY <1>0, <1>1, ReloadKeeps DEF ReloadAsked, ListTypes, Unserved
<1>2. CASE ServeLoad
  <2>1. PICK got \in {stored, NoList} : load' = [stage |-> "done", got |-> got]
    BY <1>2 DEF ServeLoad
  <2>2. /\ load' \in [stage : {"none", "sent", "done"}, got : ListType \cup {NoList}]
        /\ load'.stage = "done" /\ load'.got \in {stored, NoList}
    BY <1>0, <2>1 DEF ListTypes
  <2>3. Loading /\ Loading' /\ UNCHANGED <<stored, fetched, local, edit, raced>>
    BY <1>2, <2>2 DEF ServeLoad, Loading
  <2>4. Unserved' = Unserved
    BY <2>3 DEF Unserved
  <2>5. NoList' = NoList
    BY DEF NoList
  <2> QED
    BY <1>0, <2>2, <2>3, <2>4, <2>5 DEF ListInv, ListTypes, ListSound, Clash
<1>3. CASE LoadAnswer
  <2>1. /\ fetched' = load.got /\ local' = NoList /\ load.stage = "done"
        /\ load.got \in ListType \cup {NoList}
        /\ UNCHANGED <<stored, edit, raced>>
    BY <1>0, <1>3 DEF LoadAnswer, ListTypes
  <2>2. load' \in [stage : {"none", "sent", "done"}, got : ListType \cup {NoList}] /\ load'.stage = "none"
    BY <1>3 DEF LoadAnswer, NoLoad
  <2>3. NoList' = NoList /\ Unserved' = Unserved
    BY <2>1 DEF NoList, Unserved
  <2>4. Shown' = load.got /\ ~ Loading' /\ Loading
    BY <2>1, <2>2, <2>3 DEF Shown, Loading
  <2>5. ASSUME ~ raced', Shown' # NoList' PROVE Ahead(Shown)'
    <3>1. Unserved = {} /\ load.got = stored
      BY <1>0, <2>1, <2>3, <2>4, <2>5 DEF ListSound
    <3>2. Unserved' = {} /\ Shown' = stored'
      BY <2>1, <2>3, <2>4, <3>1
    <3> QED
      BY <3>2 DEF Ahead
  <2>6. ~ raced' => \A c, d \in Unserved' : c # d => ~ Clash(edit[c], edit[d])'
    BY <1>0, <2>1, <2>3 DEF ListSound, Clash
  <2>7. ListTypes'
    BY <1>0, <2>1, <2>2, <2>3 DEF ListTypes
  <2> QED
    BY <2>2, <2>4, <2>5, <2>6, <2>7 DEF ListInv, ListTypes
<1>4. ASSUME NEW c \in Edits, SetFavorite(c) PROVE ListInv'
  <2>1. PICK d \in Domains :
          Change(c, [stage |-> "sent", star |-> {d}, set |-> d \notin Shown.stars, first |-> None])
    BY <1>4 DEF SetFavorite
  <2> DEFINE e == [stage |-> "sent", star |-> {d}, set |-> d \notin Shown.stars, first |-> None]
  <2>2. e \in EditType /\ e.stage = "sent"
    BY <2>1 DEF EditType
  <2>3. Change(c, e)
    BY <2>1
  <2> HIDE DEF e
  <2> QED
    BY <2>2, <2>3, ChangeKeeps
<1>5. ASSUME NEW c \in Edits, SetOrder(c) PROVE ListInv'
  <2>1. PICK d \in Domains :
          Change(c, [stage |-> "sent", star |-> {}, set |-> TRUE, first |-> d])
    BY <1>5 DEF SetOrder
  <2> DEFINE e == [stage |-> "sent", star |-> {}, set |-> TRUE, first |-> d]
  <2>2. e \in EditType /\ e.stage = "sent"
    BY <2>1 DEF EditType
  <2>3. Change(c, e)
    BY <2>1
  <2> HIDE DEF e
  <2> QED
    BY <2>2, <2>3, ChangeKeeps
<1>6. ASSUME NEW c \in Edits, ServeEdit(c) PROVE ListInv'
  BY <1>6, ServeEditKeeps
<1>7. ASSUME NEW c \in Edits, EditFailed(c) PROVE ListInv'
  <2>1. NoEdit \in EditType /\ NoEdit.stage = "none"
    BY DEF NoEdit, EditType
  <2>2. edit' \in [Edits -> EditType] /\ Unserved' = Unserved
    BY <1>0, <1>7, <2>1 DEF EditFailed, ListTypes, Unserved
  <2> QED
    BY <1>0, <1>7, <2>2, ReloadKeeps DEF EditFailed
<1> QED
  BY <1>1, <1>2, <1>3, <1>4, <1>5, <1>6, <1>7 DEF ListNext

LEMMA ListNextInv == ListInv /\ [Next]_vars => ListInv'
<1> SUFFICES ASSUME ListInv, [Next]_vars PROVE ListInv'
  OBVIOUS
<1>1. CASE ListPart
  BY <1>1, ListStepInv DEF ListPart
<1>2. CASE ~ ListPart
  <2>1. UNCHANGED <<stored, fetched, local, edit, load, raced>>
    BY <1>2 DEF Next, vars, Origin, SessionPart, ContextPart, QueuePart, WorkflowPart, listVars
  <2>2. /\ Unserved' = Unserved /\ InFlight' = InFlight /\ Loading' = Loading
        /\ Shown' = Shown /\ NoList' = NoList
    BY <2>1 DEF Unserved, InFlight, Loading, Shown, NoList
  <2>3. Ahead(Shown) => Ahead(Shown)'
    BY <2>1, <2>2 DEF Ahead
  <2>4. ListTypes' /\ ListSound'
    BY <2>1, <2>2, <2>3, ListParts DEF ListTypes, ListSound, Clash
  <2> QED
    BY <2>4 DEF ListInv, ListTypes, ListSound
<1> QED
  BY <1>1, <1>2

\* What is shown runs ahead of the stored list by the changes on their way.
THEOREM ListInvCorrect == Spec => []ListInv
BY ListInitInv, ListNextInv, PTL DEF Spec

\* With nothing on its way, running ahead is being the same list.
LEMMA ListInvSettled == ListInv => SettledListIsStored
<1> SUFFICES ASSUME ListInv, InFlight = {}, ~ Loading, Shown # NoList, ~ raced
             PROVE  Shown = stored
  BY DEF SettledListIsStored
<1>1. ListTypes /\ Shown \in ListType /\ stored \in ListType
  BY ListParts, ShownIsList DEF ListTypes
<1>2. Unserved = {}
  BY DEF Unserved, InFlight
<1>3. Ahead(Shown)
  BY <1>2, ListParts DEF ListSound
<1>4. \A d \in Domains : d \in Shown.stars <=> d \in stored.stars
  BY <1>2, <1>3 DEF Ahead
<1>5. Shown.first = stored.first
  BY <1>2, <1>3 DEF Ahead
<1>6. PICK l \in ListType : l = Shown
  BY <1>1
<1>7. l.stars = stored.stars /\ l.first = stored.first /\ l.is = stored.is
  BY <1>1, <1>4, <1>5, <1>6 DEF ListType
<1>8. l = stored
  BY <1>1, <1>7 DEF ListType
<1> QED
  BY <1>6, <1>8

\* Once nothing is under way the list on the screen is the stored one, unless a
\* change met a fetch under way or two changes of one thing crossed.
THEOREM SettledListIsStoredCorrect == Spec => []SettledListIsStored
BY ListInvCorrect, ListInvSettled, PTL

-----------------------------------------------------------------------------
(* The shared mailbox. *)

\* What the invariant says once nothing has crossed.
ContextSound ==
  ~ crossed =>
    /\ ~ Fetched => UnderWay = {}
    /\ fetch.stage = "done" => fetch.got \in {Mailbox(url), Missing}
    /\ \A c, d \in UnderWay : c = d
    /\ \A c \in UnderWay : InStep(save[c])
    /\ ContextIsStored

LEMMA ContextParts == ContextInv <=> ContextTypes /\ ContextSound
BY DEF ContextInv, ContextSound

LEMMA NothingHeld ==
  /\ Missing \in HeldType
  /\ NoSave \in SaveType /\ NoSave.stage = "none"
  /\ NoFetch \in [stage : {"none", "sent", "done"}, got : HeldType] /\ NoFetch.stage = "none"
  /\ Fetching \in [stage : {"none", "sent", "done"}, got : HeldType] /\ Fetching.stage = "sent"
<1>1. Missing \in HeldType
  BY DEF HeldType
<1>2. NoSave \in SaveType /\ NoSave.stage = "none"
  BY <1>1 DEF NoSave, SaveType
<1>3. /\ NoFetch \in [stage : {"none", "sent", "done"}, got : HeldType]
      /\ NoFetch.stage = "none"
  BY <1>1 DEF NoFetch
<1>4. /\ Fetching \in [stage : {"none", "sent", "done"}, got : HeldType]
      /\ Fetching.stage = "sent"
  BY <1>3 DEF Fetching
<1> QED
  BY <1>1, <1>2, <1>3, <1>4

\* A row makes a mailbox, which is told from none.
LEMMA MailboxIsHeld ==
  ASSUME ContextTypes, NEW b \in Boxes
  PROVE  /\ Mailbox(b) \in HeldType /\ Mailbox(b) # Missing
         /\ Mailbox(b) \in [of : Boxes, name : Names, active : BOOLEAN]
<1>1. row[b] \in RowType
  BY DEF ContextTypes
<1>2. Mailbox(b) \in [of : Boxes, name : Names, active : BOOLEAN]
  BY <1>1 DEF Mailbox, RowType
<1>3. Mailbox(b).of = b /\ Missing.of = "missing" /\ b # "missing"
  BY ContextAssumption DEF Mailbox, Missing
<1> QED
  BY <1>2, <1>3 DEF HeldType

\* Writing one field of a mailbox, or of a row, leaves it one.
LEMMA WrittenIsHeld ==
  ASSUME NEW s \in SaveType, s.field # "status" => s.name \in Names
  PROVE  /\ \A m \in HeldType \ {Missing} :
               Written(m, s) \in HeldType /\ Written(m, s) # Missing
         /\ \A r \in RowType : Written(r, s) \in RowType
<1>1. s.active \in BOOLEAN
  BY DEF SaveType
<1>2. ASSUME NEW m \in HeldType \ {Missing}
      PROVE  Written(m, s) \in HeldType /\ Written(m, s) # Missing
  <2>1. m \in [of : Boxes, name : Names, active : BOOLEAN]
    BY DEF HeldType
  <2>2. Written(m, s) \in [of : Boxes, name : Names, active : BOOLEAN]
    BY <1>1, <2>1 DEF Written
  <2>3. Written(m, s).of \in Boxes /\ Missing.of = "missing"
    BY <2>2 DEF Missing
  <2> QED
    BY <2>2, <2>3, ContextAssumption DEF HeldType
<1>3. ASSUME NEW r \in RowType PROVE Written(r, s) \in RowType
  BY <1>1 DEF Written, RowType
<1> QED
  BY <1>2, <1>3

LEMMA ContextInitInv == Init => ContextInv
<1> SUFFICES ASSUME ContextInit PROVE ContextInv
  BY DEF Init, ContextAtRest
<1>1. ContextTypes
  BY NothingHeld DEF ContextInit, ContextTypes, RowType
<1>2. UnderWay = {} /\ ~ Fetched /\ fetch.stage # "done"
  BY NothingHeld DEF ContextInit, UnderWay, Fetched
<1> QED
  BY <1>1, <1>2 DEF ContextInv, ContextIsStored

\* Moving about changes whom a save tells, or starts over.
LEMMA MoveKeeps ==
  ASSUME ContextInv,
         \/ \E p \in Pages : OpenPage(p)
         \/ \E b \in Boxes : Visit(b)
         \/ \E b \in Boxes, p \in Pages : Enter(b, p)
  PROVE  ContextInv'
<1>0. ContextTypes /\ ContextSound /\ save \in [Saves -> SaveType]
  BY ContextParts DEF ContextTypes
<1>1. ASSUME NEW p \in Pages, OpenPage(p) PROVE ContextInv'
  <2>1. /\ save' = PageGone
        /\ UNCHANGED <<row, url, fetch, mailbox, crossed>>
    BY <1>1 DEF OpenPage
  <2>2. /\ save' \in [Saves -> SaveType]
        /\ \A c \in Saves : /\ save'[c].stage = save[c].stage /\ save'[c].field = save[c].field
                            /\ save'[c].of = save[c].of /\ save'[c].name = save[c].name
                            /\ save'[c].got = save[c].got
    BY <1>0, <2>1 DEF PageGone, SaveType
  <2>3. UnderWay' = UnderWay
    BY <2>2 DEF UnderWay
  <2>4. ContextTypes'
    BY <1>0, <2>1, <2>2 DEF ContextTypes
  <2>5. \A c \in UnderWay : InStep(save[c]) => InStep(save[c])'
    BY <2>1, <2>2 DEF InStep, Updated, Mailbox, UnderWay, Missing
  <2> QED
    BY <1>0, <2>1, <2>3, <2>4, <2>5, ContextParts
       DEF ContextInv, ContextSound, ContextIsStored, Fetched, Mailbox, Missing
<1>2. ASSUME NEW b \in Boxes, url' = b, Fetches, UNCHANGED row,
             save' \in [Saves -> SaveType],
             \A c \in Saves : save'[c].stage \in {"sent", "read", "left"} =>
               save'[c].of \in Boxes /\ (save'[c].field # "status" => save'[c].name \in Names),
             \A c \in Saves : save'[c].stage \in {"read", "done"} => save'[c].got # Missing,
             UnderWay = {} => UnderWay' = {}
      PROVE  ContextInv'
  <2>1. /\ fetch' = Fetching /\ mailbox' = Missing /\ crossed' = (UnderWay # {})
        /\ Missing' = Missing
    BY <1>2 DEF Fetches, Missing
  <2>2. ContextTypes'
    BY <1>0, <1>2, <2>1, NothingHeld DEF ContextTypes
  <2>3. ~ Fetched' /\ fetch'.stage # "done"
    BY <2>1, NothingHeld DEF Fetched
  <2> QED
    BY <1>2, <2>1, <2>2, <2>3 DEF ContextInv, ContextIsStored
<1>3. ASSUME NEW b \in Boxes, Visit(b) PROVE ContextInv'
  <2>1. UNCHANGED save /\ url' = b /\ Fetches /\ UNCHANGED row
    BY <1>3 DEF Visit
  <2>2. UnderWay' = UnderWay
    BY <2>1 DEF UnderWay
  <2> QED
    BY <1>0, <1>2, <2>1, <2>2 DEF ContextTypes
<1>4. ASSUME NEW b \in Boxes, NEW p \in Pages, Enter(b, p) PROVE ContextInv'
  <2>1. save' = [c \in Saves |-> Left(save[c])] /\ url' = b /\ Fetches /\ UNCHANGED row
    BY <1>4 DEF Enter
  <2>2. ASSUME NEW s \in SaveType
        PROVE  /\ Left(s) \in SaveType /\ Left(s).stage \in {"none", "left"}
               /\ Left(s).stage # "none" =>
                    /\ s.stage \in {"sent", "read", "left"}
                    /\ Left(s).of = s.of /\ Left(s).field = s.field /\ Left(s).name = s.name
    <3>1. CASE s.stage \in {"sent", "read", "left"}
      BY <3>1, NothingHeld DEF Left, SaveType
    <3>2. CASE s.stage \notin {"sent", "read", "left"}
      BY <3>2, NothingHeld DEF Left
    <3> QED
      BY <3>1, <3>2
  <2>3. \A c \in Saves : save[c] \in SaveType /\ save'[c] = Left(save[c])
    BY <1>0, <2>1
  <2>4. save' \in [Saves -> SaveType]
    BY <2>1, <2>2, <2>3
  <2>5. UnderWay = {} => UnderWay' = {}
    BY <2>2, <2>3 DEF UnderWay
  <2>6. \A c \in Saves : save'[c].stage \in {"sent", "read", "left"} =>
          save'[c].of \in Boxes /\ (save'[c].field # "status" => save'[c].name \in Names)
    BY <1>0, <2>2, <2>3 DEF ContextTypes
  <2>7. \A c \in Saves : save'[c].stage \notin {"read", "done"}
    BY <2>2, <2>3
  <2> QED
    BY <1>2, <2>1, <2>4, <2>5, <2>6, <2>7
<1> QED
  BY <1>1, <1>3, <1>4

\* While the context is fetched nothing crosses unless a save is under way.
LEMMA FetchKeeps ==
  ASSUME ContextInv, ServeFetch \/ FetchAnswer
  PROVE  ContextInv'
<1>0. ContextTypes /\ ContextSound
  BY ContextParts
<1>1. CASE ServeFetch
  <2>1. PICK got \in {Mailbox(url), Missing} : fetch' = [stage |-> "done", got |-> got]
    BY <1>1 DEF ServeFetch
  <2>2. got \in HeldType
    BY <1>0, <2>1, MailboxIsHeld, NothingHeld DEF ContextTypes
  <2>3. /\ ~ Fetched /\ ~ Fetched'
        /\ fetch' \in [stage : {"none", "sent", "done"}, got : HeldType] /\ fetch'.got = got
        /\ UNCHANGED <<row, url, open, mailbox, save, crossed>>
    BY <1>1, <2>1, <2>2 DEF ServeFetch, Fetched
  <2>4. ContextTypes'
    BY <1>0, <2>3 DEF ContextTypes, Missing
  <2>5. UnderWay' = UnderWay /\ Mailbox(url)' = Mailbox(url) /\ Missing' = Missing
    BY <2>3 DEF UnderWay, Mailbox, Missing
  <2> QED
    BY <1>0, <2>1, <2>3, <2>4, <2>5 DEF ContextInv, ContextSound, ContextIsStored
<1>2. CASE FetchAnswer
  <2>1. /\ fetch.stage = "done" /\ mailbox' = fetch.got /\ fetch' = NoFetch
        /\ save' \in {save, PageGone} /\ UNCHANGED <<row, url, crossed>>
    BY <1>2 DEF FetchAnswer
  <2>2. /\ save' \in [Saves -> SaveType]
        /\ \A c \in Saves : /\ save'[c].stage = save[c].stage /\ save'[c].field = save[c].field
                            /\ save'[c].of = save[c].of /\ save'[c].name = save[c].name
                            /\ save'[c].got = save[c].got
    <3>0. save \in [Saves -> SaveType]
      BY <1>0 DEF ContextTypes
    <3>1. CASE save' = save
      BY <3>0, <3>1
    <3>2. CASE save' = PageGone
      BY <3>0, <3>2 DEF PageGone, SaveType
    <3> QED
      BY <2>1, <3>1, <3>2
  <2>3. ContextTypes'
    <3>1. mailbox' \in HeldType
      BY <1>0, <2>1 DEF ContextTypes
    <3> QED
      BY <1>0, <2>1, <2>2, <3>1, NothingHeld DEF ContextTypes, Missing
  <2>4. UnderWay' = UnderWay /\ ~ Fetched /\ Fetched' /\ fetch'.stage # "done"
    BY <2>1, <2>2, NothingHeld DEF UnderWay, Fetched
  <2>5. Mailbox(url)' = Mailbox(url) /\ Missing' = Missing
    BY <2>1 DEF Mailbox, Missing
  <2>6. ASSUME ~ crossed' PROVE UnderWay' = {} /\ mailbox' \in {Mailbox(url), Missing}
    BY <1>0, <2>1, <2>4, <2>6 DEF ContextSound
  <2> QED
    BY <2>3, <2>4, <2>5, <2>6 DEF ContextInv, ContextIsStored
<1> QED
  BY <1>1, <1>2

\* A save that is sent finds the stored mailbox in the context, unless it crosses.
LEMMA SendKeeps ==
  ASSUME ContextInv, NEW c \in Saves, NEW s \in SaveType, s.stage = "sent", s.of \in Boxes,
         s.field # "status" => s.name \in Names,
         s.of \in {url, mailbox.of}, Fetched => mailbox # Missing, Sends(c, s)
  PROVE  ContextInv'
<1>0. ContextTypes /\ ContextSound /\ save \in [Saves -> SaveType]
  BY ContextParts DEF ContextTypes
<1>1. /\ save' = [save EXCEPT ![c] = s] /\ save[c].stage = "none"
      /\ crossed' = (crossed \/ UnderWay # {} \/ ~ Fetched)
      /\ UNCHANGED <<row, url, open, fetch, mailbox>>
  BY NothingHeld DEF Sends
<1>2. save' \in [Saves -> SaveType] /\ save'[c] = s /\ \A d \in Saves \ {c} : save'[d] = save[d]
  BY <1>0, <1>1
<1>3. crossed' \in BOOLEAN
  BY <1>0, <1>1 DEF ContextTypes
<1>4. ContextTypes'
  BY <1>0, <1>1, <1>2, <1>3 DEF ContextTypes, Missing
<1>5. ASSUME ~ crossed' PROVE ContextSound'
  <2>1. ~ crossed /\ UnderWay = {} /\ Fetched /\ Fetched' /\ fetch'.stage # "done"
    BY <1>0, <1>1, <1>5 DEF Fetched, ContextTypes
  <2>2. mailbox = Mailbox(url)
    BY <1>0, <2>1 DEF ContextSound, ContextIsStored
  <2>3. s.of = url
    BY <2>2 DEF Mailbox
  <2>4. UnderWay' = {c}
    BY <1>2, <2>1 DEF UnderWay
  <2>5. InStep(save[c])'
    BY <1>1, <1>2, <2>2, <2>3 DEF InStep, Mailbox
  <2> QED
    BY <2>1, <2>4, <2>5 DEF ContextSound, ContextIsStored
<1>6. crossed' => ContextSound'
  BY DEF ContextSound
<1> QED
  BY <1>4, <1>5, <1>6 DEF ContextInv, ContextSound

\* What changes of one save, and of the mailboxes, when it alone is under way.
LEMMA AloneKeeps ==
  ASSUME ContextInv, NEW c \in Saves, ~ crossed, save[c].stage # "none",
         \A d \in Saves \ {c} : save'[d] = save[d], crossed' = FALSE, UNCHANGED <<url, fetch>>,
         save'[c].stage # "none" => InStep(save[c])',
         save'[c].stage = "none" => mailbox' = Mailbox(url)'
  PROVE  ContextSound'
<1>1. ContextSound /\ c \in UnderWay
  BY ContextParts DEF UnderWay
<1>2. /\ UnderWay = {c}
      /\ Fetched /\ Fetched' /\ fetch'.stage # "done"
  BY <1>1 DEF ContextSound, Fetched
<1>3. UnderWay' = IF save'[c].stage # "none" THEN {c} ELSE {}
  BY <1>2 DEF UnderWay
<1> QED
  BY <1>2, <1>3 DEF ContextSound, ContextIsStored

\* What the types say of a save, and what is true of it while it is alone.
LEMMA SaveFacts ==
  ASSUME ContextInv, NEW c \in Saves
  PROVE  /\ ContextTypes /\ ContextSound /\ save \in [Saves -> SaveType] /\ save[c] \in SaveType
         /\ save[c].stage \in {"sent", "read", "left"} =>
              save[c].of \in Boxes /\ (save[c].field # "status" => save[c].name \in Names)
         /\ save[c].stage \in {"read", "done"} => save[c].got # Missing
         /\ ~ crossed /\ save[c].stage # "none" => InStep(save[c])
         /\ crossed \in BOOLEAN
BY ContextParts DEF ContextTypes, ContextSound, UnderWay

\* The types are kept where one save and one row change.
LEMMA SaveTypes ==
  ASSUME ContextTypes, NEW c \in Saves, NEW s \in SaveType, save' = [save EXCEPT ![c] = s],
         s.stage \in {"sent", "read", "left"} =>
           s.of \in Boxes /\ (s.field # "status" => s.name \in Names),
         s.stage \in {"read", "done"} => s.got # Missing,
         row' \in [Boxes -> RowType], mailbox' \in HeldType, crossed' \in BOOLEAN,
         UNCHANGED <<url, fetch>>
  PROVE  ContextTypes'
<1>1. /\ save' \in [Saves -> SaveType] /\ save'[c] = s
      /\ \A d \in Saves \ {c} : save'[d] = save[d]
  BY DEF ContextTypes
<1> QED
  BY <1>1 DEF ContextTypes, Missing

LEMMA AnsweredIsSave ==
  ASSUME NEW s \in SaveType, NEW stage \in {"done", "failed"}, NEW got \in HeldType
  PROVE  /\ Answered(s, stage, got) \in SaveType
         /\ Answered(s, stage, got).stage = stage
         /\ Answered(s, stage, got).field = s.field
         /\ Answered(s, stage, got).got = got
<1> DEFINE n == NoSave
<1>1. n \in SaveType
  BY NothingHeld
<1>2. Answered(s, stage, got) = [n EXCEPT !.stage = stage, !.field = s.field, !.tells = s.tells, !.got = got]
  BY DEF Answered
<1> HIDE DEF n
<1> QED
  BY <1>1, <1>2 DEF SaveType

LEMMA ReadKeeps ==
  ASSUME ContextInv, NEW c \in Saves, ReadRow(c)
  PROVE  ContextInv'
<1>0. /\ ContextTypes /\ save \in [Saves -> SaveType] /\ save[c] \in SaveType
      /\ save[c].stage = "sent" /\ save[c].of \in Boxes
      /\ save[c].field # "status" => save[c].name \in Names
      /\ ~ crossed => InStep(save[c])
  BY SaveFacts DEF ReadRow
<1>1. PICK b \in Boxes : b = save[c].of
  BY <1>0
<1>2. PICK m \in HeldType : m = Mailbox(b) /\ m # Missing
  BY <1>0, MailboxIsHeld
<1>3. /\ save' = [save EXCEPT ![c].stage = "read", ![c].got = m]
      /\ UNCHANGED <<row, url, open, fetch, mailbox, crossed>>
  BY <1>1, <1>2 DEF ReadRow
<1>4. PICK s : /\ s = [save[c] EXCEPT !.stage = "read", !.got = m]
               /\ s \in SaveType /\ s.stage = "read" /\ s.got = m /\ s.of = b
               /\ s.field = save[c].field /\ s.name = save[c].name
  <2> DEFINE s == [save[c] EXCEPT !.stage = "read", !.got = m]
  <2>1. /\ s \in SaveType /\ s.stage = "read" /\ s.got = m /\ s.of = b
        /\ s.field = save[c].field /\ s.name = save[c].name
    BY <1>0, <1>1 DEF SaveType
  <2> QED
    BY <2>1
<1>5. save' = [save EXCEPT ![c] = s] /\ save'[c] = s /\ \A d \in Saves \ {c} : save'[d] = save[d]
  BY <1>0, <1>3, <1>4
<1>6. ContextTypes'
  BY <1>0, <1>1, <1>2, <1>3, <1>4, <1>5, SaveTypes DEF ContextTypes
<1>7. ASSUME ~ crossed PROVE ContextSound'
  <2>1. b = url /\ mailbox = Mailbox(url)
    BY <1>0, <1>1, <1>7 DEF InStep
  <2>2. InStep(save[c])'
    BY <1>2, <1>3, <1>4, <1>5, <2>1 DEF InStep, Mailbox
  <2>3. crossed' = FALSE
    BY <1>0, <1>3, <1>7 DEF ContextTypes
  <2> QED
    BY <1>0, <1>3, <1>4, <1>5, <1>7, <2>2, <2>3, AloneKeeps
<1>8. crossed => ContextSound'
  BY <1>3 DEF ContextSound
<1> QED
  BY <1>6, <1>7, <1>8 DEF ContextInv, ContextSound

LEMMA RefuseKeeps ==
  ASSUME ContextInv, NEW c \in Saves, Refuse(c)
  PROVE  ContextInv'
<1>0. /\ ContextTypes /\ save \in [Saves -> SaveType] /\ save[c] \in SaveType
      /\ save[c].stage \in {"sent", "read"}
      /\ ~ crossed => InStep(save[c])
  BY SaveFacts DEF Refuse
<1>1. PICK s \in SaveType : s = Answered(save[c], "failed", Missing) /\ s.stage = "failed"
  BY <1>0, AnsweredIsSave, NothingHeld
<1>2. /\ save' = [save EXCEPT ![c] = s]
      /\ UNCHANGED <<row, url, open, fetch, mailbox, crossed>>
  BY <1>1 DEF Refuse
<1>3. save'[c] = s /\ \A d \in Saves \ {c} : save'[d] = save[d]
  BY <1>0, <1>2
<1>4. ContextTypes'
  BY <1>0, <1>1, <1>2, SaveTypes DEF ContextTypes
<1>5. ASSUME ~ crossed PROVE ContextSound'
  <2>1. InStep(save[c])'
    BY <1>0, <1>1, <1>2, <1>3, <1>5 DEF InStep, Mailbox
  <2>2. crossed' = FALSE
    BY <1>0, <1>2, <1>5 DEF ContextTypes
  <2> QED
    BY <1>0, <1>1, <1>2, <1>3, <1>5, <2>1, <2>2, AloneKeeps
<1>6. crossed => ContextSound'
  BY <1>2 DEF ContextSound
<1> QED
  BY <1>4, <1>5, <1>6 DEF ContextInv, ContextSound

LEMMA LeftKeeps ==
  ASSUME ContextInv, NEW c \in Saves, LeftSaveEnds(c)
  PROVE  ContextInv'
<1>0. /\ ContextTypes /\ save[c] \in SaveType /\ save[c].stage = "left"
      /\ save[c].of \in Boxes /\ (save[c].field # "status" => save[c].name \in Names)
      /\ row \in [Boxes -> RowType]
  BY SaveFacts DEF LeftSaveEnds, ContextTypes
<1>1. crossed /\ crossed'
  BY SaveFacts, <1>0 DEF LeftSaveEnds, InStep
<1>2. row' \in [Boxes -> RowType]
  BY <1>0, WrittenIsHeld DEF LeftSaveEnds
<1>3. ContextTypes'
  BY <1>0, <1>2, SaveTypes, NothingHeld DEF LeftSaveEnds, ContextTypes
<1> QED
  BY <1>1, <1>3 DEF ContextInv

\* The answer carries what was read and the field, which is the row as it is now
\* unless another save came between.
LEMMA WriteKeeps ==
  ASSUME ContextInv, NEW c \in Saves, WriteRow(c)
  PROVE  ContextInv'
<1>0. /\ ContextTypes /\ save \in [Saves -> SaveType] /\ save[c] \in SaveType
      /\ save[c].stage = "read" /\ save[c].of \in Boxes
      /\ save[c].field # "status" => save[c].name \in Names
      /\ save[c].got # Missing /\ save[c].got \in HeldType
      /\ row \in [Boxes -> RowType]
      /\ ~ crossed => InStep(save[c])
  BY SaveFacts DEF WriteRow, ContextTypes, SaveType
<1>1. PICK s \in SaveType : s = save[c]
  BY <1>0
<1>2. row' = [row EXCEPT ![s.of] = Written(@, s)] /\ UNCHANGED <<url, open, fetch, mailbox>>
  BY <1>1 DEF WriteRow
<1>3. PICK w \in HeldType : w = Written(s.got, s) /\ w # Missing
  BY <1>0, <1>1, WrittenIsHeld
<1>4. row' \in [Boxes -> RowType] /\ row'[s.of] = Written(row[s.of], s)
  BY <1>0, <1>1, <1>2, WrittenIsHeld
<1>5. CASE save' = [save EXCEPT ![c] = Answered(s, "failed", Missing)] /\ crossed' = TRUE
  <2>1. ContextTypes'
    BY <1>0, <1>1, <1>2, <1>4, <1>5, SaveTypes, AnsweredIsSave, NothingHeld DEF ContextTypes
  <2> QED
    BY <1>5, <2>1 DEF ContextInv
<1>6. CASE save' = [save EXCEPT ![c] = Answered(s, "done", w)] /\ UNCHANGED crossed
  <2>1. PICK n \in SaveType : /\ n = Answered(s, "done", w)
                              /\ n.stage = "done" /\ n.field = s.field /\ n.got = w
    BY AnsweredIsSave
  <2>2. save' = [save EXCEPT ![c] = n] /\ save'[c] = n /\ \A d \in Saves \ {c} : save'[d] = save[d]
    BY <1>0, <1>6, <2>1
  <2>3. ContextTypes'
    BY <1>0, <1>2, <1>3, <1>4, <1>6, <2>1, <2>2, SaveTypes DEF ContextTypes
  <2>4. ASSUME ~ crossed PROVE ContextSound'
    <3>1. s.of = url /\ s.got = Mailbox(url) /\ mailbox = Mailbox(url)
      BY <1>0, <1>1, <2>4 DEF InStep
    <3>2. row[url] \in RowType /\ url \in Boxes /\ s \in SaveType
      BY <1>0, <1>1, <3>1 DEF ContextTypes
    <3>3. row'[url] = Written(row[url], s)
      BY <1>4, <3>1
    <3>4. PICK m \in HeldType : m = Mailbox(url) /\ m = [of |-> url, name |-> row[url].name, active |-> row[url].active]
      BY <1>0, <3>2, MailboxIsHeld DEF Mailbox
    <3>5. Mailbox(url)' = [of |-> url, name |-> row'[url].name, active |-> row'[url].active]
      BY <1>2 DEF Mailbox
    <3>6. Mailbox(url)' = Written(m, s)
      <4>1. CASE s.field = "status"
        BY <3>2, <3>3, <3>4, <3>5, <4>1 DEF Written, RowType
      <4>2. CASE s.field # "status"
        BY <3>2, <3>3, <3>4, <3>5, <4>2 DEF Written, RowType
      <4> QED
        BY <4>1, <4>2
    <3>7. w = Written(m, s) /\ mailbox' = m /\ m # Missing /\ Missing' = Missing
      BY <1>0, <1>2, <1>3, <3>1, <3>2, <3>4, MailboxIsHeld DEF Missing
    <3>8. Updated(save[c])' = Mailbox(url)'
      <4>1. CASE s.field = "listing"
        <5>1. Updated(save[c])' = [m EXCEPT !.name = w.name]
          BY <2>1, <2>2, <3>7, <4>1 DEF Updated
        <5>2. w = [m EXCEPT !.name = s.name]
          BY <3>7, <4>1 DEF Written
        <5> QED
          BY <3>4, <3>6, <3>7, <5>1, <5>2
      <4>2. CASE s.field # "listing"
        BY <2>1, <2>2, <3>6, <3>7, <4>2 DEF Updated
      <4> QED
        BY <4>1, <4>2
    <3>9. InStep(save[c])'
      BY <2>1, <2>2, <3>8 DEF InStep
    <3>10. crossed' = FALSE
      BY <1>0, <1>6, <2>4 DEF ContextTypes
    <3> QED
      BY <1>0, <1>2, <2>1, <2>2, <2>4, <3>9, <3>10, AloneKeeps
  <2>5. crossed => ContextSound'
    BY <1>6 DEF ContextSound
  <2> QED
    BY <2>3, <2>4, <2>5 DEF ContextInv, ContextSound
<1> QED
  BY <1>1, <1>3, <1>5, <1>6 DEF WriteRow

LEMMA AnswerKeeps ==
  ASSUME ContextInv, NEW c \in Saves, SaveAnswer(c)
  PROVE  ContextInv'
<1>0. /\ ContextTypes /\ save \in [Saves -> SaveType] /\ save[c] \in SaveType
      /\ save[c].stage \in {"done", "failed"}
      /\ save[c].got \in HeldType
      /\ save[c].stage = "done" => save[c].got # Missing
      /\ ~ crossed => InStep(save[c])
  BY SaveFacts DEF SaveAnswer, SaveType
<1>1. PICK s \in SaveType : s = save[c]
  BY <1>0
<1>2. /\ mailbox' = IF s.stage = "done" THEN Updated(s) ELSE mailbox
      /\ save' = [save EXCEPT ![c] = NoSave]
      /\ UNCHANGED <<row, url, open, fetch, crossed>>
  BY <1>1 DEF SaveAnswer
<1>3. mailbox' \in HeldType
  <2>1. CASE s.stage = "done"
    <3>1. s.got \in [of : Boxes, name : Names, active : BOOLEAN] /\ s.got \in HeldType
      BY <1>0, <1>1, <2>1 DEF HeldType
    <3>2. mailbox \in HeldType
      BY <1>0 DEF ContextTypes
    <3>3. CASE s.field = "listing" /\ mailbox # Missing
      <4>1. mailbox \in [of : Boxes, name : Names, active : BOOLEAN]
        BY <3>2, <3>3 DEF HeldType
      <4>2. [mailbox EXCEPT !.name = s.got.name] \in [of : Boxes, name : Names, active : BOOLEAN]
        BY <3>1, <4>1
      <4> QED
        BY <1>2, <2>1, <3>3, <4>2 DEF Updated, HeldType
    <3>4. CASE ~ (s.field = "listing" /\ mailbox # Missing)
      BY <1>2, <2>1, <3>1, <3>2, <3>4 DEF Updated
    <3> QED
      BY <3>3, <3>4
  <2>2. CASE s.stage # "done"
    BY <1>0, <1>2, <2>2 DEF ContextTypes
  <2> QED
    BY <2>1, <2>2
<1>4. save'[c] = NoSave /\ NoSave.stage = "none" /\ \A d \in Saves \ {c} : save'[d] = save[d]
  BY <1>0, <1>2, NothingHeld
<1>5. ContextTypes'
  BY <1>0, <1>2, <1>3, SaveTypes, NothingHeld DEF ContextTypes
<1>6. ASSUME ~ crossed PROVE ContextSound'
  <2>1. mailbox' = Mailbox(url)
    BY <1>0, <1>1, <1>2, <1>6 DEF InStep
  <2>2. Mailbox(url)' = Mailbox(url)
    BY <1>2 DEF Mailbox
  <2>3. crossed' = FALSE
    BY <1>0, <1>2, <1>6 DEF ContextTypes
  <2>4. save'[c].stage = "none"
    BY <1>4
  <2> QED
    BY <1>0, <1>2, <1>4, <1>6, <2>1, <2>2, <2>3, <2>4, AloneKeeps
<1>7. crossed => ContextSound'
  BY <1>2 DEF ContextSound
<1> QED
  BY <1>5, <1>6, <1>7 DEF ContextInv, ContextSound

\* Each save starts from what is shown, and goes to the mailbox shown or in the URL.
LEMMA StartKeeps ==
  ASSUME ContextInv, NEW c \in Saves, SaveName(c) \/ ToggleStatus(c) \/ SaveListing(c)
  PROVE  ContextInv'
<1>0. ContextTypes /\ url \in Boxes /\ mailbox \in HeldType
  BY ContextParts DEF ContextTypes
<1>1. ASSUME NEW field \in {"name", "status", "listing"}, NEW b \in Boxes
      PROVE  /\ Saving(field, b) \in SaveType
             /\ Saving(field, b).stage = "sent" /\ Saving(field, b).field = field /\ Saving(field, b).of = b
  <2> DEFINE n == NoSave
  <2>1. n \in SaveType
    BY NothingHeld
  <2>2. Saving(field, b) = [n EXCEPT !.stage = "sent", !.field = field, !.of = b, !.tells = "page"]
    BY DEF Saving
  <2> HIDE DEF n
  <2> QED
    BY <2>1, <2>2 DEF SaveType
<1>2. ASSUME NEW s0 \in SaveType, s0.stage = "sent", s0.of \in Boxes
      PROVE  /\ \A n \in Names : /\ [s0 EXCEPT !.name = n] \in SaveType
                                 /\ [s0 EXCEPT !.name = n].stage = "sent"
                                 /\ [s0 EXCEPT !.name = n].of = s0.of
                                 /\ [s0 EXCEPT !.name = n].name = n
             /\ \A a \in BOOLEAN : /\ [s0 EXCEPT !.active = a] \in SaveType
                                   /\ [s0 EXCEPT !.active = a].stage = "sent"
                                   /\ [s0 EXCEPT !.active = a].of = s0.of
                                   /\ [s0 EXCEPT !.active = a].field = s0.field
  BY <1>2 DEF SaveType
<1>3. CASE SaveName(c)
  <2>1. PICK n \in Names : Sends(c, [Saving("name", url) EXCEPT !.name = n])
    BY <1>3 DEF SaveName
  <2>2. PICK s0 \in SaveType : s0 = Saving("name", url) /\ s0.stage = "sent" /\ s0.of = url
    BY <1>0, <1>1
  <2>3. PICK s : s = [s0 EXCEPT !.name = n]
    OBVIOUS
  <2>4. s \in SaveType /\ s.stage = "sent" /\ s.of = url /\ s.name = n
    BY <1>0, <1>2, <2>2, <2>3
  <2> QED
    BY <1>0, <1>3, <2>1, <2>2, <2>3, <2>4, SendKeeps DEF SaveName
<1>4. CASE ToggleStatus(c)
  <2>1. mailbox # Missing /\ Sends(c, [Saving("status", mailbox.of) EXCEPT !.active = ~ mailbox.active])
    BY <1>4 DEF ToggleStatus
  <2>2. mailbox.of \in Boxes
    BY <1>0, <2>1 DEF HeldType
  <2>3. PICK b \in Boxes : b = mailbox.of
    BY <2>2
  <2>4. PICK a \in BOOLEAN : a = (~ mailbox.active)
    OBVIOUS
  <2>5. PICK s0 \in SaveType :
          s0 = Saving("status", b) /\ s0.stage = "sent" /\ s0.of = b /\ s0.field = "status"
    BY <1>1
  <2>6. PICK s : s = [s0 EXCEPT !.active = a]
    OBVIOUS
  <2>7. s \in SaveType /\ s.stage = "sent" /\ s.of = b /\ s.field = "status"
    BY <1>2, <2>5, <2>6
  <2>8. Sends(c, s)
    BY <2>1, <2>3, <2>4, <2>5, <2>6
  <2> QED
    BY <2>1, <2>3, <2>7, <2>8, SendKeeps
<1>5. CASE SaveListing(c)
  <2>1. PICK n \in Names : Sends(c, [Saving("listing", url) EXCEPT !.name = n])
    BY <1>5 DEF SaveListing
  <2>2. PICK s0 \in SaveType : s0 = Saving("listing", url) /\ s0.stage = "sent" /\ s0.of = url
    BY <1>0, <1>1
  <2>3. PICK s : s = [s0 EXCEPT !.name = n]
    OBVIOUS
  <2>4. s \in SaveType /\ s.stage = "sent" /\ s.of = url /\ s.name = n
    BY <1>0, <1>2, <2>2, <2>3
  <2> QED
    BY <1>0, <1>5, <2>1, <2>2, <2>3, <2>4, SendKeeps DEF SaveListing
<1> QED
  BY <1>3, <1>4, <1>5

LEMMA ContextNextInv == ContextInv /\ [Next]_vars => ContextInv'
<1> SUFFICES ASSUME ContextInv, [Next]_vars PROVE ContextInv'
  OBVIOUS
<1>1. CASE ContextPart
  BY <1>1, MoveKeeps, FetchKeeps, StartKeeps, ReadKeeps, WriteKeeps, RefuseKeeps, LeftKeeps, AnswerKeeps
     DEF ContextPart, ContextNext
<1>2. CASE ~ ContextPart
  <2>1. UNCHANGED contextVars
    BY <1>2 DEF Next, vars, Origin, SessionPart, ListPart, QueuePart, WorkflowPart
  <2>2. UNCHANGED <<row, url, open, fetch, mailbox, save, crossed>>
    BY <2>1 DEF contextVars
  <2>3. ContextTypes'
    BY <2>2, ContextParts DEF ContextTypes, Missing
  <2>4. ContextSound'
    BY <2>2, ContextParts
       DEF ContextSound, ContextIsStored, Fetched, UnderWay, Mailbox, Missing, InStep, Updated
  <2> QED
    BY <2>3, <2>4 DEF ContextInv, ContextSound
<1> QED
  BY <1>1, <1>2

\* Once nothing is under way the mailbox the pages share is the stored one, also
\* after a save whose page was left before it was answered, unless two saves
\* overlapped, a save met a fetch or a move, or its answer was lost.
THEOREM ContextIsStoredCorrect == Spec => []ContextIsStored
<1>1. ContextInv => ContextIsStored
  BY DEF ContextInv, ContextIsStored
<1> QED
  BY <1>1, ContextInitInv, ContextNextInv, PTL DEF Spec

=============================================================================
