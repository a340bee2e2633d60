--------------------------- MODULE DashboardProofs ---------------------------
(***************************************************************************)
(* What a tab keeps for any set of coherent pages, any number of things,   *)
(* requests in flight and operations, and whatever is lost or late: flags  *)
(* are cleared, what was chosen or typed is what is changed, a page that   *)
(* drops its loads shows another thing only by a late answer to a change,  *)
(* and it ends up showing what the server has.                             *)
(***************************************************************************)
EXTENDS Dashboard, TLAPS

USE DashboardAssumption

-----------------------------------------------------------------------------
(* Operations, requests and what they are made of.                         *)

LEMMA Blanks ==
  /\ Read.kind = "load" /\ Read.lock = "none" /\ NoOp.kind = "none" /\ NoOp.dialog = "none"
  /\ IsContent(Nothing) /\ Nothing.of = NoId
  /\ IsAim(Aim) /\ Aim.op = NoOp
  /\ IsCall(NoCall) /\ NoCall.stage = "none" /\ NoCall.home = "away"
BY DEF Read, NoOp, Save, Nothing, IsContent, Aim, IsAim, NoCall, IsCall

LEMMA PageOps ==
  ASSUME TypeOK, NEW op \in page.ops
  PROVE  /\ op.kind \in Kinds /\ op.aim \in Aims /\ op # Read
         /\ op.kind = "save" => op.dialog = "none" /\ op.needs # "nothing"
         /\ op.aim \in {"rule", "index"} => op.kind = "drop"
         /\ op.dialog = "typed" => op.aim = "page"
<1>1. Coherent(op, page)
  BY PagesAssumption DEF TypeOK, CoherentPage
<1> QED
  BY <1>1, Blanks DEF Coherent, Kinds

LEMMA ReadingFacts ==
  ASSUME NEW op, NEW i, NEW r, r = Reading(op, i)
  PROVE  /\ IsCall(r) /\ r.aim.op = op /\ r.aim.id = i /\ r.reads
         /\ r.stage = "sent" /\ r.home = "component"
<1>1. r.aim = [Aim EXCEPT !.op = op, !.id = i]
  BY DEF Reading, NoCall
<1>2. r.aim = [op |-> op, id |-> i, row |-> 0, pos |-> 0, meant |-> NoId]
  BY <1>1 DEF Aim
<1>3. r = [aim |-> r.aim, reads |-> TRUE, n |-> 0, at |-> NoId, stage |-> "sent",
           got |-> Nothing, home |-> "component"]
  BY <1>1 DEF Reading, NoCall
<1>4. /\ r.aim.op = op /\ r.aim.id = i /\ IsAim(r.aim)
  BY <1>2 DEF IsAim
<1>5. /\ r.reads = TRUE /\ r.n = 0 /\ r.at = NoId /\ r.stage = "sent" /\ r.got = Nothing
      /\ r.home = "component"
  BY <1>3
<1>6. IsCall(r)
  BY <1>3, <1>4, <1>5, Blanks DEF IsCall
<1> QED
  BY <1>4, <1>5, <1>6

LEMMA TargetFacts ==
  ASSUME NEW op, NEW k, NEW a, a = Target(op, k)
  PROVE  /\ IsAim(a) /\ a.op = op
         /\ op.kind = "drop" =>
              a.meant = shown.of /\ (op.aim # "rule" => a.id = shown.of)
         /\ op.kind # "drop" =>
              /\ a.id \in {id, shown.of}
              /\ op.aim # "shown" => a.id = id
              /\ op.kind = "save" => a.meant = shown.of
              /\ op.kind # "save" => a.meant = a.id
<1>1. CASE op.kind = "drop"
  BY <1>1 DEF Target, IsAim
<1>2. CASE op.kind # "drop"
  <2>1. a = [op |-> op, id |-> IF op.aim = "shown" THEN shown.of ELSE id, row |-> 0, pos |-> 0,
             meant |-> IF op.kind = "save" \/ op.aim = "shown" THEN shown.of ELSE id]
    BY <1>2 DEF Target, Aim
  <2> QED
    BY <1>2, <2>1 DEF IsAim
<1> QED
  BY <1>1, <1>2

LEMMA HomeFacts ==
  ASSUME NEW r, IsCall(r), NEW h \in {"component", "page", "away"},
         NEW q, q = [r EXCEPT !.home = h]
  PROVE  /\ IsCall(q) /\ q.home = h /\ q.stage = r.stage /\ q.aim = r.aim /\ q.reads = r.reads
BY DEF IsCall

LEMMA AnsweredFacts ==
  ASSUME NEW r, IsCall(r), NEW stage \in {"done", "failed"}, NEW got, IsContent(got),
         NEW q, q = Answered(r, stage, got)
  PROVE  /\ IsCall(q) /\ q.stage = stage /\ q.got = got
         /\ q.aim = r.aim /\ q.reads = r.reads /\ q.n = r.n /\ q.at = r.at /\ q.home = r.home
<1>1. q = [aim |-> r.aim, reads |-> r.reads, n |-> r.n, at |-> r.at, stage |-> stage,
           got |-> got, home |-> r.home]
  BY DEF Answered, IsCall
<1> QED
  BY <1>1 DEF IsCall

\* A request goes out in place of none.
LEMMA SentEffect ==
  ASSUME NEW calls, calls = [c \in Calls |-> calls[c]], NEW r, Sent(calls, r)
  PROVE  /\ call' = [c \in Calls |-> call'[c]]
         /\ \E d \in Calls : /\ calls[d] = NoCall /\ call'[d] = r
                             /\ \A c \in Calls \ {d} : call'[c] = calls[c]
BY DEF Sent

\* What the component has under way stays sound while the page does, except for
\* a read of the page when the URL moves on.
LEMMA SoundStays ==
  ASSUME NEW r, Sound(r), page' = page, fate \subseteq fate',
         \/ id' = id
         \/ ~ (page.loads = "switch" /\ r.stage # "none" /\ r.home = "component"
               /\ r.reads /\ r.aim.op = Read)
  PROVE  Sound(r)'
BY DEF Sound, NamesItsRow

LEMMA NoCallSound == Sound(NoCall) /\ Sound(NoCall)'
BY Blanks DEF Sound

-----------------------------------------------------------------------------
(* The initial states.                                                     *)

LEMMA InitIndInv == Init => IndInv
<1> SUFFICES ASSUME Init PROVE IndInv
  OBVIOUS
<1>1. /\ server = [i \in Ids |-> server[i]] /\ call = [c \in Calls |-> call[c]]
      /\ \A c \in Calls : call[c] = NoCall
  BY DEF Init
<1>2. TypeOK
  BY <1>1, Blanks DEF Init, TypeOK, NoDialog
<1>3. \A c \in Calls : ~ Mine(c) /\ Sound(call[c])
  BY <1>1, Blanks, NoCallSound DEF Mine, Busy
<1> QED
  BY <1>2, <1>3 DEF Init, IndInv, ClosedIsClean, LocksHeld, NoLockLeft, DialogSound,
     LateAnswersOnly, OwnFormSaved, RightTarget

-----------------------------------------------------------------------------
(* Pages open and close.                                                   *)

LEMMA ClosedIndInv ==
  ASSUME IndInv, NEW calls, calls = [c \in Calls |-> calls[c]],
         \A c \in Calls : calls[c] \in {call[c], NoCall},
         Closed(calls), UNCHANGED <<server, page, clock>>
  PROVE  IndInv'
<1>1. call' = [c \in Calls |-> call'[c]]
  BY DEF Closed
<1>2. ASSUME NEW c \in Calls PROVE IsCall(call'[c]) /\ ~ Mine(c)' /\ Sound(call[c])'
  <2>1. IsCall(calls[c])
    BY Blanks DEF IndInv, TypeOK
  <2>2. CASE calls[c].stage = "none" \/ calls[c].reads = TRUE
    <3>1. call'[c] = NoCall
      BY <2>2 DEF Closed
    <3> QED
      BY <3>1, Blanks, NoCallSound DEF Mine, Busy, Sound
  <2>3. CASE ~ (calls[c].stage = "none" \/ calls[c].reads = TRUE) /\ calls[c].home = "away"
    <3>1. call'[c] = calls[c]
      BY <2>3, <2>1 DEF Closed, IsCall
    <3> QED
      BY <2>1, <2>3, <3>1 DEF Mine, Busy, Sound
  <2>4. CASE ~ (calls[c].stage = "none" \/ calls[c].reads = TRUE) /\ calls[c].home # "away"
    <3>1. call'[c] = [calls[c] EXCEPT !.home = "page"]
      BY <2>4, <2>1 DEF Closed, IsCall
    <3>2. IsCall(call'[c]) /\ call'[c].home = "page"
      BY <2>1, <3>1, HomeFacts
    <3> QED
      BY <3>2 DEF Mine, Busy, Sound
  <2> QED
    BY <2>2, <2>3, <2>4
<1>3. TypeOK'
  BY <1>1, <1>2, Blanks DEF Closed, IndInv, TypeOK, NoDialog
<1> QED
  BY <1>2, <1>3 DEF Closed, IndInv, ClosedIsClean, LocksHeld, NoLockLeft, DialogSound,
     LateAnswersOnly, OwnFormSaved, RightTarget

LEMMA CloseIndInv == ASSUME IndInv, Close PROVE IndInv'
BY ClosedIndInv DEF Close, IndInv, TypeOK

LEMMA LeaveAnswerIndInv ==
  ASSUME IndInv, NEW c \in Calls, LeaveAnswer(c) PROVE IndInv'
<1> DEFINE calls == Without(c)
<1>1. calls = [d \in Calls |-> calls[d]] /\ \A d \in Calls : calls[d] \in {call[d], NoCall}
  BY DEF Without, IndInv, TypeOK
<1>2. Closed(calls) /\ UNCHANGED <<server, page, clock>>
  BY DEF LeaveAnswer
<1> HIDE DEF calls
<1> QED
  BY <1>1, <1>2, ClosedIndInv

LEMMA OpenIndInv ==
  ASSUME IndInv, NEW p \in PageSet, NEW i \in Ids, Open(p, i)
  PROVE  IndInv'
<1> DEFINE left == [c \in Calls |->
                      IF p = page \/ call[c].home = "away" THEN call[c]
                      ELSE IF call[c].aim.op.then = "leave" THEN [call[c] EXCEPT !.home = "away"]
                      ELSE NoCall]
<1>0. /\ id = NoId /\ page' = p /\ id' = i /\ fate' \subseteq {"inherited"}
      /\ IF p.loads = "none" THEN call' = left ELSE Sent(left, Reading(Read, i))
      /\ UNCHANGED <<shown, edited, locks, dialog, clock>>
      /\ server' = server \/ server' = [j \in Ids |-> Original(p)]
  BY DEF Open
<1>1. shown = Nothing /\ edited = FALSE /\ locks = {} /\ dialog = NoDialog
  BY <1>0 DEF IndInv, ClosedIsClean
<1>2. ASSUME NEW c \in Calls
      PROVE  IsCall(left[c]) /\ (left[c].stage = "none" \/ left[c].home # "component")
  <2>1. IsCall(call[c]) /\ (call[c].stage = "none" \/ call[c].home # "component")
    BY <1>0 DEF IndInv, TypeOK, ClosedIsClean, Mine, Busy
  <2>2. CASE left[c] = call[c] \/ left[c] = NoCall
    BY <2>1, <2>2, Blanks
  <2>3. CASE left[c] = [call[c] EXCEPT !.home = "away"]
    BY <2>1, <2>3, HomeFacts
  <2> QED
    BY <2>2, <2>3
<1>3. left = [c \in Calls |-> left[c]]
  OBVIOUS
<1> HIDE DEF left
<1>4. PICK r : r = Reading(Read, i)
  OBVIOUS
<1>5. /\ call' = [c \in Calls |-> call'[c]]
      /\ \A c \in Calls : call'[c] = left[c] \/ (p.loads # "none" /\ call'[c] = r)
  BY <1>0, <1>3, <1>4, SentEffect
<1>6. IsCall(r) /\ Sound(r)'
  <2>1. IsCall(r) /\ r.aim.op = Read /\ r.aim.id = i /\ r.reads /\ r.stage = "sent"
    BY <1>4, ReadingFacts
  <2> QED
    BY <1>0, <2>1 DEF Sound
<1>7. \A c \in Calls : IsCall(call'[c]) /\ Sound(call[c])'
  <2> TAKE c \in Calls
  <2>1. CASE call'[c] = left[c]
    BY <1>2, <2>1 DEF Sound
  <2>2. CASE call'[c] = r
    BY <1>6, <2>2 DEF Sound
  <2> QED
    BY <1>5, <2>1, <2>2
<1>8. TypeOK'
  <2>1. server' = [j \in Ids |-> server'[j]]
    BY <1>0 DEF IndInv, TypeOK
  <2> QED
    BY <1>0, <1>5, <1>7, <2>1 DEF IndInv, TypeOK
<1> QED
  BY <1>0, <1>1, <1>7, <1>8 DEF IndInv, ClosedIsClean, LocksHeld, NoLockLeft, DialogSound,
     LateAnswersOnly, OwnFormSaved, RightTarget
-----------------------------------------------------------------------------
(* Sending.                                                                *)

\* A flag keeps its request when requests with a flag that stays set go on.
LEMMA LocksStay ==
  ASSUME LocksHeld, locks' \subseteq locks,
         \A c \in Calls : Mine(c) /\ call[c].aim.op.lock \in locks' =>
           Mine(c)' /\ call'[c].aim.op.lock = call[c].aim.op.lock
  PROVE  LocksHeld'
BY DEF LocksHeld, NoLockLeft

LEMMA SentSound ==
  ASSUME TypeOK, NEW calls, calls = [c \in Calls |-> calls[c]],
         \A c \in Calls : calls[c] \in {call[c], NoCall},
         \A c \in Calls : Sound(calls[c])',
         NEW r, IsCall(r), Sound(r)', Sent(calls, r)
  PROVE  /\ call' = [c \in Calls |-> call'[c]]
         /\ \A c \in Calls : IsCall(call'[c]) /\ Sound(call[c])'
<1>1. PICK d \in Calls : call'[d] = r /\ \A c \in Calls \ {d} : call'[c] = calls[c]
  BY SentEffect
<1>2. call' = [c \in Calls |-> call'[c]]
  BY SentEffect
<1>3. ASSUME NEW c \in Calls PROVE IsCall(call'[c]) /\ Sound(call[c])'
  <2>1. CASE c = d
    BY <1>1, <2>1 DEF Sound
  <2>2. CASE c # d
    <3>1. call'[c] = calls[c] /\ Sound(calls[c])'
      BY <1>1, <2>2
    <3>2. IsCall(calls[c])
      BY Blanks DEF TypeOK
    <3> QED
      BY <3>1, <3>2 DEF Sound
  <2> QED
    BY <2>1, <2>2
<1> QED
  BY <1>2, <1>3

\* The page is read for the thing in the URL, in place of the reads before it
\* where loads are dropped.
LEMMA ReadsIndInv ==
  ASSUME IndInv, id # NoId, NEW i \in Ids, id' = i,
         NEW calls, calls = [c \in Calls |-> calls[c]],
         \A c \in Calls :
           calls[c] = call[c] \/ (Replaced(c) /\ page.loads = "switch" /\ calls[c] = NoCall),
         \A c \in Calls : id' # id /\ page.loads = "switch" /\ Replaced(c) => calls[c] = NoCall,
         Sent(calls, Reading(Read, i)) \/ (page.loads = "none" /\ call' = call),
         fate \subseteq fate', fate' \subseteq fate \cup {"moved", "overlapped"},
         \/ shown' = shown /\ edited' = edited /\ (page.loads = "switch" => id' = id)
         \/ shown' = Nothing /\ edited' = FALSE,
         UNCHANGED <<server, gone, page, locks, dialog, clock>>
  PROVE  IndInv'
<1>1. PICK r : r = Reading(Read, i)
  OBVIOUS
<1>2. IsCall(r) /\ r.aim.op = Read /\ r.aim.id = i /\ r.reads /\ r.stage = "sent"
  BY <1>1, ReadingFacts
<1>3. Sound(r)'
  BY <1>2 DEF Sound
<1>4. \A c \in Calls : Sound(calls[c])'
  <2> TAKE c \in Calls
  <2>1. CASE calls[c] = NoCall
    BY <2>1, NoCallSound DEF Sound
  <2>2. CASE calls[c] # NoCall
    <3>1. calls[c] = call[c] /\ (id' = id \/ page.loads # "switch" \/ ~ Replaced(c))
      BY <2>2
    <3>2. PICK q : q = call[c]
      OBVIOUS
    <3>3. Sound(q) /\ Sound(q)'
      BY <3>1, <3>2, SoundStays DEF IndInv, Replaced, Mine, Busy
    <3> QED
      BY <3>1, <3>2, <3>3 DEF Sound
  <2> QED
    BY <2>1, <2>2
<1>5. /\ call' = [c \in Calls |-> call'[c]]
      /\ \A c \in Calls : IsCall(call'[c]) /\ Sound(call[c])'
  <2>1. CASE Sent(calls, r)
    BY <1>2, <1>3, <1>4, <2>1, SentSound DEF IndInv
  <2>2. CASE page.loads = "none" /\ call' = call
    <3>1. \A c \in Calls : calls[c] = call[c]
      BY <2>2
    <3> QED
      BY <1>4, <2>2, <3>1 DEF IndInv, TypeOK, Sound
  <2> QED
    BY <1>1, <2>1, <2>2
<1>6. TypeOK'
  BY <1>5, Blanks DEF IndInv, TypeOK
<1>7. LocksHeld'
  <2>1. ASSUME NEW c \in Calls, Mine(c), call[c].aim.op.lock \in locks'
        PROVE  call'[c] = call[c]
    <3>1. ~ Replaced(c)
      BY <2>1, Blanks DEF IndInv, LocksHeld, Replaced
    <3>2. calls[c] = call[c] /\ calls[c] # NoCall
      BY <2>1, <3>1, Blanks DEF Mine, Busy
    <3> QED
      BY <3>2, SentEffect
  <2> QED
    BY <2>1, LocksStay DEF IndInv, Mine, Busy
<1>8. ClosedIsClean' /\ DialogSound' /\ LateAnswersOnly' /\ OwnFormSaved' /\ RightTarget'
  BY Blanks DEF IndInv, ClosedIsClean, DialogSound, NamesItsRow, LateAnswersOnly, OwnFormSaved,
     RightTarget
<1> QED
  BY <1>5, <1>6, <1>7, <1>8 DEF IndInv

LEMMA MoveIndInv == ASSUME IndInv, NEW i \in Ids, Move(i) PROVE IndInv'
<1> DEFINE kept == IF page.loads = "switch"
                     THEN [c \in Calls |-> IF Replaced(c) THEN NoCall ELSE call[c]]
                     ELSE call
<1>1. /\ kept = [c \in Calls |-> kept[c]]
      /\ \A c \in Calls :
           kept[c] = call[c] \/ (Replaced(c) /\ page.loads = "switch" /\ kept[c] = NoCall)
      /\ \A c \in Calls : page.loads = "switch" /\ Replaced(c) => kept[c] = NoCall
  BY DEF IndInv, TypeOK
<1>2. /\ id # NoId /\ id' = i
      /\ Sent(kept, Reading(Read, i)) \/ (page.loads = "none" /\ call' = call)
      /\ fate' = fate \cup {"moved"} \cup Overlap(kept)
      /\ shown' = IF Forgets THEN Nothing ELSE shown
      /\ edited' = (edited /\ ~ Forgets)
      /\ UNCHANGED <<server, gone, page, locks, dialog, clock>>
  BY DEF Move
<1>3. fate \subseteq fate' /\ fate' \subseteq fate \cup {"moved", "overlapped"}
  BY <1>2 DEF Overlap
<1>4. \/ shown' = shown /\ edited' = edited /\ page.loads # "switch"
      \/ shown' = Nothing /\ edited' = FALSE
  BY <1>2 DEF Forgets, IndInv, TypeOK
<1> HIDE DEF kept
<1> QED
  BY <1>1, <1>2, <1>3, <1>4, ReadsIndInv

LEMMA RefreshIndInv == ASSUME IndInv, Refresh PROVE IndInv'
<1> DEFINE kept == [c \in Calls |-> IF Replaced(c) /\ page.loads = "switch" THEN NoCall ELSE call[c]]
<1>1. /\ kept = [c \in Calls |-> kept[c]]
      /\ \A c \in Calls :
           kept[c] = call[c] \/ (Replaced(c) /\ page.loads = "switch" /\ kept[c] = NoCall)
  OBVIOUS
<1>2. /\ id # NoId /\ Sent(kept, Reading(Read, id)) /\ fate' = fate \cup Overlap(kept)
      /\ UNCHANGED <<server, gone, page, id, shown, edited, locks, dialog, clock>>
  BY DEF Refresh
<1>3. fate \subseteq fate' /\ fate' \subseteq fate \cup {"moved", "overlapped"}
  BY <1>2 DEF Overlap
<1>4. PICK i \in Ids : i = id
  BY <1>2 DEF IndInv, TypeOK
<1>5. Sent(kept, Reading(Read, i)) /\ id' = i
  BY <1>2, <1>4
<1> HIDE DEF kept
<1> QED
  BY <1>1, <1>2, <1>3, <1>5, ReadsIndInv

-----------------------------------------------------------------------------
(* Forms and confirmations.                                                *)

LEMMA EditIndInv == ASSUME IndInv, Edit PROVE IndInv'
<1>1. UNCHANGED <<server, gone, page, id, shown, locks, dialog, call, clock, fate>>
      /\ edited' = TRUE /\ shown # Nothing
  BY DEF Edit
<1> QED
  BY <1>1 DEF IndInv, TypeOK, ClosedIsClean, LocksHeld, NoLockLeft, Mine, Busy, DialogSound,
     NamesItsRow, Sound, LateAnswersOnly, OwnFormSaved, RightTarget

\* Only the confirmation changes.
LEMMA DialogIndInv ==
  ASSUME IndInv, IsAim(dialog'), DialogSound', dialog' # NoDialog => id # NoId,
         UNCHANGED <<server, gone, page, id, shown, edited, locks, call, clock, fate>>
  PROVE  IndInv'
BY DEF IndInv, TypeOK, ClosedIsClean, LocksHeld, NoLockLeft, Mine, Busy, NamesItsRow, Sound,
   LateAnswersOnly, OwnFormSaved, RightTarget

LEMMA MeantFacts ==
  ASSUME NEW a, IsAim(a), NEW i, NEW b, b = [a EXCEPT !.meant = i] PROVE
    IsAim(b) /\ b.op = a.op /\ b.meant = i /\ b.id = a.id
BY DEF IsAim

LEMMA AskIndInv == ASSUME IndInv, Ask PROVE IndInv'
<1>0. PICK op \in page.ops :
        /\ op.dialog # "none" /\ Offered(op)
        /\ \E k \in RowsFor(op) :
             dialog' = IF op.dialog = "typed" THEN [Target(op, k) EXCEPT !.meant = NoId]
                       ELSE Target(op, k)
  BY DEF Ask
<1>1. PICK k \in RowsFor(op) :
        dialog' = IF op.dialog = "typed" THEN [Target(op, k) EXCEPT !.meant = NoId]
                  ELSE Target(op, k)
  BY <1>0
<1>2. UNCHANGED <<server, gone, page, id, shown, edited, locks, call, clock, fate>>
  BY DEF Ask
<1>3. PICK a : a = Target(op, k)
  OBVIOUS
<1>4. IsAim(a) /\ a.op = op
  BY <1>3, TargetFacts
<1>5. NamesItsRow(a)
  <2>1. CASE op.kind = "drop"
    BY <1>3, <2>1, TargetFacts DEF NamesItsRow
  <2>2. CASE op.kind # "drop"
    BY <1>3, <2>2, TargetFacts DEF NamesItsRow
  <2> QED
    BY <2>1, <2>2
<1>6. IsAim(dialog') /\ dialog'.op = op /\ NamesItsRow(dialog')
  <2>1. CASE op.dialog = "typed"
    <3>1. IsAim(dialog') /\ dialog'.op = op
      BY <1>1, <1>3, <1>4, <2>1, MeantFacts
    <3>2. op.aim # "row"
      BY <2>1, PageOps DEF IndInv
    <3> QED
      BY <3>1, <3>2 DEF NamesItsRow
  <2>2. CASE op.dialog # "typed"
    BY <1>1, <1>3, <1>4, <1>5, <2>2
  <2> QED
    BY <2>1, <2>2
<1>7. DialogSound'
  BY <1>0, <1>2, <1>6 DEF DialogSound, NamesItsRow
<1> QED
  BY <1>0, <1>2, <1>6, <1>7, DialogIndInv DEF Offered

LEMMA TypeIndInv == ASSUME IndInv, NEW i \in Ids, Type(i) PROVE IndInv'
<1>1. dialog.op.dialog = "typed" /\ dialog' = [dialog EXCEPT !.meant = i]
      /\ UNCHANGED <<server, gone, page, id, shown, edited, locks, call, clock, fate>>
  BY DEF Type
<1>2. dialog # NoDialog
  BY <1>1, Blanks DEF NoDialog
<1>3. IsAim(dialog') /\ dialog'.op = dialog.op
  BY <1>1, MeantFacts DEF IndInv, TypeOK
<1>4. dialog.op \in page.ops /\ dialog.op.dialog # "none"
  BY <1>2 DEF IndInv, DialogSound
<1>5. dialog.op.aim # "row"
  BY <1>1, <1>4, PageOps DEF IndInv
<1>6. DialogSound'
  BY <1>1, <1>3, <1>4, <1>5 DEF DialogSound, NamesItsRow
<1> QED
  BY <1>1, <1>2, <1>3, <1>6, DialogIndInv DEF IndInv, ClosedIsClean

LEMMA CancelIndInv == ASSUME IndInv, Cancel PROVE IndInv'
<1>1. dialog' = NoDialog
      /\ UNCHANGED <<server, gone, page, id, shown, edited, locks, call, clock, fate>>
  BY DEF Cancel
<1> QED
  BY <1>1, Blanks, DialogIndInv DEF DialogSound, NoDialog
LEMMA VersionFacts ==
  ASSUME NEW x, IsContent(x), NEW v, NEW y, y = [x EXCEPT !.version = v]
  PROVE  IsContent(y) /\ y.of = x.of /\ y.version = v
BY DEF IsContent

\* Every request stays sound when the page does.
LEMMA AllStay ==
  ASSUME \A c \in Calls : Sound(call[c]), page' = page, id' = id, fate \subseteq fate',
         NEW calls, calls = call
  PROVE  \A c \in Calls : Sound(calls[c])'
<1> TAKE c \in Calls
<1>1. PICK x : x = calls[c]
  OBVIOUS
<1>2. Sound(x)
  BY <1>1
<1>3. Sound(x)'
  BY <1>2, SoundStays
<1> QED
  BY <1>1, <1>3 DEF Sound

\* An operation that is aimed as its kind promises goes out.
LEMMA SendIndInv ==
  ASSUME IndInv, NEW a, IsAim(a), Send(a), id # NoId, a.op \in page.ops,
         NamesItsRow(a), a.op.dialog = "typed" => a.meant = a.id,
         a.op.kind = "save" => /\ shown # Nothing
                               /\ a.meant = shown.of /\ a.id \in {id, shown.of},
         UNCHANGED <<server, gone, page, id, dialog>>
  PROVE  IndInv'
<1> DEFINE r == [aim |-> a, reads |-> FALSE, n |-> clock', at |-> id, stage |-> "sent",
                 got |-> Nothing, home |-> "component"]
<1>1. /\ clock' = clock + 1 /\ Sent(call, r) /\ locks' = locks \cup ({a.op.lock} \ {"none"})
      /\ fate' = fate \cup Overlap(call)
  BY DEF Send
<1>2. \/ a.op.kind = "save" /\ shown' = [shown EXCEPT !.version = clock'] /\ edited' = FALSE
      \/ shown' = shown /\ edited' = edited
  BY DEF Send
<1>3. IsCall(r) /\ r.aim = a /\ r.reads = FALSE /\ r.stage = "sent" /\ r.home = "component"
  BY Blanks DEF IsCall
<1> HIDE DEF r
<1>4. PICK q, calls : q = r /\ calls = call
  OBVIOUS
<1>5. fate \subseteq fate' /\ fate' \subseteq fate \cup {"overlapped"}
  BY <1>1 DEF Overlap
<1>6. page.loads = "switch" /\ a.op.kind = "save" /\ a.meant # a.id => "late" \in fate
  BY DEF IndInv, LateAnswersOnly
<1>7. IsCall(q) /\ Sound(q)'
  BY <1>3, <1>4, <1>5, <1>6 DEF Sound, NamesItsRow
<1>8. \A c \in Calls : Sound(calls[c])'
  BY <1>4, <1>5, AllStay DEF IndInv
<1>9. /\ call' = [c \in Calls |-> call'[c]]
      /\ \A c \in Calls : IsCall(call'[c]) /\ Sound(call[c])'
  <2>1. TypeOK /\ calls = [c \in Calls |-> calls[c]] /\ Sent(calls, q)
    BY <1>1, <1>4 DEF IndInv, TypeOK
  <2> QED
    BY <1>4, <1>7, <1>8, <2>1, SentSound
<1>10. shown # Nothing => shown'.of = shown.of
  BY <1>2, VersionFacts DEF IndInv, TypeOK
<1>11. IsContent(shown') /\ (shown = Nothing => shown' = Nothing)
  BY <1>2, VersionFacts DEF IndInv, TypeOK
<1>12. TypeOK'
  <2>1. clock' \in Nat
    BY <1>1 DEF IndInv, TypeOK
  <2>2. edited' \in BOOLEAN
    BY <1>2 DEF IndInv, TypeOK
  <2> QED
    BY <1>9, <1>11, <2>1, <2>2 DEF IndInv, TypeOK
<1>13. LocksHeld'
  <2>1. PICK d \in Calls : /\ call[d] = NoCall /\ call'[d] = r
                           /\ \A c \in Calls \ {d} : call'[c] = call[c]
    BY <1>1, SentEffect DEF IndInv, TypeOK
  <2>2. Mine(d)' /\ call'[d].aim.op.lock = a.op.lock
    BY <1>3, <2>1 DEF Mine, Busy
  <2>3. ASSUME NEW c \in Calls, Mine(c) PROVE Mine(c)' /\ call'[c] = call[c]
    BY <2>1, <2>3, Blanks DEF Mine, Busy
  <2>4. ASSUME NEW l \in locks' PROVE \E c \in Calls : Mine(c)' /\ call'[c].aim.op.lock = l
    <3>1. CASE l \in locks
      BY <2>3, <3>1 DEF IndInv, LocksHeld, NoLockLeft
    <3>2. CASE l \notin locks
      BY <1>1, <2>2, <3>2
    <3> QED
      BY <3>1, <3>2
  <2>5. "none" \notin locks'
    BY <1>1 DEF IndInv, LocksHeld
  <2> QED
    BY <2>4, <2>5 DEF LocksHeld, NoLockLeft
<1>14. ClosedIsClean' /\ DialogSound' /\ OwnFormSaved' /\ RightTarget'
  BY <1>5 DEF IndInv, ClosedIsClean, DialogSound, NamesItsRow, OwnFormSaved, RightTarget
<1>15. LateAnswersOnly'
  BY <1>5, <1>10, <1>11 DEF IndInv, LateAnswersOnly
<1> QED
  BY <1>9, <1>12, <1>13, <1>14, <1>15 DEF IndInv

LEMMA SubmitIndInv == ASSUME IndInv, Submit PROVE IndInv'
<1>1. PICK op \in page.ops :
        op.dialog = "none" /\ Offered(op) /\ \E k \in RowsFor(op) : Send(Target(op, k))
  BY DEF Submit
<1>2. PICK k \in RowsFor(op) : Send(Target(op, k))
  BY <1>1
<1>3. PICK a : a = Target(op, k)
  OBVIOUS
<1>4. IsAim(a) /\ a.op = op /\ Send(a)
  BY <1>2, <1>3, TargetFacts
<1>5. NamesItsRow(a)
  <2>1. CASE op.kind = "drop"
    BY <1>3, <2>1, TargetFacts DEF NamesItsRow
  <2>2. CASE op.kind # "drop"
    BY <1>3, <2>2, TargetFacts DEF NamesItsRow
  <2> QED
    BY <2>1, <2>2
<1>6. op.kind = "save" => shown # Nothing /\ a.meant = shown.of /\ a.id \in {id, shown.of}
  <2> SUFFICES ASSUME op.kind = "save"
               PROVE  shown # Nothing /\ a.meant = shown.of /\ a.id \in {id, shown.of}
    OBVIOUS
  <2>1. shown # Nothing
    BY <1>1, PageOps DEF Offered, IndInv
  <2> QED
    BY <1>3, <2>1, TargetFacts
<1>7. id # NoId /\ UNCHANGED <<server, gone, page, id, dialog>>
  BY <1>1 DEF Submit, Offered
<1> QED
  BY <1>1, <1>4, <1>5, <1>6, <1>7, SendIndInv

LEMMA ConfirmIndInv == ASSUME IndInv, Confirm PROVE IndInv'
<1>1. /\ dialog # NoDialog /\ Send(Confirmed(dialog))
      /\ dialog.op.dialog = "typed" => dialog.meant = id
      /\ UNCHANGED <<server, gone, page, id, dialog>>
  BY DEF Confirm
<1>2. PICK a : a = Confirmed(dialog)
  OBVIOUS
<1>3. IsAim(a) /\ a.op = dialog.op /\ a.meant = dialog.meant
      /\ (dialog.op.aim \in {"page", "rule"} => a.id = id)
      /\ (dialog.op.aim \notin {"page", "rule"} => a.id = dialog.id)
  BY <1>2 DEF Confirmed, IndInv, TypeOK, IsAim
<1>4. dialog.op \in page.ops /\ dialog.op.dialog # "none" /\ NamesItsRow(dialog) /\ id # NoId
  BY <1>1 DEF IndInv, DialogSound, ClosedIsClean
<1>5. NamesItsRow(a)
  BY <1>3, <1>4 DEF NamesItsRow
<1>6. a.op.dialog = "typed" => a.meant = a.id
  BY <1>1, <1>3, <1>4, PageOps DEF IndInv
<1>7. a.op.kind # "save"
  BY <1>3, <1>4, PageOps DEF IndInv
<1>8. Send(a)
  BY <1>1, <1>2
<1> QED
  BY <1>1, <1>3, <1>4, <1>5, <1>6, <1>7, <1>8, SendIndInv

-----------------------------------------------------------------------------
(* The server.                                                             *)

\* What a request of the component may hit that was not meant.
LEMMA MisledOnlySo ==
  ASSUME IndInv, NEW c \in Calls, Mine(c), ~ call[c].reads, ~ Misses(call[c].aim),
         Misled(call[c].aim)
  PROVE  /\ How(call[c].aim.op) \notin {"wrong row", "wrong rule", "wrong typed"}
         /\ page.loads = "switch" /\ How(call[c].aim.op) = "wrong form" => "late" \in fate
<1>0. PICK a, op : a = call[c].aim /\ op = a.op
  OBVIOUS
<1>1. /\ op \in page.ops /\ NamesItsRow(a)
      /\ op.dialog = "typed" => a.meant = a.id
      /\ page.loads = "switch" /\ op.kind = "save" /\ a.meant # a.id => "late" \in fate
  <2>1. Sound(call[c])
    BY DEF IndInv
  <2> QED
    BY <1>0, <2>1 DEF Sound, Mine, Busy
<1>2. /\ op.kind \in Kinds /\ op.aim \in Aims
      /\ op.aim \in {"rule", "index"} => op.kind = "drop"
      /\ op.dialog = "typed" => op.aim = "page"
  BY <1>1, PageOps DEF IndInv
<1>3. op.aim # "index" => a.meant # a.id
  BY <1>0 DEF Misled
<1>4. op.aim = "rule" => a.meant = a.id
  BY <1>0, <1>2 DEF Misses
<1>5. CASE op.kind = "save"
  BY <1>0, <1>1, <1>2, <1>3, <1>5 DEF How
<1>6. CASE op.kind # "save"
  <2>1. op.dialog # "typed"
    BY <1>1, <1>2, <1>3
  <2>2. op.aim \in {"page", "shown", "index"}
    BY <1>0, <1>1, <1>2, <1>3, <1>4, <1>6 DEF NamesItsRow, Aims
  <2>3. How(op) \in {"wrong page", "wrong index"}
    BY <1>6, <2>1, <2>2 DEF How
  <2> QED
    BY <1>0, <2>3
<1> QED
  BY <1>5, <1>6

LEMMA ProcessIndInv ==
  ASSUME IndInv, NEW c \in Calls, Process(c) PROVE IndInv'
<1>1. PICK r : r = call[c]
  OBVIOUS
<1>2. /\ IsCall(r) /\ r.stage = "sent" /\ Sound(r)
      /\ UNCHANGED <<page, id, shown, edited, locks, dialog, clock>>
  BY <1>1 DEF Process, IndInv, TypeOK
<1> DEFINE Replies(stage, got) ==
            /\ call' = [call EXCEPT ![c] = Answered(r, stage, got)]
            /\ IsContent(got) /\ (r.reads /\ stage = "done" => got.of = r.aim.id)
<1>3a. PICK stage \in {"done", "failed"} : \E got : Replies(stage, got)
  <2>1. CASE call' = [call EXCEPT ![c] = Answered(r, "failed", Nothing)]
    BY <2>1, Blanks
  <2>2. CASE r.reads /\ call' = [call EXCEPT ![c] = Answered(r, "done", Content(r.aim.id))]
    <3>1. IsContent(Content(r.aim.id)) /\ Content(r.aim.id).of = r.aim.id
      BY DEF Content, ContentOf, IsContent
    <3> QED
      BY <2>2, <3>1
  <2>3. CASE ~ r.reads
             /\ call' = [call EXCEPT ![c] =
                  Answered(r, "done", IF r.aim.op.then = "show" THEN ContentOf(r.aim.id, server')
                                      ELSE Nothing)]
    BY <2>3, Blanks DEF ContentOf, IsContent
  <2> QED
    BY <1>1, <2>1, <2>2, <2>3 DEF Process
<1>3. PICK got : Replies(stage, got)
  BY <1>3a
<1>4. PICK q : q = Answered(r, stage, got)
  OBVIOUS
<1>5. /\ IsCall(q) /\ q.stage = stage /\ q.got = got
      /\ q.aim = r.aim /\ q.reads = r.reads /\ q.home = r.home
  BY <1>2, <1>3, <1>4, AnsweredFacts
<1>6. /\ call'[c] = q /\ \A d \in Calls \ {c} : call'[d] = call[d]
      /\ call' = [d \in Calls |-> call'[d]]
  BY <1>3, <1>4 DEF IndInv, TypeOK
<1>7. /\ fate \subseteq fate'
      /\ fate' # fate => \E how : /\ fate' = fate \cup {how}
                                  /\ how \notin {"wrong row", "wrong rule", "wrong typed"}
                                  /\ page.loads = "switch" /\ how = "wrong form" => "late" \in fate
  <2>1. CASE UNCHANGED fate
    BY <2>1
  <2>2. CASE ~ r.reads /\ ~ Misses(r.aim) /\ Apply(r)
    <3>1. fate' = fate \cup (IF r.home = "component" /\ Misled(r.aim) THEN {How(r.aim.op)} ELSE {})
      BY <2>2 DEF Apply
    <3>2. CASE r.home = "component" /\ Misled(r.aim)
      <4>1. Mine(c)
        BY <1>1, <1>2, <3>2 DEF Mine, Busy
      <4> QED
        BY <1>1, <2>2, <3>1, <3>2, <4>1, MisledOnlySo
    <3> QED
      BY <3>1, <3>2
  <2> QED
    BY <1>1, <2>1, <2>2 DEF Process
<1>8. server' = [i \in Ids |-> server'[i]]
  BY DEF Process, Apply, IndInv, TypeOK
<1>9. TypeOK'
  BY <1>2, <1>5, <1>6, <1>8 DEF IndInv, TypeOK
<1>10. \A d \in Calls : Mine(d)' <=> Mine(d)
  BY <1>1, <1>2, <1>3, <1>5, <1>6 DEF Mine, Busy
<1>11. LocksHeld'
  <2>1. \A d \in Calls : call'[d].aim = call[d].aim
    BY <1>1, <1>5, <1>6
  <2> QED
    BY <1>2, <1>10, <2>1, LocksStay DEF IndInv
<1>12. \A d \in Calls : Sound(call[d])'
  <2> TAKE d \in Calls
  <2>1. CASE d = c
    <3>1. Sound(q)'
      BY <1>2, <1>3, <1>5, <1>7 DEF Sound, NamesItsRow
    <3> QED
      BY <1>6, <2>1, <3>1 DEF Sound
  <2>2. CASE d # c
    <3>1. PICK x : x = call[d]
      OBVIOUS
    <3>2. Sound(x)'
      BY <1>2, <1>7, <3>1, SoundStays DEF IndInv
    <3> QED
      BY <1>6, <2>2, <3>1, <3>2 DEF Sound
  <2> QED
    BY <2>1, <2>2
<1>13. ClosedIsClean'
  <2>1. id = NoId => fate' = fate
    <3>1. id = NoId => r.home # "component"
      BY <1>1, <1>2 DEF IndInv, ClosedIsClean, Mine, Busy
    <3> QED
      BY <1>1, <3>1 DEF Process, Apply
  <2> QED
    BY <1>2, <1>10, <2>1 DEF IndInv, ClosedIsClean
<1>14. DialogSound' /\ LateAnswersOnly' /\ OwnFormSaved' /\ RightTarget'
  BY <1>2, <1>7 DEF IndInv, DialogSound, NamesItsRow, LateAnswersOnly, OwnFormSaved, RightTarget
<1> QED
  BY <1>9, <1>11, <1>12, <1>13, <1>14 DEF IndInv
-----------------------------------------------------------------------------
(* The answers.                                                            *)

LEMMA WithoutFacts ==
  ASSUME TypeOK, NEW c \in Calls
  PROVE  /\ Without(c) = [d \in Calls |-> Without(c)[d]]
         /\ Without(c)[c] = NoCall /\ \A d \in Calls \ {c} : Without(c)[d] = call[d]
BY DEF TypeOK, Without

\* Some requests are no more; what is left of them stays sound.
LEMMA FewerSound ==
  ASSUME IndInv, NEW calls, \A c \in Calls : calls[c] \in {call[c], NoCall},
         page' = page, id' = id, fate \subseteq fate'
  PROVE  \A c \in Calls : IsCall(calls[c]) /\ Sound(calls[c])'
<1> TAKE c \in Calls
<1>1. CASE calls[c] = NoCall
  BY <1>1, Blanks, NoCallSound DEF Sound
<1>2. CASE calls[c] = call[c]
  <2>1. PICK x : x = calls[c]
    OBVIOUS
  <2>2. Sound(x) /\ IsCall(x)
    BY <1>2, <2>1 DEF IndInv, TypeOK
  <2>3. Sound(x)'
    BY <2>2, SoundStays
  <2> QED
    BY <2>1, <2>2, <2>3 DEF Sound
<1> QED
  BY <1>1, <1>2

\* What an answer may do to a page.
LEMMA AnswerIndInv ==
  ASSUME IndInv, id # NoId,
         call' = [c \in Calls |-> call'[c]],
         \A c \in Calls : IsCall(call'[c]) /\ Sound(call[c])',
         LocksHeld', dialog' \in {dialog, NoDialog},
         IsContent(shown'), edited' \in BOOLEAN,
         fate \subseteq fate', fate' \subseteq fate \cup {"late", "failed", "overlapped"},
         \/ shown' \in {shown, Nothing}
         \/ page.loads = "switch" /\ shown'.of # id => "late" \in fate',
         UNCHANGED <<server, gone, page, id, clock>>
  PROVE  IndInv'
<1>1. TypeOK'
  BY Blanks DEF IndInv, TypeOK, NoDialog
<1>2. DialogSound'
  BY DEF IndInv, DialogSound, NamesItsRow, NoDialog
<1>3. LateAnswersOnly'
  BY DEF IndInv, LateAnswersOnly
<1>4. ClosedIsClean' /\ OwnFormSaved' /\ RightTarget'
  BY DEF IndInv, ClosedIsClean, OwnFormSaved, RightTarget
<1> QED
  BY <1>1, <1>2, <1>3, <1>4 DEF IndInv

\* The request of an answer takes its flag along.
LEMMA ReleaseHolds ==
  ASSUME IndInv, NEW c \in Calls, locks' = locks \ {call[c].aim.op.lock},
         \A d \in Calls \ {c} : Mine(d) /\ call[d].aim.op.lock # "none" => call'[d] = call[d]
  PROVE  LocksHeld'
<1>1. ASSUME NEW d \in Calls, Mine(d), call[d].aim.op.lock \in locks'
      PROVE  call'[d] = call[d]
  BY <1>1 DEF IndInv, LocksHeld
<1> QED
  BY <1>1, LocksStay DEF IndInv, Mine, Busy

\* Nothing that is answered for good is kept, and what it carries is shown.
LEMMA ShowFacts ==
  ASSUME IndInv, NEW c \in Calls, Mine(c), call[c].stage = "done", Show(call[c])
  PROVE  /\ IsContent(shown') /\ edited' = FALSE
         /\ fate \subseteq fate' /\ fate' \subseteq fate \cup {"late"}
         /\ page.loads = "switch" /\ shown'.of # id => "late" \in fate'
<1>1. IsCall(call[c]) /\ Sound(call[c])
  BY DEF IndInv, TypeOK
<1>2. shown' = call[c].got /\ edited' = FALSE
      /\ fate' = fate \cup (IF call[c].aim.op # Read /\ call[c].got.of # id THEN {"late"} ELSE {})
  BY DEF Show
<1>3. page.loads = "switch" /\ call[c].aim.op = Read => call[c].got.of = id
  <2>1. call[c].aim.op = Read => call[c].reads
    BY <1>1, PageOps DEF Sound, Mine, Busy, IndInv
  <2> QED
    BY <1>1, <2>1 DEF Sound, Mine, Busy
<1> QED
  BY <1>1, <1>2, <1>3 DEF IsCall

LEMMA MineOpen == ASSUME IndInv, NEW c \in Calls, Mine(c) PROVE id # NoId
BY DEF IndInv, ClosedIsClean

LEMMA ReadAnswerIndInv ==
  ASSUME IndInv, NEW c \in Calls, ReadAnswer(c) PROVE IndInv'
<1>1. /\ Mine(c) /\ call[c].reads /\ call' = Without(c)
      /\ locks' = locks \ {call[c].aim.op.lock}
      /\ UNCHANGED <<server, gone, page, id, dialog, clock>>
  BY DEF ReadAnswer, Release
<1>2. /\ IsContent(shown') /\ edited' \in BOOLEAN
      /\ fate \subseteq fate' /\ fate' \subseteq fate \cup {"late", "failed", "overlapped"}
      /\ \/ shown' \in {shown, Nothing}
         \/ (page.loads = "switch" /\ shown'.of # id => "late" \in fate')
  <2>1. CASE call[c].stage = "done" /\ Show(call[c])
    BY <1>1, <2>1, ShowFacts
  <2>2. CASE ~ (call[c].stage = "done" /\ Show(call[c]))
    <3>1. /\ fate' = fate \cup {"failed"}
          /\ (shown' = Nothing /\ edited' = FALSE) \/ UNCHANGED <<shown, edited>>
      BY <2>2 DEF ReadAnswer
    <3> QED
      BY <3>1, Blanks DEF IndInv, TypeOK
  <2> QED
    BY <2>1, <2>2
<1>3. PICK calls : calls = Without(c)
  OBVIOUS
<1>4. \A d \in Calls : IsCall(calls[d]) /\ Sound(calls[d])'
  <2>1. \A d \in Calls : calls[d] \in {call[d], NoCall}
    BY <1>3, WithoutFacts DEF IndInv
  <2> QED
    BY <1>1, <1>2, <2>1, FewerSound
<1>5. /\ call' = [d \in Calls |-> call'[d]]
      /\ \A d \in Calls : IsCall(call'[d]) /\ Sound(call[d])'
  BY <1>1, <1>3, <1>4, WithoutFacts DEF IndInv, Sound
<1>6. LocksHeld'
  BY <1>1, WithoutFacts, ReleaseHolds DEF IndInv
<1> QED
  BY <1>1, <1>2, <1>5, <1>6, MineOpen, AnswerIndInv

LEMMA DeadAnswerIndInv ==
  ASSUME IndInv, NEW c \in Calls, DeadAnswer(c) PROVE IndInv'
<1>1. /\ ~ Mine(c) /\ call' = Without(c)
      /\ UNCHANGED <<server, gone, page, id, shown, edited, locks, dialog, clock, fate>>
  BY DEF DeadAnswer
<1>2. PICK calls : calls = Without(c)
  OBVIOUS
<1>3. \A d \in Calls : IsCall(calls[d]) /\ Sound(calls[d])'
  <2>1. \A d \in Calls : calls[d] \in {call[d], NoCall}
    BY <1>2, WithoutFacts DEF IndInv
  <2> QED
    BY <1>1, <2>1, FewerSound
<1>4. /\ call' = [d \in Calls |-> call'[d]]
      /\ \A d \in Calls : IsCall(call'[d]) /\ Sound(call[d])'
  BY <1>1, <1>2, <1>3, WithoutFacts DEF IndInv, Sound
<1>5. \A d \in Calls : (Mine(d)' => Mine(d)) /\ (Mine(d) => call'[d] = call[d])
  BY <1>1, Blanks, WithoutFacts DEF IndInv, Mine, Busy
<1>6. LocksHeld'
  BY <1>1, <1>5, LocksStay DEF IndInv, Mine, Busy
<1>7. TypeOK'
  BY <1>1, <1>4 DEF IndInv, TypeOK
<1> QED
  BY <1>1, <1>4, <1>5, <1>6, <1>7 DEF IndInv, ClosedIsClean, DialogSound, NamesItsRow,
     LateAnswersOnly, OwnFormSaved, RightTarget

LEMMA ReloadIndInv ==
  ASSUME IndInv, NEW c \in Calls, Mine(c), ~ call[c].reads, Reload(c),
         dialog' = Closes(call[c]), edited' = edited,
         fate \subseteq fate', fate' \subseteq fate \cup {"failed", "overlapped"},
         UNCHANGED <<server, gone, page, id, clock>>
  PROVE  IndInv'
<1>1. PICK i \in Ids : i = id
  BY MineOpen DEF IndInv, TypeOK
<1>2. dialog' \in {dialog, NoDialog}
  BY DEF Closes
<1>3. call[c].aim.op \in page.ops
  BY DEF IndInv, Sound, Mine, Busy
<1>4. ASSUME NEW calls, calls = [d \in Calls |-> calls[d]],
             \A d \in Calls : calls[d] \in {call[d], NoCall},
             NEW r, IsCall(r), Sound(r)', Sent(calls, r), LocksHeld',
             shown' \in {shown, Nothing}
      PROVE  IndInv'
  <2>1. \A d \in Calls : Sound(calls[d])'
    BY <1>4, FewerSound
  <2>2. /\ call' = [d \in Calls |-> call'[d]]
        /\ \A d \in Calls : IsCall(call'[d]) /\ Sound(call[d])'
    BY <1>4, <2>1, SentSound DEF IndInv
  <2>3. IsContent(shown') /\ edited' \in BOOLEAN
    BY <1>4, Blanks DEF IndInv, TypeOK
  <2> QED
    BY <1>2, <1>4, <2>2, <2>3, MineOpen, AnswerIndInv
<1>5. CASE page.reload \in {"switch", "blank"}
  <2> DEFINE kept == [d \in Calls |-> IF Replaced(d) THEN NoCall ELSE Without(c)[d]]
  <2>1. /\ Sent(kept, Reading(Read, i)) /\ locks' = locks \ {call[c].aim.op.lock}
        /\ shown' \in {shown, Nothing}
    BY <1>1, <1>5 DEF Reload, Release
  <2>2. /\ kept = [d \in Calls |-> kept[d]]
        /\ \A d \in Calls : kept[d] \in {call[d], NoCall}
        /\ \A d \in Calls \ {c} : ~ Replaced(d) => kept[d] = call[d]
    BY WithoutFacts DEF IndInv
  <2> HIDE DEF kept
  <2>3. PICK r : r = Reading(Read, i)
    OBVIOUS
  <2>4. IsCall(r) /\ r.aim.op = Read /\ r.aim.id = i /\ r.reads /\ r.stage = "sent"
    BY <2>3, ReadingFacts
  <2>5. Sound(r)'
    BY <1>1, <2>4 DEF Sound
  <2>6. ASSUME NEW d \in Calls \ {c}, Mine(d), call[d].aim.op.lock # "none"
        PROVE  call'[d] = call[d]
    <3>1. ~ Replaced(d)
      BY <2>6, Blanks DEF Replaced
    <3>2. kept[d] = call[d] /\ kept[d] # NoCall
      BY <2>2, <2>6, <3>1, Blanks DEF Mine, Busy
    <3> QED
      BY <2>1, <2>2, <3>2, SentEffect
  <2>7. LocksHeld'
    BY <2>1, <2>6, ReleaseHolds
  <2> QED
    BY <1>4, <2>1, <2>2, <2>3, <2>4, <2>5, <2>7
<1>6. CASE page.reload \notin {"switch", "blank"}
  <2>1. PICK k : Sent(Without(c), Reading(call[c].aim.op, k))
    BY <1>6 DEF Reload
  <2>2. shown' = shown /\ locks' = locks
    BY <1>6 DEF Reload
  <2>3. PICK calls, r : calls = Without(c) /\ r = Reading(call[c].aim.op, k)
    OBVIOUS
  <2>4. /\ calls = [d \in Calls |-> calls[d]]
        /\ calls[c] = NoCall /\ \A d \in Calls \ {c} : calls[d] = call[d]
    BY <2>3, WithoutFacts DEF IndInv
  <2>5. /\ IsCall(r) /\ r.aim.op = call[c].aim.op /\ r.reads
        /\ r.stage = "sent" /\ r.home = "component"
    BY <2>3, ReadingFacts
  <2>6. Sound(r)'
    BY <1>3, <2>5, PageOps DEF IndInv, Sound
  <2>7. PICK e \in Calls : call'[e] = r /\ calls[e] = NoCall
                           /\ \A d \in Calls \ {e} : call'[d] = calls[d]
    BY <2>1, <2>3, <2>4, SentEffect
  <2>8. LocksHeld'
    <3>1. Mine(e)' /\ call'[e].aim.op.lock = call[c].aim.op.lock
      BY <2>5, <2>7 DEF Mine, Busy
    <3>2. ASSUME NEW d \in Calls, Mine(d), d # c PROVE Mine(d)' /\ call'[d] = call[d]
      BY <2>4, <2>7, <3>2, Blanks DEF Mine, Busy
    <3>3. ASSUME NEW l \in locks PROVE \E d \in Calls : Mine(d)' /\ call'[d].aim.op.lock = l
      <4>1. PICK d \in Calls : Mine(d) /\ call[d].aim.op.lock = l
        BY <3>3 DEF IndInv, LocksHeld, NoLockLeft
      <4> QED
        BY <3>1, <3>2, <4>1
    <3> QED
      BY <2>2, <3>3 DEF IndInv, LocksHeld, NoLockLeft
  <2>9. Sent(calls, r) /\ \A d \in Calls : calls[d] \in {call[d], NoCall}
    BY <2>1, <2>3, <2>4
  <2> QED
    BY <1>4, <2>2, <2>4, <2>5, <2>6, <2>8, <2>9
<1> QED
  BY <1>5, <1>6

LEMMA OpAnswerIndInv ==
  ASSUME IndInv, NEW c \in Calls, OpAnswer(c) PROVE IndInv'
<1>1. /\ Mine(c) /\ ~ call[c].reads /\ dialog' = Closes(call[c])
      /\ UNCHANGED <<server, gone, page, id, clock>>
  BY DEF OpAnswer
<1>2. CASE Reloads(call[c])
  <2>1. /\ Reload(c) /\ edited' = edited
        /\ fate' = fate \cup (IF call[c].stage = "failed" THEN {"failed"} ELSE {})
                        \cup Overlap(Without(c))
    BY <1>2 DEF OpAnswer
  <2>2. fate \subseteq fate' /\ fate' \subseteq fate \cup {"failed", "overlapped"}
    BY <2>1 DEF Overlap
  <2> QED
    BY <1>1, <2>1, <2>2, ReloadIndInv
<1>3. CASE ~ Reloads(call[c])
  <2>1. call' = Without(c) /\ locks' = locks \ {call[c].aim.op.lock}
    BY <1>3 DEF OpAnswer, Release
  <2>2. /\ IsContent(shown') /\ edited' \in BOOLEAN
        /\ fate \subseteq fate' /\ fate' \subseteq fate \cup {"late", "failed", "overlapped"}
        /\ \/ shown' \in {shown, Nothing}
           \/ (page.loads = "switch" /\ shown'.of # id => "late" \in fate')
    <3>1. CASE call[c].stage = "done" /\ Show(call[c])
      BY <1>1, <3>1, ShowFacts
    <3>2. CASE ~ (call[c].stage = "done" /\ Show(call[c]))
      <4>1. /\ fate' = fate \cup (IF call[c].stage = "failed" THEN {"failed"} ELSE {})
            /\ UNCHANGED <<shown, edited>>
        BY <1>3, <3>2 DEF OpAnswer
      <4> QED
        BY <4>1 DEF IndInv, TypeOK
    <3> QED
      BY <3>1, <3>2
  <2>3. PICK calls : calls = Without(c)
    OBVIOUS
  <2>4. \A d \in Calls : IsCall(calls[d]) /\ Sound(calls[d])'
    <3>1. \A d \in Calls : calls[d] \in {call[d], NoCall}
      BY <2>3, WithoutFacts DEF IndInv
    <3> QED
      BY <1>1, <2>2, <3>1, FewerSound
  <2>5. /\ call' = [d \in Calls |-> call'[d]]
        /\ \A d \in Calls : IsCall(call'[d]) /\ Sound(call[d])'
    BY <2>1, <2>3, <2>4, WithoutFacts DEF IndInv, Sound
  <2>6. LocksHeld'
    BY <2>1, WithoutFacts, ReleaseHolds DEF IndInv
  <2>7. dialog' \in {dialog, NoDialog}
    BY <1>1 DEF Closes
  <2> QED
    BY <1>1, <2>2, <2>5, <2>6, <2>7, MineOpen, AnswerIndInv
<1> QED
  BY <1>2, <1>3

-----------------------------------------------------------------------------
LEMMA NextIndInv == IndInv /\ [Next]_vars => IndInv'
<1> SUFFICES ASSUME IndInv, [Next]_vars PROVE IndInv'
  OBVIOUS
<1>1. CASE UNCHANGED vars
  BY <1>1 DEF vars, IndInv, TypeOK, ClosedIsClean, LocksHeld, NoLockLeft, Mine, Busy,
     DialogSound, NamesItsRow, Sound, LateAnswersOnly, OwnFormSaved, RightTarget
<1>2. CASE Close \/ Refresh \/ Edit \/ Submit \/ Ask \/ Cancel \/ Confirm
  BY <1>2, CloseIndInv, RefreshIndInv, EditIndInv, SubmitIndInv, AskIndInv, CancelIndInv,
     ConfirmIndInv
<1>3. CASE \E p \in PageSet, i \in Ids : Open(p, i)
  BY <1>3, OpenIndInv
<1>4. CASE \E i \in Ids : Move(i) \/ Type(i)
  BY <1>4, MoveIndInv, TypeIndInv
<1>5. CASE \E c \in Calls :
             Process(c) \/ ReadAnswer(c) \/ OpAnswer(c) \/ LeaveAnswer(c) \/ DeadAnswer(c)
  BY <1>5, ProcessIndInv, ReadAnswerIndInv, OpAnswerIndInv, LeaveAnswerIndInv, DeadAnswerIndInv
<1> QED
  BY <1>1, <1>2, <1>3, <1>4, <1>5 DEF Next

\* The state keeps its shape, and what a component shows, asks and has under way
\* is in step with its page and the thing in the URL.
THEOREM IndInvCorrect == Spec => []IndInv
BY InitIndInv, NextIndInv, PTL DEF Spec

\* Whatever is lost, late or repeated, a page that drops its loads shows another
\* thing than its URL names only by the late answer to a change.
THEOREM LateAnswersOnlyCorrect == Spec => []LateAnswersOnly
<1>1. IndInv => LateAnswersOnly
  BY DEF IndInv
<1> QED
  BY <1>1, IndInvCorrect, PTL

\* A form that was filled from one thing is saved to another only after such an
\* answer.
THEOREM OwnFormSavedCorrect == Spec => []OwnFormSaved
<1>1. IndInv => OwnFormSaved
  BY DEF IndInv
<1> QED
  BY <1>1, IndInvCorrect, PTL

\* A row that is named by itself and a thing whose name was typed are the ones
\* that were meant.
THEOREM RightTargetCorrect == Spec => []RightTarget
<1>1. IndInv => RightTarget
  BY DEF IndInv
<1> QED
  BY <1>1, IndInvCorrect, PTL

\* A flag that is set has a request that will clear it.
THEOREM NoLockLeftCorrect == Spec => []NoLockLeft
<1>1. IndInv => NoLockLeft
  BY DEF IndInv, LocksHeld
<1> QED
  BY <1>1, IndInvCorrect, PTL
-----------------------------------------------------------------------------
(* What a page shows in the end.                                           *)

LEMMA Coherence ==
  ASSUME TypeOK
  PROVE  /\ ReadsAgain(page) /\ page.loads # "none" =>
              page.loads = "switch" /\ \A op \in page.ops : op.then \in {"reload", "always"}
         /\ page.loads # "none" => \A op \in page.ops :
              op.then \notin {"show", "reload", "always", "leave"} =>
                op.kind \in {"save", "act", "end"} /\ (op.kind = "save" => op.then = "keep")
BY PagesAssumption DEF TypeOK, CoherentPage, Coherent

LEMMA InitConverge == Init => ConvergeInv
<1> SUFFICES ASSUME Init PROVE ConvergeInv
  OBVIOUS
<1>1. id = NoId /\ \A c \in Calls : ~ Mine(c)
  BY Blanks DEF Init, Mine, Busy
<1> QED
  BY <1>1 DEF ConvergeInv, NoHeirs, OneAtATime, OneRead, TakesTurns, LastReadCounts, Undisturbed

\* Nothing is asked of a page that is closed.
LEMMA ClosedConverge ==
  ASSUME IndInv', id' = NoId PROVE ConvergeInv'
<1>1. \A c \in Calls : ~ Mine(c)'
  BY DEF IndInv, ClosedIsClean
<1>2. ~ Undisturbed'
  BY DEF Undisturbed
<1> QED
  BY <1>1, <1>2 DEF ConvergeInv, NoHeirs, OneAtATime, OneRead, TakesTurns, LastReadCounts

\* The page is read for the thing in the URL, beside no other read that counts.
LEMMA FreshRead ==
  ASSUME NEW calls, calls = [c \in Calls |-> calls[c]],
         NEW i, id' = i, Sent(calls, Reading(Read, i)),
         "overlapped" \notin fate' =>
           \A c \in Calls : calls[c].stage = "none" \/ calls[c].home # "component",
         ReadsAgain(page)' /\ page'.loads # "none" =>
           \A c \in Calls : calls[c].stage # "none" /\ calls[c].home = "component"
                              => ~ calls[c].reads,
         id' # NoId /\ "inherited" \notin fate' => \A c \in Calls : calls[c].home # "page"
  PROVE  ConvergeInv'
<1>1. PICK r : r = Reading(Read, i)
  OBVIOUS
<1>2. /\ r.aim.op = Read /\ r.aim.id = i /\ r.reads
      /\ r.stage = "sent" /\ r.home = "component"
  BY <1>1, ReadingFacts
<1>3. PICK d \in Calls : call'[d] = r /\ \A c \in Calls \ {d} : call'[c] = calls[c]
  BY <1>1, SentEffect
<1>4. Mine(d)'
  BY <1>2, <1>3 DEF Mine, Busy
<1>5. NoHeirs'
  BY <1>2, <1>3 DEF NoHeirs
<1>6. "overlapped" \notin fate' => \A c \in Calls \ {d} : ~ Mine(c)'
  BY <1>3 DEF Mine, Busy
<1>7. OneAtATime'
  BY <1>6 DEF OneAtATime
<1>8. ReadsAgain(page)' /\ page'.loads # "none" =>
        \A c \in Calls \ {d} : Mine(c)' => ~ call'[c].reads
  BY <1>3 DEF Mine, Busy
<1>9. OneRead'
  BY <1>2, <1>3, <1>8 DEF OneRead
<1>10. InTurn(r)'
  BY <1>2 DEF InTurn
<1>11. TakesTurns'
  BY <1>3, <1>4, <1>6, <1>10 DEF TakesTurns, InTurn
<1>12. LastReadCounts'
  BY <1>2, <1>3, <1>4, <1>8 DEF LastReadCounts, Undisturbed
<1> QED
  BY <1>5, <1>7, <1>9, <1>11, <1>12 DEF ConvergeInv

LEMMA NoOverlap ==
  ASSUME NEW calls, "overlapped" \notin Overlap(calls), NEW c \in Calls
  PROVE  calls[c].stage = "none" \/ calls[c].home # "component"
BY DEF Overlap

\* A page that loads nothing.
LEMMA BareConverge ==
  ASSUME page'.loads = "none", "overlapped" \notin fate' => \A c \in Calls : ~ Mine(c)',
         NoHeirs'
  PROVE  ConvergeInv'
BY DEF ConvergeInv, OneAtATime, OneRead, TakesTurns, LastReadCounts, Undisturbed

LEMMA OpenConverge ==
  ASSUME IndInv, NEW p \in PageSet, NEW i \in Ids, Open(p, i)
  PROVE  ConvergeInv'
<1> DEFINE left == [c \in Calls |->
                      IF p = page \/ call[c].home = "away" THEN call[c]
                      ELSE IF call[c].aim.op.then = "leave" THEN [call[c] EXCEPT !.home = "away"]
                      ELSE NoCall]
<1>0. /\ id = NoId /\ page' = p /\ id' = i
      /\ IF p.loads = "none" THEN call' = left ELSE Sent(left, Reading(Read, i))
      /\ fate' = IF \E c \in Calls : left[c].home = "page" THEN {"inherited"} ELSE {}
  BY DEF Open
<1>1. ASSUME NEW c \in Calls
      PROVE  left[c].stage = "none" \/ left[c].home # "component"
  <2>1. IsCall(call[c]) /\ (call[c].stage = "none" \/ call[c].home # "component")
    BY <1>0 DEF IndInv, TypeOK, ClosedIsClean, Mine, Busy
  <2>2. CASE left[c] = call[c] \/ left[c] = NoCall
    BY <2>1, <2>2, Blanks
  <2>3. CASE left[c] = [call[c] EXCEPT !.home = "away"]
    BY <2>1, <2>3, HomeFacts
  <2> QED
    BY <2>2, <2>3
<1>2. left = [c \in Calls |-> left[c]]
  OBVIOUS
<1> HIDE DEF left
<1>3. "inherited" \notin fate' => \A c \in Calls : left[c].home # "page"
  BY <1>0
<1>4. CASE p.loads = "none"
  BY <1>0, <1>1, <1>3, <1>4, BareConverge DEF NoHeirs, Mine, Busy
<1>5. CASE p.loads # "none"
  BY <1>0, <1>1, <1>2, <1>3, <1>5, FreshRead
<1> QED
  BY <1>4, <1>5

LEMMA MoveConverge ==
  ASSUME IndInv, ConvergeInv, NEW i \in Ids, Move(i) PROVE ConvergeInv'
<1> DEFINE kept == IF page.loads = "switch"
                     THEN [c \in Calls |-> IF Replaced(c) THEN NoCall ELSE call[c]]
                     ELSE call
<1>1. /\ kept = [c \in Calls |-> kept[c]]
      /\ \A c \in Calls : kept[c] \in {call[c], NoCall}
      /\ \A c \in Calls : page.loads = "switch" /\ Replaced(c) => kept[c] = NoCall
  BY DEF IndInv, TypeOK
<1>2. /\ id # NoId /\ id' = i /\ page' = page
      /\ IF page.loads = "none" THEN call' = call ELSE Sent(kept, Reading(Read, i))
      /\ fate' = fate \cup {"moved"} \cup Overlap(kept)
  BY DEF Move
<1>3. page.loads = "none" => kept = call
  OBVIOUS
<1> HIDE DEF kept
<1>4. "overlapped" \notin fate' =>
        \A c \in Calls : kept[c].stage = "none" \/ kept[c].home # "component"
  BY <1>2, NoOverlap
<1>5. "inherited" \notin fate' => \A c \in Calls : call[c].home # "page" /\ kept[c].home # "page"
  BY <1>1, <1>2, Blanks DEF ConvergeInv, NoHeirs
<1>6. CASE page.loads = "none"
  BY <1>2, <1>3, <1>4, <1>5, <1>6, BareConverge DEF NoHeirs, Mine, Busy
<1>7. CASE page.loads # "none"
  <2>1. ReadsAgain(page) =>
          \A c \in Calls : kept[c].stage # "none" /\ kept[c].home = "component" => ~ kept[c].reads
    <3> SUFFICES ASSUME ReadsAgain(page), NEW c \in Calls,
                        kept[c].stage # "none", kept[c].home = "component", kept[c].reads
                 PROVE  FALSE
      OBVIOUS
    <3>1. kept[c] = call[c] /\ Mine(c) /\ call[c].reads
      BY <1>1, Blanks DEF Mine, Busy
    <3>2. page.loads = "switch" /\ Replaced(c)
      BY <1>7, <3>1, Coherence DEF ConvergeInv, OneRead, Replaced, IndInv
    <3> QED
      BY <1>1, <3>2, Blanks
  <2>2. ReadsAgain(page)' = ReadsAgain(page)
    BY <1>2
  <2> QED
    BY <1>1, <1>2, <1>4, <1>5, <1>7, <2>1, <2>2, FreshRead
<1> QED
  BY <1>6, <1>7

LEMMA RefreshConverge ==
  ASSUME IndInv, ConvergeInv, Refresh PROVE ConvergeInv'
<1> DEFINE kept == [c \in Calls |-> IF Replaced(c) /\ page.loads = "switch" THEN NoCall ELSE call[c]]
<1>1. /\ kept = [c \in Calls |-> kept[c]]
      /\ \A c \in Calls : kept[c] \in {call[c], NoCall}
      /\ \A c \in Calls : page.loads = "switch" /\ Replaced(c) => kept[c] = NoCall
  OBVIOUS
<1>2. /\ id # NoId /\ Sent(kept, Reading(Read, id)) /\ fate' = fate \cup Overlap(kept)
      /\ UNCHANGED <<page, id>>
  BY DEF Refresh
<1>3. PICK i : i = id
  OBVIOUS
<1> HIDE DEF kept
<1>4. "overlapped" \notin fate' =>
        \A c \in Calls : kept[c].stage = "none" \/ kept[c].home # "component"
  BY <1>2, NoOverlap
<1>5. "inherited" \notin fate' => \A c \in Calls : kept[c].home # "page"
  BY <1>1, <1>2, Blanks DEF ConvergeInv, NoHeirs
<1>6. ReadsAgain(page) /\ page.loads # "none" =>
        \A c \in Calls : kept[c].stage # "none" /\ kept[c].home = "component" => ~ kept[c].reads
  <2> SUFFICES ASSUME ReadsAgain(page), page.loads # "none", NEW c \in Calls,
                      kept[c].stage # "none", kept[c].home = "component", kept[c].reads
               PROVE  FALSE
    OBVIOUS
  <2>1. kept[c] = call[c] /\ Mine(c) /\ call[c].reads
    BY <1>1, Blanks DEF Mine, Busy
  <2>2. page.loads = "switch" /\ Replaced(c)
    BY <2>1, Coherence DEF ConvergeInv, OneRead, Replaced, IndInv
  <2> QED
    BY <1>1, <2>2, Blanks
<1>7. ReadsAgain(page)' = ReadsAgain(page)
  BY <1>2
<1>8. Sent(kept, Reading(Read, i)) /\ id' = i
  BY <1>2, <1>3
<1> QED
  BY <1>1, <1>2, <1>4, <1>5, <1>6, <1>7, <1>8, FreshRead

LEMMA SameConverge ==
  ASSUME ConvergeInv, UNCHANGED <<server, gone, page, id, shown, call, fate>>
  PROVE  ConvergeInv'
BY DEF ConvergeInv, NoHeirs, OneAtATime, OneRead, TakesTurns, LastReadCounts, Undisturbed, InTurn,
   Content, ContentOf, Mine, Busy
LEMMA SubsetConverge ==
  ASSUME page' = page, id' = id, fate \subseteq fate', ConvergeInv,
         \A c \in Calls : call'[c] \in {call[c], NoCall}
  PROVE  /\ NoHeirs' /\ OneAtATime' /\ OneRead'
         /\ \A c \in Calls : Mine(c)' => Mine(c) /\ call'[c] = call[c]
<1>1. \A c \in Calls : Mine(c)' => Mine(c) /\ call'[c] = call[c]
  BY Blanks DEF Mine, Busy
<1>2. NoHeirs'
  BY Blanks DEF ConvergeInv, NoHeirs
<1>3. OneAtATime'
  BY <1>1 DEF ConvergeInv, OneAtATime
<1>4. OneRead'
  BY <1>1 DEF ConvergeInv, OneRead, ReadsAgain
<1> QED
  BY <1>1, <1>2, <1>3, <1>4

\* What has disturbed a component still does.
LEMMA StillUndisturbed ==
  ASSUME Undisturbed', page' = page, id' = id, gone \subseteq gone', fate \subseteq fate'
  PROVE  Undisturbed
BY DEF Undisturbed

LEMMA SendConverge ==
  ASSUME IndInv, ConvergeInv, NEW a, Send(a), id # NoId,
         a.op.kind = "save" => a.id \in {id, shown.of},
         UNCHANGED <<server, gone, page, id>>
  PROVE  ConvergeInv'
<1> DEFINE r == [aim |-> a, reads |-> FALSE, n |-> clock', at |-> id, stage |-> "sent",
                 got |-> Nothing, home |-> "component"]
<1>1. /\ Sent(call, r) /\ fate' = fate \cup Overlap(call)
  BY DEF Send
<1>2. IF a.op.kind = "save" /\ a.op.then = "keep"
        THEN shown' = [shown EXCEPT !.version = clock'] ELSE shown' = shown
  BY DEF Send
<1>3. /\ r.aim = a /\ r.reads = FALSE /\ r.stage = "sent" /\ r.home = "component"
      /\ r.at = id /\ r.n = clock'
  OBVIOUS
<1> HIDE DEF r
<1>4. PICK d \in Calls : /\ call[d] = NoCall /\ call'[d] = r
                         /\ \A c \in Calls \ {d} : call'[c] = call[c]
  BY <1>1, SentEffect DEF IndInv, TypeOK
<1>5. Mine(d)' /\ ~ call'[d].reads
  BY <1>3, <1>4 DEF Mine, Busy
<1>6. \A c \in Calls \ {d} : Mine(c)' <=> Mine(c)
  BY <1>4 DEF Mine, Busy
<1>7. "overlapped" \notin fate' => \A c \in Calls : ~ Mine(c)
  BY <1>1, NoOverlap DEF Mine, Busy
<1>8. NoHeirs'
  BY <1>1, <1>3, <1>4 DEF ConvergeInv, NoHeirs
<1>9. OneAtATime'
  BY <1>6, <1>7 DEF OneAtATime
<1>10. OneRead'
  BY <1>4, <1>5, <1>6 DEF ConvergeInv, OneRead, ReadsAgain
<1>11. LastReadCounts'
  BY <1>5 DEF LastReadCounts
<1>12. TakesTurns'
  <2> SUFFICES ASSUME Undisturbed', "overlapped" \notin fate' PROVE InTurn(call[d])'
    BY <1>5, <1>6, <1>7 DEF TakesTurns
  <2>1. Undisturbed /\ "overlapped" \notin fate
    BY <1>1, StillUndisturbed
  <2>2. shown = Content(id)
    BY <1>7, <2>1 DEF ConvergeInv, TakesTurns
  <2>3. Content(id).of = id /\ Content(id)' = Content(id)
    BY DEF Content, ContentOf
  <2>4. CASE a.op.kind = "save" /\ a.op.then = "keep"
    <3>1. a.id = id
      BY <2>2, <2>3, <2>4
    <3> QED
      BY <1>2, <1>3, <1>4, <2>2, <2>3, <2>4, <3>1 DEF InTurn
  <2>5. CASE ~ (a.op.kind = "save" /\ a.op.then = "keep")
    BY <1>2, <1>3, <1>4, <2>2, <2>3, <2>5 DEF InTurn
  <2> QED
    BY <2>4, <2>5
<1> QED
  BY <1>8, <1>9, <1>10, <1>11, <1>12 DEF ConvergeInv

LEMMA SubmitConverge == ASSUME IndInv, ConvergeInv, Submit PROVE ConvergeInv'
<1>1. PICK op \in page.ops :
        op.dialog = "none" /\ Offered(op) /\ \E k \in RowsFor(op) : Send(Target(op, k))
  BY DEF Submit
<1>2. PICK k \in RowsFor(op) : Send(Target(op, k))
  BY <1>1
<1>3. PICK a : a = Target(op, k)
  OBVIOUS
<1>4. a.op = op /\ Send(a) /\ (op.kind = "save" => a.id \in {id, shown.of})
  BY <1>2, <1>3, TargetFacts
<1>5. id # NoId /\ UNCHANGED <<server, gone, page, id>>
  BY <1>1 DEF Submit, Offered
<1> QED
  BY <1>4, <1>5, SendConverge

LEMMA ConfirmConverge == ASSUME IndInv, ConvergeInv, Confirm PROVE ConvergeInv'
<1>1. /\ dialog # NoDialog /\ Send(Confirmed(dialog)) /\ UNCHANGED <<server, gone, page, id>>
  BY DEF Confirm
<1>2. PICK a : a = Confirmed(dialog)
  OBVIOUS
<1>3. a.op = dialog.op
  BY <1>2 DEF Confirmed, IndInv, TypeOK, IsAim
<1>4. dialog.op \in page.ops /\ dialog.op.dialog # "none" /\ id # NoId
  BY <1>1 DEF IndInv, DialogSound, ClosedIsClean
<1>5. a.op.kind # "save" /\ Send(a)
  BY <1>1, <1>2, <1>3, <1>4, PageOps DEF IndInv
<1> QED
  BY <1>1, <1>4, <1>5, SendConverge

\* What the server does with a request of another page is not about this one.
LEMMA ProcessConverge ==
  ASSUME IndInv, ConvergeInv, NEW c \in Calls, Process(c) PROVE ConvergeInv'
<1>1. PICK r : r = call[c]
  OBVIOUS
<1>2. /\ IsCall(r) /\ r.stage = "sent" /\ Sound(r) /\ UNCHANGED <<page, id, shown>>
  BY <1>1 DEF Process, IndInv, TypeOK
<1> DEFINE Replies(stage, got) ==
            /\ call' = [call EXCEPT ![c] = Answered(r, stage, got)] /\ IsContent(got)
            /\ \/ stage = "failed"
               \/ r.reads /\ got = Content(r.aim.id) /\ server' = server
               \/ ~ r.reads /\ Apply(r) /\ (r.aim.op.then = "show" => got = ContentOf(r.aim.id, server'))
            /\ r.reads => server' = server
            /\ UNCHANGED server \/ Apply(r)
            /\ gone \subseteq gone' /\ fate \subseteq fate'
<1>3a. PICK stage \in {"done", "failed"} : \E got : Replies(stage, got)
  <2>1. CASE call' = [call EXCEPT ![c] = Answered(r, "failed", Nothing)]
             /\ UNCHANGED <<server, gone, fate>>
    BY <2>1, Blanks
  <2>2. CASE r.reads /\ call' = [call EXCEPT ![c] = Answered(r, "done", Content(r.aim.id))]
             /\ UNCHANGED <<server, gone, fate>>
    <3>1. IsContent(Content(r.aim.id))
      BY DEF Content, ContentOf, IsContent
    <3> QED
      BY <2>2, <3>1
  <2>3. CASE ~ r.reads /\ Apply(r)
    <3>1. gone \subseteq gone' /\ fate \subseteq fate'
      BY <2>3 DEF Apply
    <3>2. CASE call' = [call EXCEPT ![c] = Answered(r, "failed", Nothing)]
      BY <2>3, <3>1, <3>2, Blanks
    <3>3. CASE call' = [call EXCEPT ![c] =
                 Answered(r, "done", IF r.aim.op.then = "show" THEN ContentOf(r.aim.id, server')
                                     ELSE Nothing)]
      <4>1. IsContent(ContentOf(r.aim.id, server'))
        BY DEF ContentOf, IsContent
      <4> QED
        BY <2>3, <3>1, <3>3, <4>1, Blanks
    <3> QED
      BY <1>1, <2>3, <3>2, <3>3 DEF Process
  <2> QED
    BY <1>1, <2>1, <2>2, <2>3 DEF Process
<1>3. PICK got : Replies(stage, got)
  BY <1>3a
<1>4. PICK q : q = Answered(r, stage, got)
  OBVIOUS
<1>5. /\ q.stage = stage /\ q.got = got /\ q.aim = r.aim /\ q.reads = r.reads /\ q.n = r.n
      /\ q.at = r.at /\ q.home = r.home
  BY <1>2, <1>3, <1>4, AnsweredFacts
<1>6. call'[c] = q /\ \A d \in Calls \ {c} : call'[d] = call[d]
  BY <1>3, <1>4 DEF IndInv, TypeOK
<1>7. \A d \in Calls : /\ Mine(d)' <=> Mine(d)
                       /\ call'[d].home = call[d].home /\ call'[d].aim = call[d].aim
                       /\ call'[d].reads = call[d].reads
  BY <1>1, <1>2, <1>3, <1>5, <1>6 DEF Mine, Busy
<1>8. NoHeirs' /\ OneAtATime' /\ OneRead'
  BY <1>2, <1>3, <1>7 DEF ConvergeInv, NoHeirs, OneAtATime, OneRead, ReadsAgain
<1>9. PICK i : i = id
  OBVIOUS
<1>10. Undisturbed' =>
         /\ Undisturbed
         /\ r.home # "component" => server' = server /\ ~ Mine(c)
         /\ r.home = "component" => Mine(c)
  <2> SUFFICES ASSUME Undisturbed'
               PROVE  /\ Undisturbed
                      /\ r.home # "component" => server' = server /\ ~ Mine(c)
                      /\ r.home = "component" => Mine(c)
    OBVIOUS
  <2>1. Undisturbed
    BY <1>2, <1>3, StillUndisturbed
  <2>2. r.home # "page"
    BY <1>1, <2>1 DEF ConvergeInv, NoHeirs, Undisturbed
  <2>3. r.home # "component" => r.home = "away"
    BY <1>2, <2>2 DEF IsCall
  <2>4. r.home = "away" => server' = server
    BY <1>3 DEF Apply
  <2> QED
    BY <1>1, <1>2, <2>1, <2>3, <2>4 DEF Mine, Busy
<1>11. server' = server => Content(i)' = Content(i)
  BY DEF Content
<1>12. TakesTurns'
  <2> SUFFICES ASSUME Undisturbed', "overlapped" \notin fate'
               PROVE  /\ \A d \in Calls : Mine(d) => InTurn(call[d])'
                      /\ (\A d \in Calls : ~ Mine(d)) => shown' = Content(i)'
    BY <1>2, <1>7, <1>9 DEF TakesTurns
  <2>1. /\ \A d \in Calls : Mine(d) => InTurn(call[d])
        /\ (\A d \in Calls : ~ Mine(d)) => shown = Content(i)
        /\ \A d, e \in Calls : Mine(d) /\ Mine(e) => d = e
    BY <1>3, <1>9, <1>10 DEF ConvergeInv, TakesTurns, OneAtATime
  <2>2. CASE r.home # "component"
    <3>1. server' = server /\ ~ Mine(c)
      BY <1>10, <2>2
    <3>2. ASSUME NEW d \in Calls, Mine(d) PROVE InTurn(call[d])'
      <4>1. call'[d] = call[d] /\ InTurn(call[d])
        BY <1>6, <2>1, <3>1, <3>2
      <4> QED
        BY <1>2, <3>1, <4>1 DEF InTurn, Content
    <3> QED
      BY <1>2, <1>11, <2>1, <3>1, <3>2
  <2>3. CASE r.home = "component"
    <3>1. Mine(c) /\ InTurn(r)
      BY <1>1, <1>10, <2>1, <2>3
    <3> SUFFICES InTurn(q)'
      BY <1>6, <2>1, <3>1 DEF InTurn
    <3>2. CASE r.reads
      <4>1. r.aim.id = i
        BY <1>9, <3>1, <3>2 DEF InTurn
      <4>2. stage = "done" => got = Content(i)'
        BY <1>3, <1>11, <3>2, <4>1
      <4> QED
        BY <1>2, <1>5, <1>9, <3>2, <4>1, <4>2 DEF InTurn
    <3>3. CASE ~ r.reads
      <4> DEFINE op == r.aim.op
      <4>1. r.at = i
        BY <1>9, <3>1, <3>3 DEF InTurn
      <4>2. stage = "done" /\ op.then = "show" => got = ContentOf(r.aim.id, server')
        BY <1>3, <3>3
      <4>3. stage = "done" /\ op.then \notin {"show", "reload", "always", "leave"} =>
              shown = Content(i)'
        <5> SUFFICES ASSUME stage = "done", op.then \notin {"show", "reload", "always", "leave"}
                     PROVE  shown = Content(i)'
          OBVIOUS
        <5>1. op \in page.ops /\ page.loads # "none"
          BY <1>2, <1>10, <2>3, <3>3 DEF Sound, Undisturbed
        <5>2. op.kind \in {"save", "act", "end"} /\ (op.kind = "save" => op.then = "keep")
          BY <5>1, Coherence DEF IndInv
        <5>3. Apply(r)
          BY <1>3, <3>3
        <5>4. CASE op.kind \in {"act", "end"}
          <6>1. server' = server
            BY <5>3, <5>4 DEF Apply
          <6>2. shown = Content(i)
            BY <1>2, <1>9, <3>1, <3>3, <5>4 DEF InTurn
          <6> QED
            BY <1>11, <6>1, <6>2
        <5>5. CASE op.kind = "save"
          <6>1. r.aim.id = i /\ shown = [Content(i) EXCEPT !.version = r.n]
            BY <1>2, <1>9, <3>1, <3>3, <5>2, <5>5 DEF InTurn
          <6>2. server' = [server EXCEPT ![i] = [version |-> r.n, rows |-> Rows(r)]]
            BY <2>3, <5>3, <5>5, <6>1 DEF Apply
          <6>3. Rows(r) = server[i].rows
            BY <5>5, <6>1 DEF Rows
          <6>4. i \in Ids
            BY <1>9, <1>10 DEF Undisturbed
          <6>5. server'[i] = [version |-> r.n, rows |-> server[i].rows]
            BY <6>2, <6>3, <6>4 DEF IndInv, TypeOK
          <6>6. Content(i)' = [of |-> i, version |-> r.n, rows |-> server[i].rows]
            BY <6>5 DEF Content, ContentOf
          <6>7. shown = [of |-> i, version |-> r.n, rows |-> server[i].rows]
            BY <6>1 DEF Content, ContentOf
          <6> QED
            BY <6>6, <6>7
        <5> QED
          BY <5>2, <5>4, <5>5
      <4>4. PICK k : k = r.aim.id
        OBVIOUS
      <4>5. ContentOf(k, server') = Content(k)'
        BY DEF Content
      <4> QED
        BY <1>2, <1>3, <1>5, <1>9, <3>3, <4>1, <4>2, <4>3, <4>4, <4>5 DEF InTurn
    <3> QED
      BY <3>2, <3>3
  <2> QED
    BY <2>2, <2>3
<1>13. LastReadCounts'
  <2> SUFFICES ASSUME Undisturbed', ReadsAgain(page), \A d \in Calls : Mine(d) => call[d].reads
               PROVE  /\ \A d \in Calls : Mine(d) /\ call'[d].stage = "done"
                           => call'[d].got = Content(i)'
                      /\ (\A d \in Calls : ~ Mine(d)) => shown' = Content(i)'
    BY <1>2, <1>7, <1>9 DEF LastReadCounts, ReadsAgain
  <2>1. server' = server
    BY <1>1, <1>3, <1>10
  <2>2. Undisturbed
    BY <1>10
  <2>3. /\ \A d \in Calls : Mine(d) /\ call[d].stage = "done" => call[d].got = Content(i)
        /\ (\A d \in Calls : ~ Mine(d)) => shown = Content(i)
    BY <1>9, <2>2 DEF ConvergeInv, LastReadCounts
  <2>4. Mine(c) /\ stage = "done" => got = Content(i)
    <3> SUFFICES ASSUME Mine(c), stage = "done" PROVE got = Content(i)
      OBVIOUS
    <3>1. r.reads /\ got = Content(r.aim.id)
      BY <1>1, <1>3
    <3>2. page.loads = "switch" /\ r.aim.op = Read
      BY <1>1, <2>2, <3>1, Coherence DEF ConvergeInv, OneRead, IndInv, Undisturbed
    <3>3. r.aim.id = i
      BY <1>1, <1>2, <1>9, <3>1, <3>2 DEF Sound, Mine, Busy
    <3> QED
      BY <3>1, <3>3
  <2> QED
    BY <1>2, <1>5, <1>6, <1>11, <2>1, <2>3, <2>4
<1> QED
  BY <1>8, <1>12, <1>13 DEF ConvergeInv

\* A read that is answered for good was the only request, or the last of the reads.
LEMMA ReadAnswerConverge ==
  ASSUME IndInv, ConvergeInv, NEW c \in Calls, ReadAnswer(c) PROVE ConvergeInv'
<1>1. /\ Mine(c) /\ call[c].reads /\ call' = Without(c)
      /\ UNCHANGED <<server, gone, page, id>>
  BY DEF ReadAnswer
<1>2. fate \subseteq fate'
  BY DEF ReadAnswer, Show
<1>3. /\ \A d \in Calls : call'[d] \in {call[d], NoCall}
      /\ call'[c] = NoCall /\ \A d \in Calls \ {c} : call'[d] = call[d]
  BY <1>1, WithoutFacts DEF IndInv
<1>4. /\ NoHeirs' /\ OneAtATime' /\ OneRead'
      /\ \A d \in Calls : Mine(d)' => Mine(d) /\ call'[d] = call[d]
  BY <1>1, <1>2, <1>3, SubsetConverge
<1>5. ~ Mine(c)' /\ \A d \in Calls \ {c} : Mine(d) => Mine(d)'
  BY <1>3, Blanks DEF Mine, Busy
<1>6. PICK i : i = id
  OBVIOUS
<1>7. Content(i)' = Content(i)
  BY <1>1 DEF Content
<1>8. Undisturbed' => Undisturbed /\ call[c].stage = "done" /\ shown' = call[c].got
  <2> SUFFICES ASSUME Undisturbed'
               PROVE  Undisturbed /\ call[c].stage = "done" /\ shown' = call[c].got
    OBVIOUS
  <2>1. "failed" \notin fate'
    BY DEF Undisturbed
  <2>2. call[c].stage = "done" /\ Show(call[c])
    BY <2>1 DEF ReadAnswer
  <2> QED
    BY <1>1, <1>2, <2>2, StillUndisturbed DEF Show
<1>9. TakesTurns'
  <2> SUFFICES ASSUME Undisturbed', "overlapped" \notin fate'
               PROVE  (\A d \in Calls : ~ Mine(d)') /\ shown' = Content(i)'
    BY <1>1, <1>6 DEF TakesTurns
  <2>1. Undisturbed /\ "overlapped" \notin fate
    BY <1>2, <1>8
  <2>2. InTurn(call[c]) /\ \A d \in Calls : Mine(d) => d = c
    BY <1>1, <2>1 DEF ConvergeInv, TakesTurns, OneAtATime
  <2>3. call[c].got = Content(i)
    BY <1>1, <1>6, <1>8, <2>2 DEF InTurn
  <2> QED
    BY <1>4, <1>5, <1>7, <1>8, <2>2, <2>3
<1>10. LastReadCounts'
  <2> SUFFICES ASSUME Undisturbed', ReadsAgain(page), \A d \in Calls : Mine(d)' => call'[d].reads
               PROVE  /\ \A d \in Calls : Mine(d)' /\ call'[d].stage = "done"
                           => call'[d].got = Content(i)'
                      /\ (\A d \in Calls : ~ Mine(d)') => shown' = Content(i)'
    BY <1>1, <1>6 DEF LastReadCounts, ReadsAgain
  <2>1. \A d \in Calls : Mine(d) => call[d].reads
    BY <1>1, <1>3, <1>5
  <2>2. \A d \in Calls : Mine(d) /\ call[d].stage = "done" => call[d].got = Content(i)
    BY <1>6, <1>8, <2>1 DEF ConvergeInv, LastReadCounts
  <2>3. call[c].got = Content(i)
    BY <1>1, <1>8, <2>2
  <2> QED
    BY <1>4, <1>7, <1>8, <2>2, <2>3
<1> QED
  BY <1>4, <1>9, <1>10 DEF ConvergeInv

\* An answer after which the page is read again.
LEMMA ReloadConverge ==
  ASSUME IndInv, ConvergeInv, NEW c \in Calls, Mine(c), ~ call[c].reads, Reload(c),
         fate \subseteq fate', Overlap(Without(c)) \subseteq fate',
         UNCHANGED <<server, gone, page, id>>
  PROVE  ConvergeInv'
<1>1. PICK i : i = id
  OBVIOUS
<1>2. PICK calls : calls = Without(c)
  OBVIOUS
<1>3. /\ calls = [d \in Calls |-> calls[d]]
      /\ calls[c] = NoCall /\ \A d \in Calls \ {c} : calls[d] = call[d]
  BY <1>2, WithoutFacts DEF IndInv
<1>4. "overlapped" \notin fate' =>
        \A d \in Calls : calls[d].stage = "none" \/ calls[d].home # "component"
  BY <1>2, NoOverlap
<1>5. "inherited" \notin fate' => \A d \in Calls : call[d].home # "page" /\ calls[d].home # "page"
  BY <1>3, MineOpen, Blanks DEF ConvergeInv, NoHeirs
<1>6. ReadsAgain(page)' = ReadsAgain(page)
  OBVIOUS
<1>7. CASE page.reload \in {"switch", "blank"}
  <2> DEFINE kept == [d \in Calls |-> IF Replaced(d) THEN NoCall ELSE Without(c)[d]]
  <2>1. Sent(kept, Reading(Read, i)) /\ id' = i
    BY <1>1, <1>7 DEF Reload
  <2>2. /\ kept = [d \in Calls |-> kept[d]]
        /\ \A d \in Calls : kept[d] \in {calls[d], NoCall}
        /\ \A d \in Calls : Replaced(d) => kept[d] = NoCall
    BY <1>2
  <2> HIDE DEF kept
  <2>3. "overlapped" \notin fate' =>
          \A d \in Calls : kept[d].stage = "none" \/ kept[d].home # "component"
    BY <1>4, <2>2, Blanks
  <2>4. "inherited" \notin fate' => \A d \in Calls : kept[d].home # "page"
    BY <1>5, <2>2, Blanks
  <2>5. ReadsAgain(page) /\ page.loads # "none" =>
          \A d \in Calls : kept[d].stage # "none" /\ kept[d].home = "component" => ~ kept[d].reads
    <3> SUFFICES ASSUME ReadsAgain(page), page.loads # "none", NEW d \in Calls,
                        kept[d].stage # "none", kept[d].home = "component", kept[d].reads
                 PROVE  FALSE
      OBVIOUS
    <3>1. kept[d] = call[d]
      BY <1>3, <2>2, Blanks
    <3>2. Mine(d) /\ call[d].reads
      BY <3>1 DEF Mine, Busy
    <3>3. Replaced(d)
      BY <3>2 DEF ConvergeInv, OneRead, Replaced
    <3> QED
      BY <2>2, <3>3, Blanks
  <2> QED
    BY <1>6, <2>1, <2>2, <2>3, <2>4, <2>5, FreshRead
<1>8. CASE page.reload \notin {"switch", "blank"}
  <2>1. PICK k : /\ Sent(Without(c), Reading(call[c].aim.op, k))
                 /\ k \in {call[c].at, i}
    BY <1>1, <1>8 DEF Reload
  <2>2. PICK r : r = Reading(call[c].aim.op, k)
    OBVIOUS
  <2>3. r.aim.id = k /\ r.reads /\ r.stage = "sent" /\ r.home = "component"
    BY <2>2, ReadingFacts
  <2>4. PICK e \in Calls : call'[e] = r /\ \A d \in Calls \ {e} : call'[d] = calls[d]
    BY <1>2, <1>3, <2>1, <2>2, SentEffect
  <2>5. ~ ReadsAgain(page)'
    BY <1>8 DEF ReadsAgain
  <2>6. OneRead' /\ LastReadCounts'
    BY <2>5 DEF OneRead, LastReadCounts
  <2>7. NoHeirs'
    BY <1>5, <2>3, <2>4 DEF NoHeirs
  <2>8. "overlapped" \notin fate' => \A d \in Calls \ {e} : ~ Mine(d)'
    BY <1>4, <2>4 DEF Mine, Busy
  <2>9. OneAtATime'
    BY <2>8 DEF OneAtATime
  <2>10. Mine(e)'
    BY <2>3, <2>4 DEF Mine, Busy
  <2>11. TakesTurns'
    <3> SUFFICES ASSUME Undisturbed', "overlapped" \notin fate' PROVE InTurn(call[e])'
      BY <2>8, <2>10 DEF TakesTurns
    <3>1. Undisturbed /\ "overlapped" \notin fate
      BY StillUndisturbed
    <3>2. InTurn(call[c])
      BY <3>1 DEF ConvergeInv, TakesTurns
    <3>3. k = i
      BY <1>1, <2>1, <3>2 DEF InTurn
    <3> QED
      BY <1>1, <2>3, <2>4, <3>3 DEF InTurn
  <2> QED
    BY <2>6, <2>7, <2>9, <2>11 DEF ConvergeInv
<1> QED
  BY <1>7, <1>8

LEMMA OpAnswerConverge ==
  ASSUME IndInv, ConvergeInv, NEW c \in Calls, OpAnswer(c) PROVE ConvergeInv'
<1>1. /\ Mine(c) /\ ~ call[c].reads /\ call[c].stage \in {"done", "failed"}
      /\ ~ (call[c].stage = "done" /\ call[c].aim.op.then = "leave")
      /\ UNCHANGED <<server, gone, page, id>>
  BY DEF OpAnswer
<1>2. CASE Reloads(call[c])
  <2>1. /\ Reload(c)
        /\ fate' = fate \cup (IF call[c].stage = "failed" THEN {"failed"} ELSE {})
                        \cup Overlap(Without(c))
    BY <1>2 DEF OpAnswer
  <2> QED
    BY <1>1, <2>1, ReloadConverge
<1>3. CASE ~ Reloads(call[c])
  <2>1. /\ call' = Without(c)
        /\ IF call[c].stage = "done" /\ call[c].aim.op.then = "show"
             THEN Show(call[c])
             ELSE /\ fate' = fate \cup (IF call[c].stage = "failed" THEN {"failed"} ELSE {})
                  /\ shown' = shown
    BY <1>3 DEF OpAnswer
  <2>2. fate \subseteq fate'
    BY <2>1 DEF Show
  <2>3. /\ \A d \in Calls : call'[d] \in {call[d], NoCall}
        /\ call'[c] = NoCall /\ \A d \in Calls \ {c} : call'[d] = call[d]
    BY <2>1, WithoutFacts DEF IndInv
  <2>4. /\ NoHeirs' /\ OneAtATime' /\ OneRead'
        /\ \A d \in Calls : Mine(d)' => Mine(d) /\ call'[d] = call[d]
    BY <1>1, <2>2, <2>3, SubsetConverge
  <2>5. PICK i : i = id
    OBVIOUS
  <2>6. Content(i)' = Content(i)
    BY <1>1 DEF Content
  <2>7. ~ Mine(c)'
    BY <2>3, Blanks DEF Mine, Busy
  <2>8. Undisturbed' => Undisturbed /\ call[c].stage = "done"
    BY <1>1, <2>1, <2>2, StillUndisturbed DEF Undisturbed
  <2>9. TakesTurns'
    <3> SUFFICES ASSUME Undisturbed', "overlapped" \notin fate'
                 PROVE  (\A d \in Calls : ~ Mine(d)') /\ shown' = Content(i)'
      BY <1>1, <2>5 DEF TakesTurns
    <3>1. Undisturbed /\ "overlapped" \notin fate /\ call[c].stage = "done"
      BY <2>2, <2>8
    <3>2. InTurn(call[c]) /\ \A d \in Calls : Mine(d) => d = c
      BY <1>1, <3>1 DEF ConvergeInv, TakesTurns, OneAtATime
    <3>3. \A d \in Calls : ~ Mine(d)'
      BY <2>4, <2>7, <3>2
    <3>4. CASE call[c].aim.op.then = "show"
      <4>1. PICK k : k = call[c].aim.id
        OBVIOUS
      <4>2. Show(call[c]) /\ call[c].got = Content(k)
        BY <1>1, <2>1, <3>1, <3>2, <3>4, <4>1 DEF InTurn
      <4>3. call[c].aim.op # Read
        BY <1>1, PageOps DEF IndInv, Sound, Mine, Busy
      <4>4. call[c].got.of = i
        BY <2>5, <4>2, <4>3 DEF Show, Undisturbed
      <4>5. k = i
        BY <4>2, <4>4 DEF Content, ContentOf
      <4> QED
        BY <2>6, <3>3, <4>2, <4>5 DEF Show
    <3>5. CASE call[c].aim.op.then # "show"
      <4>1. call[c].aim.op.then \notin {"show", "reload", "always", "leave"}
        BY <1>1, <1>3, <3>1, <3>5 DEF Reloads
      <4>2. shown = Content(i)
        BY <1>1, <2>5, <3>1, <3>2, <4>1 DEF InTurn
      <4> QED
        BY <2>1, <2>6, <3>3, <3>5, <4>2
    <3> QED
      BY <3>4, <3>5
  <2>10. LastReadCounts'
    <3> SUFFICES ASSUME Undisturbed', ReadsAgain(page) PROVE FALSE
      BY <1>1 DEF LastReadCounts, ReadsAgain
    <3>1. call[c].stage = "done" /\ page.loads # "none" /\ call[c].aim.op \in page.ops
      BY <1>1, <2>8 DEF Undisturbed, IndInv, Sound, Mine, Busy
    <3>2. call[c].aim.op.then \in {"reload", "always"}
      BY <3>1, Coherence DEF IndInv
    <3> QED
      BY <1>3, <3>1, <3>2 DEF Reloads
  <2> QED
    BY <2>4, <2>9, <2>10 DEF ConvergeInv
<1> QED
  BY <1>2, <1>3

LEMMA DeadAnswerConverge ==
  ASSUME IndInv, ConvergeInv, NEW c \in Calls, DeadAnswer(c) PROVE ConvergeInv'
<1>1. /\ ~ Mine(c) /\ call' = Without(c)
      /\ UNCHANGED <<server, gone, page, id, shown, fate>>
  BY DEF DeadAnswer
<1>2. /\ \A d \in Calls : call'[d] \in {call[d], NoCall}
      /\ call'[c] = NoCall /\ \A d \in Calls \ {c} : call'[d] = call[d]
  BY <1>1, WithoutFacts DEF IndInv
<1>3. /\ NoHeirs' /\ OneAtATime' /\ OneRead'
      /\ \A d \in Calls : Mine(d)' => Mine(d) /\ call'[d] = call[d]
  BY <1>1, <1>2, SubsetConverge
<1>4. \A d \in Calls : Mine(d) => Mine(d)'
  BY <1>1, <1>2 DEF Mine, Busy
<1>5. PICK i : i = id
  OBVIOUS
<1>6. Content(i)' = Content(i)
  BY <1>1 DEF Content
<1>7. Undisturbed' => Undisturbed
  BY <1>1, StillUndisturbed
<1>8. ASSUME NEW d \in Calls, Mine(d), InTurn(call[d]) PROVE InTurn(call[d])'
  <2>1. call'[d] = call[d]
    BY <1>3, <1>4, <1>8
  <2> QED
    BY <1>1, <1>8, <2>1 DEF InTurn, Content
<1>9. TakesTurns'
  BY <1>1, <1>3, <1>4, <1>5, <1>6, <1>7, <1>8 DEF ConvergeInv, TakesTurns
<1>10. LastReadCounts'
  BY <1>1, <1>3, <1>4, <1>5, <1>6, <1>7 DEF ConvergeInv, LastReadCounts, ReadsAgain
<1> QED
  BY <1>3, <1>9, <1>10 DEF ConvergeInv

-----------------------------------------------------------------------------
LEMMA NextConverge == IndInv /\ IndInv' /\ ConvergeInv /\ [Next]_vars => ConvergeInv'
<1> SUFFICES ASSUME IndInv, IndInv', ConvergeInv, [Next]_vars PROVE ConvergeInv'
  OBVIOUS
<1>1. CASE UNCHANGED vars
  BY <1>1, SameConverge DEF vars
<1>2. CASE Close
  BY <1>2, ClosedConverge DEF Close, Closed
<1>3. CASE Refresh \/ Submit \/ Confirm
  BY <1>3, RefreshConverge, SubmitConverge, ConfirmConverge
<1>4. CASE Edit \/ Ask \/ Cancel
  BY <1>4, SameConverge DEF Edit, Ask, Cancel
<1>5. CASE \E p \in PageSet, i \in Ids : Open(p, i)
  BY <1>5, OpenConverge
<1>6. ASSUME NEW i \in Ids, Move(i) \/ Type(i) PROVE ConvergeInv'
  <2>1. CASE Move(i)
    BY <2>1, MoveConverge
  <2>2. CASE Type(i)
    BY <2>2, SameConverge DEF Type
  <2> QED
    BY <1>6, <2>1, <2>2
<1>7. ASSUME NEW c \in Calls,
             Process(c) \/ ReadAnswer(c) \/ OpAnswer(c) \/ LeaveAnswer(c) \/ DeadAnswer(c)
      PROVE  ConvergeInv'
  <2>1. CASE LeaveAnswer(c)
    BY <2>1, ClosedConverge DEF LeaveAnswer, Closed
  <2> QED
    BY <1>7, <2>1, ProcessConverge, ReadAnswerConverge, OpAnswerConverge, DeadAnswerConverge
<1> QED
  BY <1>1, <1>2, <1>3, <1>4, <1>5, <1>6, <1>7 DEF Next

\* A request that is alone finds the screen, and leaves it, as the server has
\* it; and where reads replace each other, the one there is comes after the last
\* change that was answered.
THEOREM ConvergeInvCorrect == Spec => []ConvergeInv
BY InitConverge, NextConverge, IndInvCorrect, PTL DEF Spec

\* Once everything has been answered and nothing has failed, a page shows what
\* the server has.
THEOREM ConvergesCorrect == Spec => []Converges
<1>1. ConvergeInv => Converges
  <2> SUFFICES ASSUME ConvergeInv, Idle, id \in Ids \ gone, page.loads # "none",
                      fate \cap {"failed", "inherited", "late"} = {},
                      page.loads = "follow" => "moved" \notin fate,
                      ~ ReadsAgain(page) => "overlapped" \notin fate
               PROVE  shown = Content(id)
    BY DEF Converges
  <2>1. Undisturbed
    BY DEF Undisturbed
  <2>2. \A c \in Calls : ~ Mine(c)
    BY DEF Idle, Mine
  <2> QED
    BY <2>1, <2>2 DEF ConvergeInv, TakesTurns, LastReadCounts
<1> QED
  BY <1>1, ConvergeInvCorrect, PTL
=============================================================================
