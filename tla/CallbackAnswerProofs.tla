------------------------ MODULE CallbackAnswerProofs -------------------------
(***************************************************************************)
(* What a request is told stays true: the part of Safe about requests, and *)
(* the properties of CallbackScheduler that follow from it.  And the timer *)
(* of a replica: it always comes back, and it does not sleep past what it  *)
(* has accepted.  For any cap, delays and number of overlapping wakes.     *)
(***************************************************************************)
EXTENDS CallbackSafetyProofs

-----------------------------------------------------------------------------
(* The fields of a request's record after each way of touching it.         *)

Others(q) == \A p \in Request \ {q} : request'[p] = request[p]

LEMMA ArriveFields ==
    ASSUME RequestOK, NEW q \in Request, NEW op, NEW r, NEW i, NEW pc, Arrive(q, op, r, i, pc)
    PROVE  /\ request'[q].op = op /\ request'[q].at = r /\ request'[q].id = i /\ request'[q].pc = pc
           /\ Others(q)
  BY DEF Arrive, NoRequest, RequestOK, Others

LEMMA ArriveAnsweredFields ==
    ASSUME RequestOK, NEW q \in Request, NEW op, NEW r, NEW i, NEW a,
           ArriveAnswered(q, op, r, i, a)
    PROVE  /\ request'[q].op = op /\ request'[q].at = r /\ request'[q].id = i
           /\ request'[q].pc = "done" /\ request'[q].answer = a
           /\ Others(q)
  BY DEF ArriveAnswered, NoRequest, RequestOK, Others

LEMMA GotoFields ==
    ASSUME RequestOK, NEW q \in Request, NEW pc, Goto(q, pc)
    PROVE  /\ request'[q].pc = pc
           /\ UNCHANGED <<request[q].op, request[q].at, request[q].id>>
           /\ Others(q)
  BY DEF Goto, RequestOK, RequestRecord, Others

LEMMA AnswerFields ==
    ASSUME RequestOK, NEW q \in Request, NEW a, Answer(q, a)
    PROVE  /\ request'[q].pc = "done" /\ request'[q].answer = a
           /\ UNCHANGED <<request[q].op, request[q].at, request[q].id>>
           /\ Others(q)
  BY DEF Answer, RequestOK, RequestRecord, Others

-----------------------------------------------------------------------------
\* What a request knows or was told survives every step of the store.
LEMMA SoundStays ==
    ASSUME Custody, Evolves, NEW w, Sound(w, zset, held, born, taker)
    PROVE  Sound(w, zset', held', born', taker')
<1> USE DEF Evolves, Stored
<1>1. OwnStep(w)
  BY DEF Sound
<1>2. KnowsWhere(w, zset', held', born')
  <2>1. /\ w.pc \in NamingPcs => w.id \in born'
        /\ w.pc \in NamingPcs /\ w.pc \in PastZset => w.id \notin zset'
    BY DEF Sound, KnowsWhere
  <2>2. PastZset \subseteq NamingPcs
    BY DEF PastZset, NamingPcs, FirePendingPcs, HoldPcs, CancelPcs
  <2>3. ASSUME w.pc = "listNext"
        PROVE  w.owed \subseteq born' /\ w.owed \cap (zset' \cup held') \subseteq w.seen \cup held'
    BY <2>3 DEF Sound, KnowsWhere
  <2> QED
    BY <2>1, <2>2, <2>3 DEF KnowsWhere
<1>3. \A i \in born : taker[i] # "nobody" => taker'[i] = taker[i]
  BY DEF Custody, StoredOnce
<1>4. WasTold(w, zset', held', born', taker')
  BY <1>3 DEF Sound, WasTold
<1> QED
  BY <1>1, <1>2, <1>4 DEF Sound

LEMMA NobodysStep ==
    ASSUME Safe, Evolves, UNCHANGED request
    PROVE  Informed' /\ SoleWinner'
  BY SoundStays DEF Safe, Informed, SoleWinner

\* A step of request q: its own record is to be looked at, no other.
LEMMA OnesStep ==
    ASSUME TypeOK, Safe, Evolves, NEW q \in Request, Others(q),
           Sound(request'[q], zset', held', born', taker'),
           Winner(request'[q]) => request'[q].id \in Stored
    PROVE  Informed' /\ SoleWinner'
<1>1. Informed'
  <2> SUFFICES ASSUME NEW p \in Request
               PROVE  Sound(request'[p], zset', held', born', taker')
    BY DEF Informed
  <2>1. CASE p = q
    BY <2>1
  <2>2. CASE p # q
    BY <2>2, SoundStays DEF Safe, Informed, Others
  <2> QED
    BY <2>1, <2>2
<1>2. SoleWinner'
  <2>1. \A p \in Request \ {q} :
            Winner(request'[p]) => taker[request'[p].id] \in {"cancel", "request"}
    BY DEF Safe, Informed, Sound, WasTold, Winner, Others
  <2>2. \A i \in Stored : taker[i] = "nobody"
    BY DEF Safe, Custody, StoredOnce
  <2>3. \A p \in Request \ {q} :
            ~(Winner(request'[p]) /\ Winner(request'[q]) /\ request'[p].id = request'[q].id)
    BY <2>1, <2>2
  <2>4. \A p \in Request \ {q} : request'[p] = request[p]
    BY DEF Others
  <2> QED
    BY <2>3, <2>4 DEF Safe, SoleWinner
<1> QED
  BY <1>1, <1>2

\* The request has been answered in a way that promises nothing.
LEMMA IdleAnswer ==
    ASSUME NEW w, w.pc = "done", w.answer \in {"error", "reset", "refused"}
    PROVE  /\ Sound(w, zset', held', born', taker')
           /\ ~Winner(w)
  BY DEF Sound, OwnStep, KnowsWhere, WasTold, Winner, NamingPcs, FirePendingPcs, HoldPcs,
         CancelPcs, PastZset

-----------------------------------------------------------------------------
(* The steps of a request.                                                 *)

LEMMA ArrivesInformed ==
    ASSUME TypeOK, Safe, Evolves, NEW q \in Request, NEW r \in Replica, RequestArrives(q, r)
    PROVE  Informed' /\ SoleWinner'
<1> USE DEF TypeOK, Sound, OwnStep, KnowsWhere, WasTold, Winner, NamingPcs, FirePendingPcs,
            HoldPcs, CancelPcs, PastZset
<1> DEFINE Fine == /\ Others(q)
                   /\ Sound(request'[q], zset', held', born', taker')
                   /\ ~Winner(request'[q])
<1>1. CASE FireAssert(q, r)
  <2>1. Fine
    BY <1>1, ArriveFields, ArriveAnsweredFields DEF FireAssert
  <2> QED
    BY <2>1, OnesStep
<1>2. CASE ListPending(q, r)
  <2>1. /\ request'[q].op = "list" /\ request'[q].pc = "listNext"
        /\ request'[q].owed = Stored /\ request'[q].seen = zset
        /\ Others(q)
    BY <1>2 DEF ListPending, NoRequest, RequestOK, Others, Contents, FirstKey, Stored
  <2>2. UNCHANGED <<zset, held, born>> /\ Stored \subseteq born
    BY <1>2 DEF ListPending, store, Safe, Custody, StoredOnce
  <2>3. Fine
    BY <2>1, <2>2 DEF Stored
  <2> QED
    BY <2>3, OnesStep
<1>3. ASSUME NEW lost \in BOOLEAN, Clear(q, r, lost)
      PROVE  Informed' /\ SoleWinner'
  <2>1. Fine
    BY <1>3, ArriveAnsweredFields DEF Clear
  <2> QED
    BY <2>1, OnesStep
<1>4. ASSUME NEW i \in Callback, FindPending(q, r, i) \/ HoldFind(q, r, i) \/ CancelFind(q, r, i)
      PROVE  Informed' /\ SoleWinner'
  <2>1. UNCHANGED store /\ i \in born
    BY <1>4 DEF FindPending, HoldFind, CancelFind, Named
  <2>2. Others(q) /\ request'[q].id = i
    BY <1>4, ArriveFields DEF FindPending, HoldFind, CancelFind
  <2>3. \/ request'[q].op = "firePending" /\ request'[q].pc \in {"assert", "findNext"}
        \/ request'[q].op = "hold" /\ request'[q].pc \in {"holdMove", "holdLook"}
        \/ request'[q].op = "cancel" /\ request'[q].pc \in {"cancelZrem", "cancelHdel"}
    BY <1>4, ArriveFields DEF FindPending, HoldFind, CancelFind
  <2>4. request'[q].pc \in PastZset => i \notin zset
    BY <1>4, ArriveFields DEF FindPending, HoldFind, CancelFind, Contents, FirstKey
  <2>5. Fine
    BY <2>1, <2>2, <2>3, <2>4 DEF store
  <2> QED
    BY <2>5, OnesStep
<1> QED
  BY <1>1, <1>2, <1>3, <1>4 DEF RequestArrives

\* A request that takes its callback finds it stored, and is told so only then.
LEMMA ClaimInformed ==
    ASSUME TypeOK, Safe, Evolves, NEW q \in Request, NEW lost \in BOOLEAN,
           ClaimZrem(q, lost) \/ ClaimHeld(q, lost)
    PROVE  Informed' /\ SoleWinner'
<1> USE DEF TypeOK, Sound, OwnStep, KnowsWhere, WasTold, Winner, NamingPcs, FirePendingPcs,
            HoldPcs, CancelPcs, PastZset
<1> DEFINE i == request[q].id
<1>1. /\ request[q].op = "firePending" /\ i \in born
      /\ request[q].pc = "claimHeld" => i \notin zset
  BY DEF ClaimZrem, ClaimHeld, Serving, Safe, Informed
<1> DEFINE Fine == /\ Others(q)
                   /\ Sound(request'[q], zset', held', born', taker')
                   /\ Winner(request'[q]) => request'[q].id \in Stored
<1>2. ASSUME Won(q, lost), i \in Stored
      PROVE  Fine
  <2>1. /\ Others(q) /\ request'[q].id = i /\ request'[q].pc = "done"
        /\ request'[q].op = "firePending" /\ request'[q].answer \in {"ok", "error"}
    BY <1>1, <1>2, AnswerFields DEF Won
  <2>2. i \in born' /\ i \in Callback
    BY <1>1 DEF Evolves, StoreOK
  <2>3. taker'[i] = "request"
    BY <1>2, <2>2 DEF Won, Take
  <2> QED
    BY <1>2, <2>1, <2>2, <2>3
<1>3. ASSUME ClaimZrem(q, lost)
      PROVE  Fine
  <2>1. CASE i \in zset
    <3>1. Won(q, lost) /\ i \in Stored
      BY <1>3, <2>1 DEF ClaimZrem, Stored
    <3> QED
      BY <1>2, <3>1
  <2>2. CASE i \notin zset
    <3>1. Goto(q, "claimHeld") /\ zset' = zset
      BY <1>3, <2>2 DEF ClaimZrem
    <3>2. /\ Others(q) /\ request'[q].pc = "claimHeld"
          /\ request'[q].op = "firePending" /\ request'[q].id = i
      BY <1>1, <3>1, GotoFields
    <3>3. i \in born' /\ i \notin zset'
      BY <1>1, <2>2, <3>1 DEF Evolves
    <3> QED
      BY <3>2, <3>3
  <2> QED
    BY <2>1, <2>2
<1>4. ASSUME ClaimHeld(q, lost)
      PROVE  Fine
  <2>1. CASE i \in held
    <3>1. Won(q, lost) /\ i \in Stored
      BY <1>4, <2>1 DEF ClaimHeld, Stored
    <3> QED
      BY <1>2, <3>1
  <2>2. CASE i \notin held
    <3>1. Answer(q, "missing") /\ zset' = zset /\ held' = held /\ i \notin zset
      BY <1>1, <1>4, <2>2 DEF ClaimHeld, Serving
    <3>2. /\ Others(q) /\ request'[q].pc = "done" /\ request'[q].answer = "missing"
          /\ request'[q].op = "firePending" /\ request'[q].id = i
      BY <1>1, <3>1, AnswerFields
    <3>3. i \in born' /\ i \notin zset' /\ i \notin held'
      BY <1>1, <2>2, <3>1 DEF Evolves
    <3> QED
      BY <3>2, <3>3
  <2> QED
    BY <2>1, <2>2
<1> QED
  BY <1>3, <1>4, OnesStep

LEMMA CancelInformed ==
    ASSUME TypeOK, Safe, Evolves, NEW q \in Request, NEW lost \in BOOLEAN,
           CancelZrem(q, lost) \/ CancelHdel(q, lost)
    PROVE  Informed' /\ SoleWinner'
<1> USE DEF TypeOK, Sound, OwnStep, KnowsWhere, WasTold, Winner, NamingPcs, FirePendingPcs,
            HoldPcs, CancelPcs, PastZset
<1> DEFINE i == request[q].id
           Fine == /\ Others(q)
                   /\ Sound(request'[q], zset', held', born', taker')
                   /\ Winner(request'[q]) => request'[q].id \in Stored
<1>1. /\ request[q].op = "cancel" /\ i \in born
      /\ request[q].pc = "cancelHdel" => i \notin zset
  BY DEF CancelZrem, CancelHdel, Serving, Safe, Informed
<1>2. ASSUME Take({i}, "cancel"), Answer(q, IF lost THEN "error" ELSE "ok"), i \in Stored
      PROVE  Fine
  <2>1. /\ Others(q) /\ request'[q].id = i /\ request'[q].pc = "done"
        /\ request'[q].op = "cancel" /\ request'[q].answer \in {"ok", "error"}
    BY <1>1, <1>2, AnswerFields
  <2>2. i \in born' /\ i \in Callback
    BY <1>1 DEF Evolves, StoreOK
  <2>3. taker'[i] = "cancel"
    BY <1>2, <2>2 DEF Take
  <2> QED
    BY <1>2, <2>1, <2>2, <2>3
<1>3. ASSUME CancelZrem(q, lost)
      PROVE  Fine
  <2>1. CASE i \in zset
    <3>1. Take({i}, "cancel") /\ Answer(q, IF lost THEN "error" ELSE "ok") /\ i \in Stored
      BY <1>3, <2>1 DEF CancelZrem, Stored
    <3> QED
      BY <1>2, <3>1
  <2>2. CASE i \notin zset
    <3>1. Goto(q, "cancelHdel") /\ zset' = zset
      BY <1>3, <2>2 DEF CancelZrem
    <3>2. /\ Others(q) /\ request'[q].pc = "cancelHdel"
          /\ request'[q].op = "cancel" /\ request'[q].id = i
      BY <1>1, <3>1, GotoFields
    <3>3. i \in born' /\ i \notin zset'
      BY <1>1, <2>2, <3>1 DEF Evolves
    <3> QED
      BY <3>2, <3>3
  <2> QED
    BY <2>1, <2>2
<1>4. ASSUME CancelHdel(q, lost)
      PROVE  Fine
  <2>1. CASE i \in held
    <3>1. Take({i}, "cancel") /\ Answer(q, IF lost THEN "error" ELSE "ok") /\ i \in Stored
      BY <1>4, <2>1 DEF CancelHdel, Stored
    <3> QED
      BY <1>2, <3>1
  <2>2. CASE i \notin held
    <3>1. Answer(q, "missing") /\ zset' = zset /\ held' = held /\ i \notin zset
      BY <1>1, <1>4, <2>2 DEF CancelHdel, Serving
    <3>2. /\ Others(q) /\ request'[q].pc = "done" /\ request'[q].answer = "missing"
          /\ request'[q].op = "cancel" /\ request'[q].id = i
      BY <1>1, <3>1, AnswerFields
    <3>3. i \in born' /\ i \notin zset' /\ i \notin held'
      BY <1>1, <2>2, <3>1 DEF Evolves
    <3> QED
      BY <3>2, <3>3
  <2> QED
    BY <2>1, <2>2
<1> QED
  BY <1>3, <1>4, OnesStep

LEMMA HoldInformed ==
    ASSUME TypeOK, Safe, Evolves, NEW q \in Request, NEW lost \in BOOLEAN, HoldMove(q, lost)
    PROVE  Informed' /\ SoleWinner'
<1> USE DEF TypeOK, Sound, OwnStep, KnowsWhere, WasTold, Winner, NamingPcs, FirePendingPcs,
            HoldPcs, CancelPcs, PastZset
<1> DEFINE i == request[q].id
           Fine == /\ Others(q)
                   /\ Sound(request'[q], zset', held', born', taker')
                   /\ ~Winner(request'[q])
<1>1. request[q].op = "hold" /\ i \in born
  BY DEF HoldMove, Serving, Safe, Informed
<1>2. CASE i \in zset
  <2>1. /\ Others(q) /\ request'[q].id = i /\ request'[q].pc = "done"
        /\ request'[q].op = "hold" /\ request'[q].answer \in {"ok", "error"}
    BY <1>1, <1>2, AnswerFields DEF HoldMove
  <2>2. i \notin zset' /\ UNCHANGED <<born, taker>> /\ taker[i] = "nobody"
    BY <1>2 DEF HoldMove, Safe, Custody, StoredOnce, Stored
  <2>3. Fine
    BY <1>1, <2>1, <2>2
  <2> QED
    BY <2>3, OnesStep
<1>3. CASE i \notin zset
  <2>1. Fine
    BY <1>1, <1>3, GotoFields DEF HoldMove
  <2> QED
    BY <2>1, OnesStep
<1> QED
  BY <1>2, <1>3

\* The steps that only look: what they find is where the callback is, since a
\* callback they missed in the sorted set is not put there any more.
LEMMA LookInformed ==
    ASSUME TypeOK, Safe, Evolves, NEW q \in Request,
           \/ FindNext(q) \/ FirePendingAssert(q) \/ ClaimFind(q)
           \/ HoldLook(q) \/ HoldLookNext(q) \/ ListNext(q)
    PROVE  Informed' /\ SoleWinner'
<1> USE DEF TypeOK, Sound, OwnStep, KnowsWhere, WasTold, Winner, NamingPcs, FirePendingPcs,
            HoldPcs, CancelPcs, PastZset, Serving, Contents, FirstKey, SecondKey
<1> DEFINE w == request[q]
           Fine == /\ Others(q)
                   /\ Sound(request'[q], zset', held', born', taker')
                   /\ ~Winner(request'[q])
<1>1. UNCHANGED <<zset, held, born, taker>>
  BY DEF FindNext, FirePendingAssert, ClaimFind, HoldLook, HoldLookNext, ListNext, store
<1>2. Sound(w, zset, held, born, taker)
  BY DEF Safe, Informed
<1>3. CASE FindNext(q)
  <2>1. Fine
    BY <1>1, <1>2, <1>3, GotoFields, AnswerFields DEF FindNext
  <2> QED
    BY <2>1, OnesStep
<1>4. CASE FirePendingAssert(q)
  <2>1. Fine
    BY <1>1, <1>2, <1>4, GotoFields, AnswerFields DEF FirePendingAssert
  <2> QED
    BY <2>1, OnesStep
<1>5. CASE ClaimFind(q)
  <2>1. Fine
    BY <1>1, <1>2, <1>5, GotoFields DEF ClaimFind
  <2> QED
    BY <2>1, OnesStep
<1>6. CASE HoldLook(q)
  <2>1. w.id \notin zset /\ w.id \in born /\ w.op = "hold" /\ Goto(q, "holdLookNext")
    BY <1>2, <1>6 DEF HoldLook
  <2>2. Fine
    BY <1>1, <2>1, GotoFields
  <2> QED
    BY <2>2, OnesStep
<1>7. CASE HoldLookNext(q)
  <2>1. w.id \in held => taker[w.id] = "nobody" /\ w.id \notin zset
    BY DEF Safe, Custody, StoredOnce, Stored
  <2>2. Fine
    BY <1>1, <1>2, <1>7, <2>1, AnswerFields DEF HoldLookNext, WhyNotHeld
  <2> QED
    BY <2>2, OnesStep
<1>8. CASE ListNext(q)
  <2>1. /\ request'[q].pc = "done" /\ request'[q].op = "list"
        /\ request'[q].owed = w.owed /\ request'[q].seen = w.seen \cup held
        /\ Others(q)
    BY <1>2, <1>8 DEF ListNext, RequestOK, RequestRecord, Others
  <2>2. w.owed \subseteq born /\ w.owed \cap (zset \cup held) \subseteq w.seen \cup held
    BY <1>2, <1>8 DEF ListNext
  <2>3. Fine
    BY <1>1, <2>1, <2>2
  <2> QED
    BY <2>3, OnesStep
<1> QED
  BY <1>3, <1>4, <1>5, <1>6, <1>7, <1>8

LEMMA FireInformed ==
    ASSUME TypeOK, Safe, Evolves, NEW q \in Request,
           \/ \E i \in Callback, d \in Delays, lost \in BOOLEAN : FireZadd(q, i, d, lost)
           \/ FireArm(q)
           \/ CommandFails(q)
    PROVE  Informed' /\ SoleWinner'
<1> USE DEF TypeOK, Sound, OwnStep, KnowsWhere, WasTold, Winner, NamingPcs, FirePendingPcs,
            HoldPcs, CancelPcs, PastZset, Serving
<1> DEFINE Fine == /\ Others(q)
                   /\ Sound(request'[q], zset', held', born', taker')
                   /\ ~Winner(request'[q])
<1>1. CASE \E i \in Callback, d \in Delays, lost \in BOOLEAN : FireZadd(q, i, d, lost)
  <2> PICK i \in Callback, d \in Delays, lost \in BOOLEAN : FireZadd(q, i, d, lost)
    BY <1>1
  <2>1. request[q].op = "fire" /\ request[q] \in RequestRecord
    BY DEF FireZadd, RequestOK, Safe, Informed
  <2>2. /\ request'[q].op = "fire" /\ request'[q].pc \in {"done", "arm"}
        /\ Others(q)
    BY <2>1 DEF FireZadd, RequestOK, RequestRecord, Others
  <2>3. Fine
    BY <2>2
  <2> QED
    BY <2>3, OnesStep
<1>2. CASE FireArm(q)
  <2>1. request[q].op = "fire"
    BY <1>2 DEF FireArm, Safe, Informed
  <2>2. Fine
    BY <1>2, <2>1, AnswerFields DEF FireArm
  <2> QED
    BY <2>2, OnesStep
<1>3. CASE CommandFails(q)
  <2>1. Fine
    BY <1>3, AnswerFields, IdleAnswer DEF CommandFails
  <2> QED
    BY <2>1, OnesStep
<1> QED
  BY <1>1, <1>2, <1>3

-----------------------------------------------------------------------------
(* Every step.                                                             *)

LEMMA GoneInformed ==
    ASSUME TypeOK, Safe, Evolves, NEW r \in Replica, Gone(r)
    PROVE  Informed' /\ SoleWinner'
<1> DEFINE Reset(w) == [w EXCEPT !.pc = "done", !.answer = "reset"]
<1>1. \A q \in Request : \/ request'[q] = request[q]
                         \/ request'[q] = Reset(request[q])
  BY DEF Gone
<1>2. \A q \in Request : Reset(request[q]).pc = "done" /\ Reset(request[q]).answer = "reset"
  BY DEF TypeOK, RequestOK, RequestRecord
<1> HIDE DEF Reset
<1>3. Informed'
  BY <1>1, <1>2, SoundStays, IdleAnswer DEF Safe, Informed
<1>4. SoleWinner'
  BY <1>1, <1>2, IdleAnswer DEF Safe, SoleWinner
<1> QED
  BY <1>3, <1>4

LEMMA SafeStep ==
    ASSUME TypeOK, Safe, [Next]_vars
    PROVE  Safe'
<1>1. Custody' /\ Evolves
  BY CustodyStep DEF Safe
<1>2. ASSUME NEW r \in Replica, SchedulerStep(r)
      PROVE  Informed' /\ SoleWinner'
  <2>1. UNCHANGED request
    BY <1>2 DEF SchedulerStep, Start, TimerFires, Wake, WakePeek, WakeArm
  <2> QED
    BY <1>1, <2>1, NobodysStep
<1>3. ASSUME NEW r \in Replica, NEW i \in Callback, Deliver(r, i)
      PROVE  Informed' /\ SoleWinner'
  <2>1. UNCHANGED request
    BY <1>3 DEF Deliver
  <2> QED
    BY <1>1, <2>1, NobodysStep
<1>4. ASSUME NEW q \in Request, NEW r \in Replica, RequestArrives(q, r)
      PROVE  Informed' /\ SoleWinner'
  BY <1>1, <1>4, ArrivesInformed
<1>5. ASSUME NEW q \in Request, RequestStep(q)
      PROVE  Informed' /\ SoleWinner'
  <2>1. CASE \/ FindNext(q) \/ FirePendingAssert(q) \/ ClaimFind(q)
             \/ HoldLook(q) \/ HoldLookNext(q) \/ ListNext(q)
    BY <1>1, <2>1, LookInformed
  <2>2. CASE \/ \E i \in Callback, d \in Delays, lost \in BOOLEAN : FireZadd(q, i, d, lost)
             \/ FireArm(q)
             \/ CommandFails(q)
    BY <1>1, <2>2, FireInformed
  <2>3. CASE \E lost \in BOOLEAN :
                 \/ ClaimZrem(q, lost) \/ ClaimHeld(q, lost)
                 \/ HoldMove(q, lost)
                 \/ CancelZrem(q, lost) \/ CancelHdel(q, lost)
    BY <1>1, <2>3, ClaimInformed, HoldInformed, CancelInformed
  <2> QED
    BY <1>5, <2>1, <2>2, <2>3 DEF RequestStep
<1>6. ASSUME NEW r \in Replica, Crash(r) \/ Stop(r) \/ Exit(r) \/ Remap(r)
      PROVE  Informed' /\ SoleWinner'
  BY <1>1, <1>6, GoneInformed, NobodysStep DEF Crash, Exit, Stop, Remap
<1>7. ASSUME Tick \/ UNCHANGED vars
      PROVE  Informed' /\ SoleWinner'
  BY <1>1, <1>7, NobodysStep DEF Tick, vars
<1> QED
  BY <1>1, <1>2, <1>3, <1>4, <1>5, <1>6, <1>7 DEF Next, Safe

LEMMA SafeInit == Init => Safe
<1> SUFFICES ASSUME Init PROVE Informed /\ SoleWinner
  BY CustodyInit DEF Safe
<1>1. \A q \in Request : request[q].pc = "idle"
  BY DEF Init, NoRequest
<1> QED
  BY <1>1 DEF Informed, SoleWinner, Sound, OwnStep, KnowsWhere, WasTold, Winner, NamingPcs,
              FirePendingPcs, HoldPcs, CancelPcs, PastZset

\* Safe is an invariant: a callback is in one place only, and what each request
\* has seen or was told is still so, after every interleaving, crash and error.
THEOREM SafeAlways == Spec => [](TypeOK /\ Safe)
<1>1. Init => TypeOK /\ Safe
  BY InitType, SafeInit
<1>2. TypeOK /\ Safe /\ [Next]_vars => (TypeOK /\ Safe)'
  BY NextType, SafeStep
<1> QED
  BY <1>1, <1>2, PTL DEF Spec

-----------------------------------------------------------------------------
(* What the clients may rely on.                                           *)

\* A cancel answered 204 is final: the callback is neither stored nor on its way
\* to a POST, and none was sent.
THEOREM CancelledForGood == Spec => []CancelIsFinal
<1>1. TypeOK /\ Safe => CancelIsFinal
  <2> SUFFICES ASSUME TypeOK, Safe, NEW q \in Request, Answered(q, "cancel", "ok")
               PROVE  /\ request[q].id \notin Stored
                      /\ posted[request[q].id] = 0
                      /\ \A r \in Replica : request[q].id \notin inflight[r]
    BY DEF CancelIsFinal
  <2>1. request[q].id \in Callback /\ taker[request[q].id] = "cancel"
    BY DEF Safe, Informed, Sound, WasTold, Answered, TypeOK, StoreOK
  <2>2. posted[request[q].id] \in Nat
    BY <2>1 DEF TypeOK, DeliveryOK
  <2> QED
    BY <2>1, <2>2 DEF Safe, Custody, StoredOnce, ClaimedOnce, PostedOnce
<1> QED
  BY <1>1, SafeAlways, PTL

\* A callback its holder was told is held is never taken by a wake.
THEOREM HeldForGood == Spec => []HeldWaits
<1>1. Safe => HeldWaits
  BY DEF Safe, Informed, Sound, WasTold, Answered, HeldWaits
<1> QED
  BY <1>1, SafeAlways, PTL

\* A callback answered 404 is not stored, then or later.
THEOREM MissingForGood == Spec => []NotFoundIsFinal
<1>1. Safe => NotFoundIsFinal
  BY DEF Safe, Informed, Sound, WasTold, Answered, NotFoundIsFinal, Stored
<1> QED
  BY <1>1, SafeAlways, PTL

\* One request at most is told that it fired or cancelled a callback, and then no
\* wake took it.
THEOREM OneIsToldSo == Spec => []OneWinner
<1>1. Safe => OneWinner
  <2> SUFFICES ASSUME Safe, NEW p \in Request, NEW q \in Request,
                      NEW a \in {"firePending", "cancel"}, NEW b \in {"firePending", "cancel"},
                      Answered(p, a, "ok"), Answered(q, b, "ok"), request[p].id = request[q].id
               PROVE  p = q /\ taker[request[p].id] # "wake"
    BY DEF OneWinner
  <2>1. p = q
    BY DEF Safe, SoleWinner, Winner, Answered
  <2>2. taker[request[p].id] # "wake"
    BY DEF Safe, Informed, Sound, WasTold, Answered
  <2> QED
    BY <2>1, <2>2
<1> QED
  BY <1>1, SafeAlways, PTL

\* A list misses no callback that was stored when it began and still is.
THEOREM ListMissesNothing == Spec => []ListIsComplete
<1>1. Safe => ListIsComplete
  BY DEF Safe, Informed, Sound, WasTold, Answered, ListIsComplete, Stored
<1> QED
  BY <1>1, SafeAlways, PTL

-----------------------------------------------------------------------------
(* The timer.                                                              *)

\* Arming never loses a timer nor moves it later, and obeys both bounds.
LEMMA ArmTimerEarliest ==
    ASSUME TypeOK, NEW r \in Replica, status[r] = "up", NEW d \in Nat
    PROVE  /\ ArmTimer(r, d) # None /\ ArmTimer(r, d) \in Nat
           /\ ArmTimer(r, d) <= d /\ ArmTimer(r, d) <= Cap
           /\ timer[r] # None => ArmTimer(r, d) <= timer[r]
  BY CapAssumption, NoneAssumption DEF ArmTimer, TypeOK, ProcessOK

\* The request of an accepted callback knows its replica and a born id.
Located == \A q \in Request : request[q].pc # "idle" => request[q].at \in Replica

AcceptedBy(w) == w.pc = "arm" \/ (w.op = "fire" /\ w.pc = "done" /\ w.answer = "ok")

Accepted == \A q \in Request : AcceptedBy(request[q]) => request[q].id \in born

LEMMA LocatedInit == Init => Located /\ Accepted
  BY DEF Init, Located, Accepted, AcceptedBy, NoRequest

\* How a step may change request q's record.
Changes(q) ==
    \/ request'[q] = request[q]
    \/ /\ \/ request'[q].at \in Replica
          \/ request[q].pc # "idle" /\ request'[q].at = request[q].at
       /\ AcceptedBy(request'[q]) => request'[q].id \in born'
       /\ Answered(q, "fire", "ok")' => FireArm(q)

LEMMA ArrivesChanges ==
    ASSUME TypeOK, NEW q \in Request, NEW r \in Replica, RequestArrives(q, r)
    PROVE  Changes(q) /\ Others(q)
<1> USE DEF TypeOK, Changes, AcceptedBy, Answered
<1>1. CASE FireAssert(q, r)
  BY <1>1, ArriveFields, ArriveAnsweredFields DEF FireAssert
<1>2. CASE ListPending(q, r)
  BY <1>2 DEF ListPending, NoRequest, RequestOK, Others
<1>3. CASE \E lost \in BOOLEAN : Clear(q, r, lost)
  BY <1>3, ArriveAnsweredFields DEF Clear
<1>4. CASE \E i \in Callback : FindPending(q, r, i) \/ HoldFind(q, r, i) \/ CancelFind(q, r, i)
  BY <1>4, ArriveFields DEF FindPending, HoldFind, CancelFind
<1> QED
  BY <1>1, <1>2, <1>3, <1>4 DEF RequestArrives

LEMMA StepChanges ==
    ASSUME TypeOK, Safe, Located, Accepted, Evolves, NEW q \in Request, RequestStep(q)
    PROVE  Changes(q) /\ Others(q)
<1> USE DEF TypeOK, Changes, AcceptedBy, Answered, Serving
<1>1. OwnStep(request[q])
  BY DEF Safe, Informed, Sound
<1> USE DEF OwnStep, FirePendingPcs, HoldPcs, CancelPcs
<1>2. ASSUME NEW i \in Callback, NEW d \in Delays, NEW lost \in BOOLEAN, FireZadd(q, i, d, lost)
      PROVE  Changes(q) /\ Others(q)
  <2>1. request[q] \in RequestRecord /\ request[q].pc = "zadd"
    BY <1>2 DEF FireZadd, RequestOK
  <2>2. /\ request'[q].at = request[q].at /\ request'[q].id = i /\ i \in born'
        /\ request'[q].pc = "done" => request'[q].answer = "error"
        /\ Others(q)
    BY <1>2, <2>1 DEF FireZadd, RequestOK, RequestRecord, Others
  <2> QED
    BY <2>1, <2>2
<1>3. CASE FireArm(q)
  <2>1. request[q].id \in born'
    BY <1>3 DEF FireArm, Accepted, Evolves
  <2> QED
    BY <1>3, <2>1, AnswerFields DEF FireArm
<1>4. ASSUME \/ FindNext(q) \/ FirePendingAssert(q) \/ ClaimFind(q)
             \/ HoldLook(q) \/ HoldLookNext(q) \/ CommandFails(q)
      PROVE  Changes(q) /\ Others(q)
  <2>1. /\ request[q].pc # "idle"
        /\ \/ request[q].op # "fire"
           \/ \E a \in {"error"} : Answer(q, a)
        /\ \/ \E pc \in {"assert", "claimFind", "claimZrem", "claimHeld", "holdLookNext"} : Goto(q, pc)
           \/ \E a \in Answers : Answer(q, a)
    BY <1>1, <1>4 DEF FindNext, FirePendingAssert, ClaimFind, HoldLook, HoldLookNext,
                      CommandFails, WhyNotHeld, Answers
  <2> QED
    BY <2>1, GotoFields, AnswerFields
<1>5. CASE ListNext(q)
  <2>1. /\ request[q].pc # "idle" /\ request[q].op = "list"
        /\ request'[q].at = request[q].at /\ request'[q].op = "list" /\ request'[q].pc = "done"
        /\ Others(q)
    BY <1>1, <1>5 DEF ListNext, RequestOK, RequestRecord, Others
  <2> QED
    BY <2>1
<1>6. ASSUME NEW lost \in BOOLEAN,
             \/ ClaimZrem(q, lost) \/ ClaimHeld(q, lost)
             \/ HoldMove(q, lost)
             \/ CancelZrem(q, lost) \/ CancelHdel(q, lost)
      PROVE  Changes(q) /\ Others(q)
  <2>1. /\ request[q].pc # "idle" /\ request[q].op # "fire"
        /\ \/ \E pc \in {"claimHeld", "holdLook", "cancelHdel"} : Goto(q, pc)
           \/ \E a \in {"ok", "error", "missing"} : Answer(q, a)
    BY <1>1, <1>6 DEF ClaimZrem, ClaimHeld, HoldMove, CancelZrem, CancelHdel, Won
  <2> QED
    BY <2>1, GotoFields, AnswerFields
<1> QED
  BY <1>2, <1>3, <1>4, <1>5, <1>6 DEF RequestStep

LEMMA GoneChanges ==
    ASSUME TypeOK, NEW r \in Replica, Gone(r), NEW q \in Request
    PROVE  Changes(q)
<1> DEFINE reset == [request[q] EXCEPT !.pc = "done", !.answer = "reset"]
<1>1. request[q] \in RequestRecord
  BY DEF TypeOK, RequestOK
<1>2. reset.at = request[q].at /\ reset.pc = "done" /\ reset.answer = "reset"
  BY <1>1 DEF RequestRecord
<1>3. request'[q] = request[q] \/ (request[q].at = r /\ request'[q] = reset)
  BY DEF Gone
<1> QED
  BY <1>2, <1>3 DEF Changes, AcceptedBy, Answered

LEMMA EveryoneChanges ==
    ASSUME TypeOK, Safe, Located, Accepted, [Next]_vars
    PROVE  \A q \in Request : Changes(q)
<1>1. Evolves
  BY CustodyStep DEF Safe
<1>2. ASSUME NEW p \in Request, NEW r \in Replica, RequestArrives(p, r)
      PROVE  \A q \in Request : Changes(q)
  BY <1>2, ArrivesChanges DEF Changes, Others
<1>3. ASSUME NEW p \in Request, RequestStep(p)
      PROVE  \A q \in Request : Changes(q)
  BY <1>1, <1>3, StepChanges DEF Changes, Others
<1>4. ASSUME NEW r \in Replica, Crash(r) \/ Stop(r) \/ Exit(r) \/ Remap(r)
      PROVE  \A q \in Request : Changes(q)
  BY <1>4, GoneChanges DEF Changes, Crash, Stop, Exit, Remap
<1>5. ASSUME NEW r \in Replica, SchedulerStep(r)
      PROVE  UNCHANGED request
  BY <1>5 DEF SchedulerStep, Start, TimerFires, Wake, WakePeek, WakeArm
<1>6. ASSUME NEW r \in Replica, NEW i \in Callback, Deliver(r, i)
      PROVE  UNCHANGED request
  BY <1>6 DEF Deliver
<1>7. CASE UNCHANGED request
  BY <1>7 DEF Changes
<1>8. CASE Tick \/ UNCHANGED vars
  BY <1>7, <1>8 DEF Tick, vars
<1> QED
  BY <1>2, <1>3, <1>4, <1>5, <1>6, <1>7, <1>8 DEF Next

LEMMA LocatedStep ==
    ASSUME TypeOK, Safe, Located, Accepted, [Next]_vars
    PROVE  Located' /\ Accepted'
<1>1. Evolves
  BY CustodyStep DEF Safe
<1>2. \A q \in Request : Changes(q)
  BY EveryoneChanges
<1> QED
  BY <1>1, <1>2 DEF Changes, Located, Accepted, Evolves

-----------------------------------------------------------------------------
(* What a step does to the timer and the wakes of replica r.               *)

\* Nothing of r's scheduler changes, or r is not up any more.
Asleep(r) ==
    \/ status'[r] # "up"
    \/ status'[r] = status[r] /\ timer'[r] = timer[r] /\ wake'[r] = wake[r]

\* A wake of r begins, and will peek.
Woken(r) == \E s \in Slot : wake'[r][s].pc = "peek"

\* A wake of r has looked at the sorted set, or could not.
Peeked(r, s) ==
    /\ wake[r][s].pc = "peek"
    /\ status'[r] = status[r] /\ timer'[r] = timer[r] /\ zset' = zset
    /\ \A x \in Slot \ {s} : wake'[r][x] = wake[r][x]
    /\ wake'[r][s].pc = "arm"
    /\ \/ \E i \in zset : NextDueAt(i) /\ wake'[r][s].next = dueIn[i]
       \/ zset = {}
       \/ errors' = errors + 1

\* A wake of r ends, having armed the timer for what it saw.
Armed(r, s) ==
    /\ wake[r][s].pc = "arm" /\ status'[r] = status[r]
    /\ \A x \in Slot \ {s} : wake'[r][x] = wake[r][x]
    /\ timer'[r] = ArmTimer(r, IF wake[r][s].next = None THEN Cap ELSE wake[r][s].next)

\* A schedule of r arms the timer.
Scheduled(r) ==
    /\ status'[r] = status[r] /\ wake'[r] = wake[r]
    /\ \E q \in Request : FireArm(q) /\ request[q].at = r
                            /\ timer'[r] = ArmTimer(r, dueIn[request[q].id])

LEMMA SchedulerStepEffect ==
    ASSUME TypeOK, NEW x \in Replica, SchedulerStep(x), NEW r \in Replica
    PROVE  /\ Asleep(r) \/ Woken(r) \/ \E s \in Slot : Peeked(r, s) \/ Armed(r, s)
           /\ dueIn' = dueIn
<1> USE DEF TypeOK, ProcessOK, store
<1> PICK s \in Slot : Start(x, s) \/ TimerFires(x, s) \/ WakePeek(x, s) \/ WakeArm(x, s)
  BY DEF SchedulerStep
<1>1. dueIn' = dueIn
  BY DEF Start, TimerFires, Wake, ClaimDue, WakePeek, WakeArm
<1>2. CASE x # r
  <2>1. Asleep(r)
    BY <1>2 DEF Asleep, Start, TimerFires, Wake, WakePeek, WakeArm
  <2> QED
    BY <1>1, <2>1
<1>3. CASE x = r /\ (Start(r, s) \/ TimerFires(r, s))
  <2>1. wake'[r][s].pc = "peek"
    BY <1>3 DEF Start, TimerFires, Wake
  <2> QED
    BY <1>1, <2>1 DEF Woken
<1>4. CASE x = r /\ WakePeek(r, s)
  <2>1. Peeked(r, s)
    BY <1>4 DEF WakePeek, Peeked, RedisError
  <2> QED
    BY <1>1, <2>1
<1>5. CASE x = r /\ WakeArm(r, s)
  <2>1. Armed(r, s)
    BY <1>5 DEF WakeArm, Armed
  <2> QED
    BY <1>1, <2>1
<1> QED
  BY <1>2, <1>3, <1>4, <1>5

LEMMA OtherStepEffect ==
    ASSUME TypeOK, Located, [Next]_vars, NEW r \in Replica
    PROVE  \/ \E x \in Replica : SchedulerStep(x)
           \/ Tick
           \/ /\ Asleep(r) \/ Scheduled(r)
              /\ \A i \in born : dueIn'[i] = dueIn[i]
<1> USE DEF TypeOK, ProcessOK, store, process
<1> DEFINE Calm == Asleep(r) /\ \A i \in born : dueIn'[i] = dueIn[i]
<1>1. UNCHANGED <<process, dueIn>> => Calm
  BY DEF Asleep
<1>2. ASSUME NEW x \in Replica, NEW i \in Callback, Deliver(x, i)
      PROVE  Calm
  BY <1>1, <1>2 DEF Deliver
<1>3. ASSUME NEW q \in Request, NEW x \in Replica, RequestArrives(q, x)
      PROVE  Calm
  BY <1>1, <1>3 DEF RequestArrives, FireAssert, ListPending, Clear, FindPending, HoldFind, CancelFind
<1>4. ASSUME NEW q \in Request, RequestStep(q)
      PROVE  Calm \/ (Scheduled(r) /\ dueIn' = dueIn)
  <2>1. CASE \E i \in Callback, d \in Delays, lost \in BOOLEAN : FireZadd(q, i, d, lost)
    <3> PICK i \in Callback, d \in Delays, lost \in BOOLEAN : FireZadd(q, i, d, lost)
      BY <2>1
    <3>1. UNCHANGED process /\ \A j \in born : dueIn'[j] = dueIn[j]
      BY DEF FireZadd, StoreOK
    <3> QED
      BY <3>1 DEF Asleep
  <2>2. CASE FireArm(q)
    <3>1. request[q].at \in Replica
      BY <2>2 DEF FireArm, Serving, Located
    <3>2. CASE request[q].at = r
      BY <2>2, <3>2 DEF FireArm, Scheduled
    <3>3. CASE request[q].at # r
      BY <2>2, <3>3 DEF FireArm, Asleep
    <3> QED
      BY <3>2, <3>3
  <2>3. CASE UNCHANGED <<process, dueIn>>
    BY <1>1, <2>3
  <2> QED
    BY <1>4, <2>1, <2>2, <2>3 DEF RequestStep, FindNext, FirePendingAssert, ClaimFind, HoldLook,
       HoldLookNext, ListNext, ClaimZrem, ClaimHeld, HoldMove, CancelZrem, CancelHdel, CommandFails
<1>5. ASSUME NEW x \in Replica, Crash(x) \/ Stop(x) \/ Exit(x) \/ Remap(x)
      PROVE  Calm
  <2>1. CASE Gone(x)
    BY <2>1 DEF Gone, Asleep
  <2>2. CASE Stop(x)
    BY <2>2 DEF Stop, Asleep
  <2> QED
    BY <1>1, <1>5, <2>1, <2>2 DEF Crash, Exit, Remap
<1>6. CASE UNCHANGED vars
  BY <1>1, <1>6 DEF vars
<1> QED
  BY <1>2, <1>3, <1>4, <1>5, <1>6 DEF Next

LEMMA TickEffect ==
    ASSUME TypeOK, Tick, NEW r \in Replica
    PROVE  /\ status' = status /\ (timer'[r] = None <=> timer[r] = None)
           /\ \A s \in Slot : wake'[r][s].pc = wake[r][s].pc
<1>1. \A n \in Nat : CountDown(n) \in Nat /\ n # None /\ CountDown(n) # None
  BY NoneAssumption DEF CountDown
<1>2. timer[r] \in Nat \cup {None} /\ timer'[r] = CountDown(timer[r])
  BY CapAssumption DEF Tick, TypeOK, ProcessOK
<1>3. CountDown(None) = None
  BY DEF CountDown
<1>4. \A s \in Slot :
          /\ wake[r][s] \in WakeRecord
          /\ wake'[r][s] = [wake[r][s] EXCEPT !.next = CountDown(@)]
  BY DEF Tick, TypeOK, ProcessOK
<1>5. \A s \in Slot : wake'[r][s].pc = wake[r][s].pc
  BY <1>4 DEF WakeRecord
<1> QED
  BY <1>1, <1>2, <1>3, <1>5 DEF Tick

-----------------------------------------------------------------------------
LEMMA AlwaysWakesStep ==
    ASSUME TypeOK, Located, AlwaysWakes, [Next]_vars
    PROVE  AlwaysWakes'
<1> SUFFICES ASSUME NEW r \in Replica, status'[r] = "up"
             PROVE  timer'[r] # None \/ \E s \in Slot : wake'[r][s].pc # "idle"
  BY DEF AlwaysWakes
<1>1. CASE Asleep(r)
  BY <1>1 DEF Asleep, AlwaysWakes
<1>2. CASE Woken(r)
  BY <1>2 DEF Woken
<1>3. ASSUME NEW s \in Slot, Peeked(r, s)
      PROVE  wake'[r][s].pc # "idle"
  BY <1>3 DEF Peeked
<1>4. ASSUME NEW s \in Slot, Armed(r, s)
      PROVE  timer'[r] # None
  <2>1. (IF wake[r][s].next = None THEN Cap ELSE wake[r][s].next) \in Nat
    BY CapAssumption DEF TypeOK, ProcessOK, WakeRecord
  <2> QED
    BY <1>4, <2>1, ArmTimerEarliest DEF Armed
<1>5. CASE Scheduled(r)
  <2>1. PICK q \in Request : FireArm(q) /\ timer'[r] = ArmTimer(r, dueIn[request[q].id])
    BY <1>5 DEF Scheduled
  <2>2. dueIn[request[q].id] \in Nat
    BY <2>1 DEF FireArm, Serving, TypeOK, RequestOK, StoreOK
  <2> QED
    BY <1>5, <2>1, <2>2, ArmTimerEarliest DEF Scheduled
<1>6. CASE Tick
  BY <1>6, TickEffect DEF AlwaysWakes
<1> QED
  BY <1>1, <1>2, <1>3, <1>4, <1>5, <1>6, SchedulerStepEffect, OtherStepEffect

\* A started replica is never left without a timer: it comes back within the cap
\* (TypeCorrect), so a callback some other replica stored is not left to it alone.
THEOREM ReplicaComesBack == Spec => []AlwaysWakes
<1>1. Init => Located /\ Accepted /\ AlwaysWakes
  BY LocatedInit DEF Init, AlwaysWakes
<1>2. TypeOK /\ Safe /\ (Located /\ Accepted /\ AlwaysWakes) /\ [Next]_vars
          => (Located /\ Accepted /\ AlwaysWakes)'
  BY LocatedStep, AlwaysWakesStep
<1> QED
  BY <1>1, <1>2, SafeAlways, PTL DEF Spec

-----------------------------------------------------------------------------
(* No replica sleeps past a callback it accepted.                          *)

LEMMA CoveredStep ==
    ASSUME TypeOK, Located, [Next]_vars, NEW r \in Replica, NEW i \in Callback,
           status[r] = "up", status'[r] = "up", errors' = 0, errors = 0,
           i \in zset, i \in zset', i \in born, Covered(r, i)
    PROVE  Covered(r, i)'
<1> USE DEF TypeOK
<1>1. dueIn[i] \in Nat
  BY DEF StoreOK
<1>2. ASSUME dueIn'[i] = dueIn[i], NEW t \in Nat, timer'[r] = t, t # None,
             timer[r] # None => t <= timer[r]
      PROVE  timer[r] # None /\ timer[r] <= dueIn[i] => Covered(r, i)'
  BY <1>1, <1>2, CapAssumption DEF Covered, ProcessOK
<1>3. CASE Asleep(r) /\ dueIn'[i] = dueIn[i]
  BY <1>3 DEF Asleep, Covered
<1>4. CASE Woken(r)
  BY <1>4 DEF Woken, Covered
<1>5. ASSUME NEW s \in Slot, Peeked(r, s), dueIn' = dueIn
      PROVE  Covered(r, i)'
  <2>1. PICK j \in zset : NextDueAt(j) /\ wake'[r][s].next = dueIn[j]
    BY <1>5 DEF Peeked
  <2>2. dueIn[j] \in Nat /\ dueIn[j] <= dueIn[i]
    BY <2>1 DEF NextDueAt, StoreOK
  <2>3. wake'[r][s].next # None
    BY <2>1, <2>2, NoneAssumption
  <2> QED
    BY <1>5, <2>1, <2>2, <2>3 DEF Peeked, Covered
<1>6. ASSUME NEW s \in Slot, Armed(r, s), dueIn' = dueIn
      PROVE  Covered(r, i)'
  <2> DEFINE in == IF wake[r][s].next = None THEN Cap ELSE wake[r][s].next
             t == ArmTimer(r, in)
  <2>1. in \in Nat
    BY CapAssumption DEF ProcessOK, WakeRecord
  <2> HIDE DEF in
  <2>2. t \in Nat /\ t # None /\ t <= in /\ (timer[r] # None => t <= timer[r])
    BY <2>1, ArmTimerEarliest
  <2>3. timer'[r] = t
    BY <1>6 DEF Armed, in
  <2> HIDE DEF t
  <2>4. CASE timer[r] # None /\ timer[r] <= dueIn[i]
    BY <1>2, <1>6, <2>2, <2>3, <2>4
  <2>5. ASSUME NEW x \in Slot,
               \/ wake[r][x].pc = "peek"
               \/ /\ wake[r][x].pc = "arm"
                  /\ wake[r][x].next # None
                  /\ wake[r][x].next <= dueIn[i]
        PROVE  Covered(r, i)'
    <3>1. CASE x = s
      <4>1. in <= dueIn[i]
        BY <1>6, <2>5, <3>1 DEF in, Armed
      <4>2. t <= dueIn[i]
        BY <1>1, <2>1, <2>2, <4>1
      <4> QED
        BY <1>6, <2>2, <2>3, <4>2 DEF Covered
    <3>2. CASE x # s
      BY <1>6, <2>5, <3>2 DEF Armed, Covered
    <3> QED
      BY <3>1, <3>2
  <2> QED
    BY <2>4, <2>5 DEF Covered
<1>7. CASE Scheduled(r) /\ dueIn'[i] = dueIn[i]
  <2>1. PICK q \in Request : FireArm(q) /\ timer'[r] = ArmTimer(r, dueIn[request[q].id])
    BY <1>7 DEF Scheduled
  <2> DEFINE t == ArmTimer(r, dueIn[request[q].id])
  <2>2. dueIn[request[q].id] \in Nat
    BY <2>1 DEF FireArm, Serving, RequestOK, StoreOK
  <2>3. t \in Nat /\ t # None /\ (timer[r] # None => t <= timer[r])
    BY <2>2, ArmTimerEarliest
  <2>4. timer[r] # None /\ timer[r] <= dueIn[i] => Covered(r, i)'
    BY <1>2, <1>7, <2>1, <2>3
  <2> QED
    BY <1>7, <2>4 DEF Scheduled, Covered
<1>8. CASE Tick
  <2>1. /\ dueIn'[i] = CountDown(dueIn[i]) /\ timer'[r] = CountDown(timer[r])
        /\ \A s \in Slot : /\ wake[r][s] \in WakeRecord
                           /\ wake'[r][s] = [wake[r][s] EXCEPT !.next = CountDown(@)]
    BY <1>8 DEF Tick, StoreOK, ProcessOK
  <2>2. \A n \in Nat : /\ CountDown(n) # None
                       /\ n <= dueIn[i] => CountDown(n) <= CountDown(dueIn[i])
    BY <1>1, NoneAssumption DEF CountDown
  <2>3. timer[r] # None => timer[r] \in Nat
    BY CapAssumption DEF ProcessOK
  <2>4. \A s \in Slot :
            /\ wake'[r][s].pc = wake[r][s].pc
            /\ wake'[r][s].next = CountDown(wake[r][s].next)
            /\ wake[r][s].next # None => wake[r][s].next \in Nat
    BY <2>1 DEF WakeRecord
  <2> QED
    BY <2>1, <2>2, <2>3, <2>4 DEF Covered
<1> QED
  BY <1>3, <1>4, <1>5, <1>6, <1>7, <1>8, SchedulerStepEffect, OtherStepEffect

LEMMA ErrorsGrow ==
    ASSUME TypeOK, [Next]_vars
    PROVE  errors' = errors \/ errors' = errors + 1
<1> USE DEF budget, Executed, RedisError
<1>1. ASSUME NEW r \in Replica, SchedulerStep(r)
      PROVE  errors' = errors \/ errors' = errors + 1
  BY <1>1 DEF SchedulerStep, Start, TimerFires, Wake, ClaimDue, WakePeek, WakeArm
<1>2. ASSUME NEW q \in Request, NEW r \in Replica, RequestArrives(q, r)
      PROVE  errors' = errors \/ errors' = errors + 1
  BY <1>2 DEF RequestArrives, FireAssert, ListPending, Clear, FindPending, HoldFind, CancelFind
<1>3. ASSUME NEW q \in Request, RequestStep(q)
      PROVE  errors' = errors \/ errors' = errors + 1
  <2>1. ASSUME NEW lost \in BOOLEAN,
               \/ ClaimZrem(q, lost) \/ ClaimHeld(q, lost) \/ HoldMove(q, lost)
               \/ CancelZrem(q, lost) \/ CancelHdel(q, lost)
               \/ \E i \in Callback, d \in Delays : FireZadd(q, i, d, lost)
        PROVE  errors' = errors \/ errors' = errors + 1
    BY <2>1 DEF ClaimZrem, ClaimHeld, Won, HoldMove, CancelZrem, CancelHdel, FireZadd
  <2> QED
    BY <1>3, <2>1 DEF RequestStep, FireArm, FindNext, FirePendingAssert, ClaimFind, HoldLook,
                      HoldLookNext, ListNext, CommandFails
<1>4. ASSUME NEW r \in Replica,
             \/ Crash(r) \/ Stop(r) \/ Exit(r) \/ Remap(r)
             \/ \E i \in Callback : Deliver(r, i)
      PROVE  errors' = errors
  BY <1>4 DEF Crash, Gone, Stop, Exit, Remap, Deliver
<1> QED
  BY <1>1, <1>2, <1>3, <1>4 DEF Next, Tick, vars

LEMMA WakesInTimeStep ==
    ASSUME TypeOK, Safe, Located, Accepted, WakesInTime, [Next]_vars
    PROVE  WakesInTime'
<1> SUFFICES ASSUME NEW q \in Request, Answered(q, "fire", "ok")', request'[q].id \in zset',
                    status'[request'[q].at] = "up", errors' = 0
             PROVE  Covered(request[q].at, request[q].id)'
  BY DEF WakesInTime
<1>1. Evolves /\ Changes(q) /\ errors = 0
  BY CustodyStep, EveryoneChanges, ErrorsGrow DEF Safe, TypeOK
<1>2. request'[q].at \in Replica /\ request'[q].id \in Callback /\ request'[q].id \in born'
  <2>1. TypeOK' /\ Located' /\ Accepted'
    BY NextType, LocatedStep
  <2> QED
    BY <2>1 DEF Located, Accepted, AcceptedBy, Answered, TypeOK, StoreOK
<1>3. PICK r \in Replica, i \in Callback : r = request'[q].at /\ i = request'[q].id
  BY <1>2
<1>4. SUFFICES Covered(r, i)'
  BY <1>3 DEF Covered
<1>5. CASE FireArm(q)
  <2>1. request[q].at = r /\ request[q].id = i
    BY <1>3, <1>5, AnswerFields DEF FireArm, TypeOK
  <2>2. status[r] = "up" /\ dueIn' = dueIn /\ dueIn[i] \in Nat
    BY <1>3, <1>5 DEF FireArm, store, TypeOK, StoreOK
  <2>3. timer'[r] = ArmTimer(r, dueIn[i])
    BY <1>5, <2>1 DEF FireArm, TypeOK, ProcessOK
  <2>4. timer'[r] # None /\ timer'[r] <= dueIn'[i]
    BY <2>2, <2>3, ArmTimerEarliest
  <2> QED
    BY <2>4 DEF Covered
<1>6. CASE request'[q] = request[q]
  <2>1. Answered(q, "fire", "ok") /\ request[q].at = r /\ request[q].id = i
    BY <1>3, <1>6 DEF Answered
  <2>2. i \in born
    BY <2>1 DEF Answered, Accepted, AcceptedBy
  <2>3. i \in zset /\ i \in zset' /\ status'[r] = "up"
    BY <1>1, <1>3, <2>2 DEF Evolves
  <2>4. CASE status[r] = "up"
    <3>1. Covered(r, i)
      BY <1>1, <2>1, <2>3, <2>4 DEF WakesInTime
    <3> QED
      BY <1>1, <2>2, <2>3, <2>4, <3>1, CoveredStep
  <2>5. CASE status[r] # "up"
    <3>1. ~Asleep(r) /\ ~Scheduled(r) /\ \A s \in Slot : ~Peeked(r, s) /\ ~Armed(r, s)
      BY <2>3, <2>5 DEF Asleep, Scheduled, Peeked, Armed
    <3>2. ~Tick
      BY <2>3, <2>5, TickEffect
    <3>3. Woken(r)
      BY <3>1, <3>2, SchedulerStepEffect, OtherStepEffect
    <3> QED
      BY <3>3 DEF Woken, Covered
  <2> QED
    BY <2>4, <2>5
<1> QED
  BY <1>1, <1>3, <1>5, <1>6 DEF Changes

\* A replica that accepted a callback comes for it by its due time, unless a Redis
\* command fails: no interleaving of schedules, wakes and peeks, and no restart,
\* leaves its timer later than what it accepted.
THEOREM AcceptedIsCovered == Spec => []WakesInTime
<1>1. Init => Located /\ Accepted /\ WakesInTime
  BY LocatedInit DEF Init, WakesInTime, Answered, NoRequest
<1>2. TypeOK /\ Safe /\ (Located /\ Accepted /\ WakesInTime) /\ [Next]_vars
          => (Located /\ Accepted /\ WakesInTime)'
  BY LocatedStep, WakesInTimeStep
<1> QED
  BY <1>1, <1>2, SafeAlways, PTL DEF Spec

==============================================================================
