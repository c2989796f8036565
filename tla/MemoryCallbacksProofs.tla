------------------------ MODULE MemoryCallbacksProofs ------------------------
(***************************************************************************)
(* MemoryCallbacks, for any sets of callbacks and requests and any bounds: *)
(* types, the idle scheduler strands nothing, answers stand, and the life  *)
(* cycle is implemented.                                                   *)
(***************************************************************************)
EXTENDS MemoryCallbacks, TLAPS

USE MemDelaysAssumption, MemBoundsAssumption, MemNoneAssumption

-----------------------------------------------------------------------------
(* Types.                                                                  *)

LEMMA TakeType ==
    ASSUME TypeOK, NEW S, NEW by \in {"wake", "request", "cancel", "clear", "exit"}, Take(S, by)
    PROVE  taker' \in [Callback -> {"nobody", "wake", "request", "cancel", "clear", "exit"}]
  BY DEF TypeOK, Take

LEMMA ArmedType ==
    ASSUME NEW t \in (0..Cap) \cup {None}, NEW in \in Nat
    PROVE  Armed(t, in) \in 0..Cap
  BY DEF Armed

LEMMA AnswerType ==
    ASSUME TypeOK, NEW q \in Request,
           NEW op \in {"fire", "firePending", "hold", "cancel", "clear"},
           NEW i \in Callback \cup {None},
           \/ \E pc \in {"store", "assert", "claim", "look"} : Goto(q, op, i, pc)
           \/ \E answer \in {"ok", "missing", "conflict", "refused"} : Answer(q, op, i, answer)
    PROVE  request' \in [Request -> RequestRecord]
<1>1. \A pc \in {"store", "assert", "claim", "look"} :
          [op |-> op, id |-> i, pc |-> pc, answer |-> "none"] \in RequestRecord
  BY DEF RequestRecord
<1>2. \A answer \in {"ok", "missing", "conflict", "refused"} :
          [op |-> op, id |-> i, pc |-> "done", answer |-> answer] \in RequestRecord
  BY DEF RequestRecord
<1> QED
  BY <1>1, <1>2 DEF TypeOK, Goto, Answer

LEMMA WakeType == TypeOK /\ Wake /\ status' = "up" => TypeOK'
<1> SUFFICES ASSUME TypeOK, Wake, status' = "up" PROVE TypeOK'
  OBVIOUS
<1>1. taker' \in [Callback -> {"nobody", "wake", "request", "cancel", "clear", "exit"}]
  BY TakeType DEF Wake
<1>2. timer' \in (0..Cap) \cup {None}
  <2>1. timer' = None \/ \E i \in pending : timer' = Armed(None, dueIn[i])
    BY DEF Wake, ArmFromRepository
  <2>2. \A i \in pending : Armed(None, dueIn[i]) \in 0..Cap
    BY ArmedType DEF TypeOK
  <2> QED
    BY <2>1, <2>2
<1> QED
  BY <1>1, <1>2 DEF Wake, Due, TypeOK

LEMMA RequestArrivesType ==
    ASSUME TypeOK, NEW q \in Request, RequestArrives(q)
    PROVE  TypeOK'
<1>1. CASE FireAssert(q)
  BY <1>1, AnswerType DEF FireAssert, TypeOK, map, process, delivery
<1>2. CASE Clear(q)
  <2>1. taker' \in [Callback -> {"nobody", "wake", "request", "cancel", "clear", "exit"}]
    BY <1>2, TakeType DEF Clear
  <2>2. request' \in [Request -> RequestRecord]
    BY <1>2, AnswerType DEF Clear
  <2> QED
    BY <1>2, <2>1, <2>2 DEF Clear, TypeOK, process, delivery
<1>3. ASSUME NEW i \in Callback, FindPending(q, i)
      PROVE  TypeOK'
  BY <1>3, AnswerType DEF FindPending, TypeOK, map, process, delivery
<1>4. ASSUME NEW i \in Callback, Hold(q, i)
      PROVE  TypeOK'
  <2>1. request' \in [Request -> RequestRecord]
    BY <1>4, AnswerType DEF Hold
  <2> QED
    BY <1>4, <2>1 DEF Hold, TypeOK, process, delivery
<1>5. ASSUME NEW i \in Callback, Cancel(q, i)
      PROVE  TypeOK'
  <2>1. taker' \in [Callback -> {"nobody", "wake", "request", "cancel", "clear", "exit"}]
    BY <1>5, TakeType DEF Cancel
  <2>2. request' \in [Request -> RequestRecord]
    BY <1>5, AnswerType DEF Cancel
  <2> QED
    BY <1>5, <2>1, <2>2 DEF Cancel, TypeOK, process, delivery
<1> QED
  BY <1>1, <1>2, <1>3, <1>4, <1>5, RequestArrives(q) DEF RequestArrives

LEMMA RequestStepType ==
    ASSUME TypeOK, NEW q \in Request, RequestStep(q)
    PROVE  TypeOK'
<1>0. request[q].id \in Callback \cup {None}
  BY DEF TypeOK, RequestRecord
<1>1. ASSUME NEW i \in Callback, NEW d \in Delays, FireStore(q, i, d)
      PROVE  TypeOK'
  <2>1. request' \in [Request -> RequestRecord]
    BY <1>1, AnswerType DEF FireStore
  <2>2. timer' \in (0..Cap) \cup {None}
    BY <1>1, ArmedType DEF FireStore, TypeOK
  <2>3. dueIn' \in [Callback -> Nat]
    BY <1>1 DEF FireStore, TypeOK
  <2> QED
    BY <1>1, <2>1, <2>2, <2>3 DEF FireStore, TypeOK, delivery
<1>2. CASE FirePendingAssert(q)
  BY <1>0, <1>2, AnswerType DEF FirePendingAssert, TypeOK, map, process, delivery
<1>3. CASE FirePendingClaim(q)
  <2> DEFINE i == request[q].id
  <2>1. request' \in [Request -> RequestRecord]
    BY <1>0, <1>3, AnswerType DEF FirePendingClaim
  <2>2. CASE i \in Stored
    <3>1. taker' \in [Callback -> {"nobody", "wake", "request", "cancel", "clear", "exit"}]
      BY <1>3, <2>2, TakeType DEF FirePendingClaim
    <3> QED
      BY <1>3, <2>1, <2>2, <3>1 DEF FirePendingClaim, TypeOK, Stored, process
  <2>3. CASE i \notin Stored
    BY <1>3, <2>1, <2>3 DEF FirePendingClaim, TypeOK, Stored, process
  <2> QED
    BY <2>2, <2>3
<1>4. CASE HoldLook(q)
  BY <1>0, <1>4, AnswerType DEF HoldLook, TypeOK, map, process, delivery
<1> QED
  BY <1>1, <1>2, <1>3, <1>4, RequestStep(q) DEF RequestStep

LEMMA GoneType == TypeOK /\ Gone /\ crashes' \in Nat => TypeOK'
<1> SUFFICES ASSUME TypeOK, Gone, crashes' \in Nat PROVE TypeOK'
  OBVIOUS
<1>1. taker' \in [Callback -> {"nobody", "wake", "request", "cancel", "clear", "exit"}]
  BY TakeType DEF Gone
<1>2. request' \in [Request -> RequestRecord]
  <2> SUFFICES ASSUME NEW q \in Request
               PROVE  (IF request[q].pc \in {"idle", "done"} THEN request[q]
                       ELSE [request[q] EXCEPT !.pc = "done", !.answer = "reset"])
                          \in RequestRecord
    BY DEF Gone
  <2>1. request[q] \in RequestRecord
    BY DEF TypeOK
  <2> QED
    BY <2>1 DEF RequestRecord
<1> QED
  BY <1>1, <1>2 DEF Gone, TypeOK

LEMMA NextType == TypeOK /\ [Next]_vars => TypeOK'
<1> SUFFICES ASSUME TypeOK, [Next]_vars PROVE TypeOK'
  OBVIOUS
<1>1. CASE Start \/ TimerFires
  BY <1>1, WakeType DEF Start, TimerFires, TypeOK
<1>2. ASSUME NEW i \in Callback, Deliver(i)
      PROVE  TypeOK'
  BY <1>2 DEF Deliver, TypeOK, map, process
<1>3. ASSUME NEW q \in Request, RequestArrives(q) \/ RequestStep(q)
      PROVE  TypeOK'
  BY <1>3, RequestArrivesType, RequestStepType
<1>4. CASE Crash \/ Exit
  BY <1>4, GoneType DEF Crash, Exit, Spend, TypeOK
<1>5. CASE Stop
  BY <1>5 DEF Stop, Spend, TypeOK, map, delivery
<1>6. CASE Remap
  <2>1. known' \in BOOLEAN
    BY <1>6 DEF Remap, TypeOK
  <2> QED
    BY <1>6, <2>1 DEF Remap, TypeOK, map, process, delivery
<1>7. CASE Tick
  BY <1>7 DEF Tick, CountDown, TypeOK, delivery
<1>8. CASE UNCHANGED vars
  BY <1>8 DEF vars, TypeOK, map, process, delivery
<1> QED
  BY <1>1, <1>2, <1>3, <1>4, <1>5, <1>6, <1>7, <1>8 DEF Next

LEMMA InitType == Init => TypeOK
  BY DEF Init, TypeOK, NoRequest, RequestRecord

\* Types, and no timer beyond the cap.
THEOREM TypeCorrect == Spec => []TypeOK
  BY InitType, NextType, PTL DEF Spec

-----------------------------------------------------------------------------
(* The timer.                                                              *)

LEMMA ArmedEarliest ==
    ASSUME NEW t \in (0..Cap) \cup {None}, NEW in \in Nat
    PROVE  /\ Armed(t, in) \in 0..Cap
           /\ Armed(t, in) <= in
           /\ t # None => Armed(t, in) <= t
  BY DEF Armed

LEMMA WakeArms == TypeOK /\ Wake => \A i \in pending' : timer' # None /\ timer' <= dueIn'[i]
<1> SUFFICES ASSUME TypeOK, Wake, NEW i \in pending'
             PROVE  timer' # None /\ timer' <= dueIn'[i]
  OBVIOUS
<1>1. pending' = pending \ Due /\ dueIn' = dueIn /\ ArmFromRepository(pending \ Due)
  BY DEF Wake
<1>2. PICK j \in pending \ Due : /\ \A k \in pending \ Due : dueIn[j] <= dueIn[k]
                                 /\ timer' = Armed(None, dueIn[j])
  BY <1>1 DEF ArmFromRepository
<1>3. dueIn[i] \in Nat /\ dueIn[j] \in Nat /\ dueIn[j] <= dueIn[i]
  BY <1>1, <1>2 DEF TypeOK
<1>4. timer' \in 0..Cap /\ timer' <= dueIn[j]
  BY <1>2, <1>3, ArmedEarliest
<1> QED
  BY <1>1, <1>3, <1>4

\* However callbacks are scheduled, held, fired and cancelled, a started
\* scheduler's timer is no later than any callback that waits for one.
THEOREM IdleStrandsNothing == Spec => []NeverStranded
<1>1. Init => NeverStranded
  BY DEF Init, NeverStranded
<1>2. TypeOK /\ TypeOK' /\ NeverStranded /\ [Next]_vars => NeverStranded'
  <2> SUFFICES ASSUME TypeOK, TypeOK', NeverStranded, [Next]_vars, status' = "up",
                      NEW i \in pending'
               PROVE  timer' # None /\ timer' <= dueIn'[i]
    BY DEF NeverStranded
  <2>1. CASE Start \/ TimerFires
    BY <2>1, WakeArms DEF Start, TimerFires
  <2>2. ASSUME NEW q \in Request, NEW j \in Callback, NEW d \in Delays, FireStore(q, j, d)
        PROVE  timer' # None /\ timer' <= dueIn'[i]
    <3>1. /\ status = "up" /\ timer' = Armed(timer, d) /\ d \in Nat
          /\ dueIn' = [dueIn EXCEPT ![j] = d]
          /\ i \in pending \/ i = j
      BY <2>2 DEF FireStore
    <3>2. /\ timer' \in 0..Cap /\ timer' <= d
          /\ timer # None => timer' <= timer
      BY <3>1, ArmedEarliest DEF TypeOK
    <3>3. CASE i = j
      BY <3>1, <3>2, <3>3 DEF TypeOK
    <3>4. CASE i \in pending /\ i # j
      <4>1. timer # None /\ timer <= dueIn[i] /\ dueIn'[i] = dueIn[i] /\ dueIn[i] \in Nat
        BY <3>1, <3>4 DEF NeverStranded, TypeOK
      <4>2. timer \in 0..Cap /\ timer' <= timer
        BY <3>2, <4>1 DEF TypeOK
      <4> QED
        BY <3>2, <4>1, <4>2
    <3> QED
      BY <3>1, <3>3, <3>4
  <2>3. CASE /\ status = "up" /\ UNCHANGED timer /\ dueIn' = dueIn
             /\ pending' \subseteq pending
    BY <2>3 DEF NeverStranded
  <2>4. CASE Tick
    <3>1. timer # None /\ timer <= dueIn[i] /\ timer \in Nat /\ dueIn[i] \in Nat
      BY <2>4 DEF Tick, NeverStranded, TypeOK
    <3>2. timer' = CountDown(timer) /\ dueIn'[i] = CountDown(dueIn[i])
      BY <2>4 DEF Tick, TypeOK
    <3> QED
      BY <3>1, <3>2 DEF CountDown
  <2>5. ASSUME NEW j \in Callback, Deliver(j)
        PROVE  /\ status = "up" /\ UNCHANGED timer /\ dueIn' = dueIn
               /\ pending' \subseteq pending
    BY <2>5 DEF Deliver, map, process
  <2>6. ASSUME NEW q \in Request, RequestArrives(q) \/ FirePendingAssert(q)
                                  \/ FirePendingClaim(q) \/ HoldLook(q)
        PROVE  /\ status = "up" /\ UNCHANGED timer /\ dueIn' = dueIn
               /\ pending' \subseteq pending
    BY <2>6 DEF RequestArrives, FireAssert, Clear, FindPending, Hold, Cancel, FirePendingAssert,
                FirePendingClaim, HoldLook, map, process
  <2>7. ~Crash /\ ~Exit /\ ~Stop
    BY DEF Crash, Exit, Gone, Stop
  <2>8. CASE Remap \/ UNCHANGED vars
    BY <2>3, <2>8 DEF Remap, vars, map, process
  <2> QED
    BY <2>1, <2>2, <2>3, <2>4, <2>5, <2>6, <2>7, <2>8 DEF Next, RequestStep
<1> QED
  BY <1>1, <1>2, TypeCorrect, PTL DEF Spec

-----------------------------------------------------------------------------
(* Custody and answers.                                                    *)

\* A callback is in the Map, held or not, or in the hands of deliver(), or
\* nowhere, and POSTed only after it left both.
Custody ==
    /\ pending \cap held = {}
    /\ \A i \in Stored : i \in born /\ taker[i] = "nobody" /\ posted[i] = 0 /\ i \notin inflight
    /\ \A i \in inflight : taker[i] \in {"wake", "request"} /\ posted[i] = 0
    /\ \A i \in Callback :
        /\ taker[i] # "nobody" => i \in born
        /\ posted[i] <= 1
        /\ posted[i] > 0 => taker[i] \in {"wake", "request"}

\* What request record w may rely on, when the entries of the Map are p and h,
\* the ids in use b and the takers t.
Sound(w, p, h, b, t) ==
    /\ w.pc = "store" => w.op = "fire"
    /\ w.pc \in {"assert", "claim", "look"} => w.id \in b
    /\ w.pc = "look" => w.id \notin p
    /\ w.pc = "done" =>
        /\ w.op \in {"firePending", "hold", "cancel"} => w.id \in b
        /\ w.op = "cancel" /\ w.answer = "ok" => t[w.id] = "cancel"
        /\ w.op = "hold" /\ w.answer \in {"ok", "conflict"} => w.id \notin p /\ t[w.id] # "wake"
        /\ w.op \in {"firePending", "hold", "cancel"} /\ w.answer = "missing" =>
               w.id \notin p /\ w.id \notin h

Informed == \A q \in Request : Sound(request[q], pending, held, born, taker)

\* What no step does to the Map: bring a callback back, make a held one wait
\* again, or change what took one.
Evolves ==
    /\ born \subseteq born'
    /\ \A i \in born :
        /\ i \in pending' => i \in pending
        /\ i \in held' => i \in Stored
        /\ \/ taker'[i] = taker[i]
           \/ i \in Stored /\ (taker'[i] = "wake" => i \in pending)

Kept == Custody' /\ Evolves

\* The callbacks of S leave the Map, into the hands of deliver() or not; a
\* process that ends loses what deliver() had.
LEMMA TakeOut ==
    ASSUME TypeOK, Custody,
           NEW S \in SUBSET Stored,
           NEW by \in {"wake", "request", "cancel", "clear", "exit"},
           by = "wake" => S \subseteq pending,
           pending' = pending \ S, held' = held \ S, Take(S, by), UNCHANGED <<born, posted>>,
           inflight' \subseteq inflight \cup (IF by \in {"wake", "request"} THEN S ELSE {})
    PROVE  Kept
<1> USE DEF TypeOK, Stored
<1>1. /\ Stored' = Stored \ S
      /\ \A i \in Callback : taker'[i] = IF i \in S THEN by ELSE taker[i]
  BY DEF Take
<1>2. \A i \in S : i \in Callback /\ i \in born /\ posted[i] = 0 /\ i \notin inflight
  BY DEF Custody
<1>3. Custody'
  BY <1>1, <1>2 DEF Custody
<1>4. Evolves
  BY <1>1, <1>2 DEF Evolves
<1> QED
  BY <1>3, <1>4 DEF Kept

LEMMA MapUntouched ==
    ASSUME TypeOK, Custody, UNCHANGED <<pending, held, born, taker, posted, inflight>>
    PROVE  Kept
  BY DEF Kept, Custody, Evolves, TypeOK, Stored

LEMMA WakeKept == TypeOK /\ Custody /\ Wake => Kept
<1> SUFFICES ASSUME TypeOK, Custody, Wake PROVE Kept
  OBVIOUS
<1>1. Due \in SUBSET Stored /\ Due \subseteq pending
  BY DEF Due, Stored
<1> QED
  BY <1>1, TakeOut DEF Wake

LEMMA DeliverKept ==
    ASSUME TypeOK, Custody, NEW i \in Callback, Deliver(i)
    PROVE  Kept
<1> USE DEF TypeOK, Stored
<1>1. /\ UNCHANGED <<pending, held, born, taker>>
      /\ i \in inflight /\ inflight' = inflight \ {i}
      /\ posted' = posted \/ posted' = [posted EXCEPT ![i] = @ + 1]
  BY DEF Deliver, map
<1>2. posted[i] = 0 /\ taker[i] \in {"wake", "request"} /\ i \notin Stored
  BY <1>1 DEF Custody
<1>3. posted'[i] \in {0, 1} /\ \A j \in Callback \ {i} : posted'[j] = posted[j]
  BY <1>1, <1>2
<1>4. Custody'
  BY <1>1, <1>2, <1>3 DEF Custody
<1>5. Evolves
  BY <1>1 DEF Evolves
<1> QED
  BY <1>4, <1>5 DEF Kept

LEMMA FireStoreKept ==
    ASSUME TypeOK, Custody, NEW q \in Request, NEW i \in Callback, NEW d, FireStore(q, i, d)
    PROVE  Kept
<1> USE DEF TypeOK, Stored
<1>1. /\ i \notin born /\ pending' = pending \cup {i} /\ born' = born \cup {i}
      /\ UNCHANGED <<held, taker, inflight, posted>>
  BY DEF FireStore, delivery
<1>2. i \notin Stored /\ i \notin inflight /\ taker[i] = "nobody" /\ posted[i] = 0
  BY <1>1 DEF Custody
<1>3. Custody'
  BY <1>1, <1>2 DEF Custody
<1>4. Evolves
  BY <1>1 DEF Evolves
<1> QED
  BY <1>3, <1>4 DEF Kept

LEMMA HoldKept ==
    ASSUME TypeOK, Custody, NEW q \in Request, NEW i \in Callback, Hold(q, i)
    PROVE  Kept
<1> USE DEF TypeOK, Stored
<1>1. CASE i \in pending
  <2>1. /\ pending' = pending \ {i} /\ held' = held \cup {i}
        /\ UNCHANGED <<born, taker, inflight, posted>>
    BY <1>1 DEF Hold, delivery
  <2>2. Custody'
    BY <1>1, <2>1 DEF Custody
  <2>3. Evolves
    BY <1>1, <2>1 DEF Evolves
  <2> QED
    BY <2>2, <2>3 DEF Kept
<1>2. CASE i \notin pending
  BY <1>2, MapUntouched DEF Hold, delivery
<1> QED
  BY <1>1, <1>2

LEMMA LeaveKept ==
    ASSUME TypeOK, Custody, NEW q \in Request,
           \/ \E i \in Callback : Cancel(q, i)
           \/ Clear(q)
           \/ FirePendingClaim(q)
    PROVE  Kept
<1>1. ASSUME NEW i \in Callback, Cancel(q, i)
      PROVE  Kept
  <2>1. /\ pending' = pending \ ({i} \cap Stored) /\ held' = held \ ({i} \cap Stored)
        /\ Take({i} \cap Stored, "cancel") /\ UNCHANGED <<born, posted, inflight>>
    BY <1>1 DEF Cancel, Stored, delivery
  <2>2. {i} \cap Stored \in SUBSET Stored
    OBVIOUS
  <2> HIDE DEF Stored
  <2> QED
    BY <2>1, <2>2, TakeOut
<1>2. CASE Clear(q)
  <2>1. /\ pending' = pending \ Stored /\ held' = held \ Stored
        /\ Take(Stored, "clear") /\ UNCHANGED <<born, posted, inflight>>
    BY <1>2 DEF Clear, Stored, delivery
  <2> QED
    BY <2>1, TakeOut
<1>3. CASE FirePendingClaim(q)
  <2>1. CASE request[q].id \in Stored
    <3> PICK i \in Stored : i = request[q].id
      BY <2>1
    <3>1. /\ pending' = pending \ {i} /\ held' = held \ {i} /\ Take({i}, "request")
          /\ inflight' = inflight \cup {i} /\ UNCHANGED <<born, posted>>
      BY <1>3 DEF FirePendingClaim
    <3>2. {i} \in SUBSET Stored
      OBVIOUS
    <3> QED
      BY <3>1, <3>2, TakeOut
  <2>2. CASE request[q].id \notin Stored
    BY <1>3, <2>2, MapUntouched DEF FirePendingClaim
  <2> QED
    BY <2>1, <2>2
<1> QED
  BY <1>1, <1>2, <1>3

LEMMA GoneKept == TypeOK /\ Custody /\ Gone => Kept
<1> SUFFICES ASSUME TypeOK, Custody, Gone PROVE Kept
  OBVIOUS
<1>1. /\ pending' = pending \ Stored /\ held' = held \ Stored
      /\ Take(Stored, "exit") /\ inflight' = {} /\ UNCHANGED <<born, posted>>
  BY DEF Gone, Stored
<1> QED
  BY <1>1, TakeOut

LEMMA CustodyStep ==
    ASSUME TypeOK, Custody, [Next]_vars
    PROVE  Kept
<1> DEFINE Untouched == UNCHANGED <<pending, held, born, taker, posted, inflight>>
<1>1. Untouched => Kept
  BY MapUntouched
<1> HIDE DEF Untouched
<1>2. CASE Start \/ TimerFires
  BY <1>2, WakeKept DEF Start, TimerFires
<1>3. ASSUME NEW i \in Callback, Deliver(i)
      PROVE  Kept
  BY <1>3, DeliverKept
<1>4. ASSUME NEW q \in Request, RequestArrives(q)
      PROVE  Kept
  <2>1. \/ Untouched \/ Clear(q)
        \/ \E i \in Callback : Hold(q, i) \/ Cancel(q, i)
    BY <1>4 DEF RequestArrives, FireAssert, FindPending, Untouched, map, delivery
  <2> QED
    BY <1>1, <2>1, HoldKept, LeaveKept
<1>5. ASSUME NEW q \in Request, RequestStep(q)
      PROVE  Kept
  <2>1. \/ Untouched \/ FirePendingClaim(q)
        \/ \E i \in Callback, d \in Delays : FireStore(q, i, d)
    BY <1>5 DEF RequestStep, FirePendingAssert, HoldLook, Untouched, map, delivery
  <2> QED
    BY <1>1, <2>1, FireStoreKept, LeaveKept
<1>6. CASE Crash \/ Exit
  BY <1>6, GoneKept DEF Crash, Exit
<1>7. CASE Stop \/ Remap \/ Tick \/ UNCHANGED vars
  BY <1>1, <1>7 DEF Stop, Remap, Tick, vars, Untouched, map, delivery
<1> QED
  BY <1>2, <1>3, <1>4, <1>5, <1>6, <1>7 DEF Next

-----------------------------------------------------------------------------
\* A request that makes no step can go on relying on what it knows.
LEMMA SoundStays ==
    ASSUME TypeOK, Custody, Evolves, NEW w \in RequestRecord,
           Sound(w, pending, held, born, taker)
    PROVE  Sound(w, pending', held', born', taker')
  BY DEF Sound, Evolves, Custody, TypeOK, Stored

LEMMA OnesStep ==
    ASSUME TypeOK, Custody, Evolves, Informed, NEW q \in Request, NEW w,
           request' = [request EXCEPT ![q] = w],
           Sound(w, pending', held', born', taker')
    PROVE  Informed'
<1> SUFFICES ASSUME NEW p \in Request
             PROVE  Sound(request'[p], pending', held', born', taker')
  BY DEF Informed
<1>1. CASE p = q
  BY <1>1 DEF TypeOK
<1>2. CASE p # q
  BY <1>2, SoundStays DEF Informed, TypeOK
<1> QED
  BY <1>1, <1>2

LEMMA NobodysStep ==
    ASSUME TypeOK, Custody, Evolves, Informed, UNCHANGED request
    PROVE  Informed'
  BY SoundStays DEF Informed, TypeOK

LEMMA ArrivesInformed ==
    ASSUME TypeOK, Custody, Evolves, Informed, NEW q \in Request, RequestArrives(q)
    PROVE  Informed'
<1>1. CASE FireAssert(q) \/ Clear(q)
  <2>1. \/ request' = [request EXCEPT ![q] =
               [op |-> "fire", id |-> None, pc |-> "store", answer |-> "none"]]
        \/ request' = [request EXCEPT ![q] =
               [op |-> "fire", id |-> None, pc |-> "done", answer |-> "refused"]]
        \/ request' = [request EXCEPT ![q] =
               [op |-> "clear", id |-> None, pc |-> "done", answer |-> "ok"]]
    BY <1>1 DEF FireAssert, Clear, Goto, Answer
  <2> QED
    BY <2>1, OnesStep DEF Sound
<1>2. ASSUME NEW i \in Callback, FindPending(q, i)
      PROVE  Informed'
  <2>1. /\ i \in born /\ UNCHANGED <<pending, held, born, taker>>
        /\ i \in Stored => request' = [request EXCEPT ![q] =
               [op |-> "firePending", id |-> i, pc |-> "assert", answer |-> "none"]]
        /\ i \notin Stored => request' = [request EXCEPT ![q] =
               [op |-> "firePending", id |-> i, pc |-> "done", answer |-> "missing"]]
    BY <1>2 DEF FindPending, Goto, Answer, map
  <2> QED
    BY <2>1, OnesStep DEF Sound, Stored
<1>3. ASSUME NEW i \in Callback, Hold(q, i)
      PROVE  Informed'
  <2>1. /\ i \in born /\ UNCHANGED <<born, taker>>
        /\ i \notin pending'
        /\ i \in pending => taker[i] = "nobody"
        /\ \/ /\ i \in pending
              /\ request' = [request EXCEPT ![q] =
                     [op |-> "hold", id |-> i, pc |-> "done", answer |-> "ok"]]
           \/ request' = [request EXCEPT ![q] =
                     [op |-> "hold", id |-> i, pc |-> "look", answer |-> "none"]]
    BY <1>3 DEF Hold, Goto, Answer, Custody, Stored
  <2> QED
    BY <2>1, OnesStep DEF Sound
<1>4. ASSUME NEW i \in Callback, Cancel(q, i)
      PROVE  Informed'
  <2>1. /\ i \in born /\ UNCHANGED born
        /\ i \notin pending' /\ i \notin held'
        /\ \/ /\ taker'[i] = "cancel"
              /\ request' = [request EXCEPT ![q] =
                     [op |-> "cancel", id |-> i, pc |-> "done", answer |-> "ok"]]
           \/ request' = [request EXCEPT ![q] =
                     [op |-> "cancel", id |-> i, pc |-> "done", answer |-> "missing"]]
    BY <1>4 DEF Cancel, Take, Answer
  <2> QED
    BY <2>1, OnesStep DEF Sound
<1> QED
  BY <1>1, <1>2, <1>3, <1>4 DEF RequestArrives

LEMMA StepInformed ==
    ASSUME TypeOK, Custody, Evolves, Informed, NEW q \in Request, RequestStep(q)
    PROVE  Informed'
<1>0. Sound(request[q], pending, held, born, taker)
  BY DEF Informed
<1>1. ASSUME NEW i \in Callback, NEW d \in Delays, FireStore(q, i, d)
      PROVE  Informed'
  <2>1. request' = [request EXCEPT ![q] =
            [op |-> "fire", id |-> i, pc |-> "done", answer |-> "ok"]]
    BY <1>1 DEF FireStore, Answer
  <2> QED
    BY <2>1, OnesStep DEF Sound
<1>2. CASE FirePendingAssert(q)
  <2> DEFINE i == request[q].id
  <2>1. /\ i \in born /\ UNCHANGED <<pending, held, born, taker>>
        /\ \/ request' = [request EXCEPT ![q] =
                  [op |-> "firePending", id |-> i, pc |-> "claim", answer |-> "none"]]
           \/ request' = [request EXCEPT ![q] =
                  [op |-> "firePending", id |-> i, pc |-> "done", answer |-> "refused"]]
    BY <1>0, <1>2 DEF FirePendingAssert, Goto, Answer, Sound, Serving, map
  <2> HIDE DEF i
  <2> QED
    BY <2>1, OnesStep DEF Sound
<1>3. CASE FirePendingClaim(q)
  <2> DEFINE i == request[q].id
  <2>1. /\ i \in born /\ UNCHANGED born
        /\ i \notin pending' /\ i \notin held'
        /\ \/ request' = [request EXCEPT ![q] =
                  [op |-> "firePending", id |-> i, pc |-> "done", answer |-> "ok"]]
           \/ request' = [request EXCEPT ![q] =
                  [op |-> "firePending", id |-> i, pc |-> "done", answer |-> "missing"]]
    BY <1>0, <1>3 DEF FirePendingClaim, Answer, Sound, Serving, Stored
  <2> HIDE DEF i
  <2> QED
    BY <2>1, OnesStep DEF Sound
<1>4. CASE HoldLook(q)
  <2> DEFINE i == request[q].id
  <2>1. /\ i \in born /\ i \notin pending /\ UNCHANGED <<pending, held, born, taker>>
        /\ \/ /\ taker[i] = "nobody"
              /\ request' = [request EXCEPT ![q] =
                     [op |-> "hold", id |-> i, pc |-> "done", answer |-> "conflict"]]
           \/ /\ i \notin held
              /\ request' = [request EXCEPT ![q] =
                     [op |-> "hold", id |-> i, pc |-> "done", answer |-> "missing"]]
    BY <1>0, <1>4 DEF HoldLook, Answer, Sound, Serving, Custody, Stored, map
  <2> HIDE DEF i
  <2> QED
    BY <2>1, OnesStep DEF Sound
<1> QED
  BY <1>1, <1>2, <1>3, <1>4 DEF RequestStep

LEMMA GoneInformed ==
    ASSUME TypeOK, Custody, Evolves, Informed, Gone
    PROVE  Informed'
<1> SUFFICES ASSUME NEW q \in Request
             PROVE  Sound(request'[q], pending', held', born', taker')
  BY DEF Informed
<1>1. /\ request[q] \in RequestRecord
      /\ Sound(request[q], pending, held, born, taker)
      /\ born' = born
  BY DEF TypeOK, Informed, Gone
<1>2. CASE request[q].pc \in {"idle", "done"}
  BY <1>1, <1>2, SoundStays DEF Gone
<1>3. CASE request[q].pc \notin {"idle", "done"}
  <2>1. request'[q] = [request[q] EXCEPT !.pc = "done", !.answer = "reset"]
    BY <1>3 DEF Gone
  <2>2. /\ request'[q].op = request[q].op /\ request'[q].id = request[q].id
        /\ request'[q].pc = "done" /\ request'[q].answer = "reset"
    BY <1>1, <2>1 DEF RequestRecord
  <2>3. request[q].pc \in {"store", "assert", "claim", "look"}
    BY <1>1, <1>3 DEF RequestRecord
  <2> QED
    BY <1>1, <2>2, <2>3 DEF Sound
<1> QED
  BY <1>2, <1>3

LEMMA InformedStep ==
    ASSUME TypeOK, Custody, Evolves, Informed, [Next]_vars
    PROVE  Informed'
<1>1. ASSUME NEW q \in Request, RequestArrives(q) \/ RequestStep(q)
      PROVE  Informed'
  BY <1>1, ArrivesInformed, StepInformed
<1>2. CASE Crash \/ Exit
  BY <1>2, GoneInformed DEF Crash, Exit
<1>3. ASSUME NEW i \in Callback, Deliver(i)
      PROVE  Informed'
  BY <1>3, NobodysStep DEF Deliver
<1>4. CASE Start \/ TimerFires \/ Stop \/ Remap \/ Tick \/ UNCHANGED vars
  BY <1>4, NobodysStep DEF Start, TimerFires, Wake, Stop, Remap, Tick, vars
<1> QED
  BY <1>1, <1>2, <1>3, <1>4 DEF Next

LEMMA CustodyInit == Init => Custody /\ Informed
  BY DEF Init, Custody, Informed, Sound, Stored, NoRequest

LEMMA SafeAlways == Spec => [](TypeOK /\ Custody /\ Informed)
<1>1. TypeOK /\ Custody /\ Informed /\ [Next]_vars => (TypeOK /\ Custody /\ Informed)'
  BY NextType, CustodyStep, InformedStep DEF Kept
<1> QED
  BY <1>1, InitType, CustodyInit, PTL DEF Spec

\* What a client was told of a cancel, a hold or a missing callback stays true,
\* whatever other requests and the timer do afterwards.
THEOREM AnswersStandAlways == Spec => []AnswersStand
<1>1. TypeOK /\ Custody /\ Informed => AnswersStand
  <2> SUFFICES ASSUME TypeOK, Custody, Informed, NEW q \in Request
               PROVE  LET i == request[q].id
                      IN  /\ Answered(q, "cancel", "ok") =>
                                 i \notin Stored \cup inflight /\ posted[i] = 0
                          /\ Answered(q, "hold", "ok") \/ Answered(q, "hold", "conflict") =>
                                 i \notin pending /\ taker[i] # "wake"
                          /\ \A op \in {"firePending", "hold", "cancel"} :
                                 Answered(q, op, "missing") => i \notin Stored
    BY DEF AnswersStand
  <2>1. Sound(request[q], pending, held, born, taker)
    BY DEF Informed
  <2>2. request[q].id \in born /\ taker[request[q].id] = "cancel" =>
            request[q].id \notin Stored \cup inflight /\ posted[request[q].id] = 0
    BY DEF Custody, TypeOK
  <2> QED
    BY <2>1, <2>2 DEF Sound, Answered, Stored
<1> QED
  BY <1>1, SafeAlways, PTL

-----------------------------------------------------------------------------
(* The life cycle.                                                         *)

\* The stage of i, told from where i is.
StageKnown(i) ==
    /\ i \notin born => LifeOf(i) = "unborn"
    /\ i \in inflight => LifeOf(i) = "claimed"
    /\ i \in pending => LifeOf(i) = "pending"
    /\ i \in held => LifeOf(i) = "held"
    /\ i \in born /\ i \notin Stored /\ i \notin inflight =>
           LifeOf(i) = IF posted[i] > 0 THEN "posted" ELSE "gone"

StagesKnown == \A i \in Callback : StageKnown(i)

LEMMA LifeStages == TypeOK /\ Custody => StagesKnown
<1> SUFFICES ASSUME TypeOK, Custody, NEW i \in Callback
             PROVE  StageKnown(i)
  BY DEF StagesKnown
<1>1. /\ i \in Stored => i \in born /\ i \notin inflight
      /\ i \in inflight => i \in born
      /\ ~(i \in pending /\ i \in held)
  BY DEF Custody, Stored
<1> QED
  BY <1>1 DEF LifeOf, StageKnown, Stored

LEMMA LifeStagesNext == TypeOK' /\ Custody' => StagesKnown'
  BY LifeStages, PTL

LEMMA Moves ==
    ASSUME NEW S \in SUBSET Callback, S # {}, NEW from, NEW to,
           \A i \in S : LifeOf(i) \in from /\ LifeOf(i)' = to,
           \A i \in Callback \ S : LifeOf(i)' = LifeOf(i)
    PROVE  Lifecycle!Move(S, from, to)
  BY DEF Lifecycle!Move

LifeStep == [Lifecycle!Next]_(Lifecycle!vars)

LEMMA Stutters ==
    ASSUME \A i \in Callback : LifeOf(i)' = LifeOf(i), UNCHANGED posted
    PROVE  LifeStep
<1>1. [i \in Callback |-> LifeOf(i)]' = [i \in Callback |-> LifeOf(i)]
  OBVIOUS
<1> QED
  BY <1>1 DEF LifeStep, Lifecycle!vars

LEMMA UntouchedMoves ==
    ASSUME UNCHANGED <<pending, held, born, inflight, posted>>
    PROVE  LifeStep
<1>1. \A i \in Callback : LifeOf(i)' = LifeOf(i)
  BY DEF LifeOf
<1> QED
  BY <1>1, Stutters

\* The callbacks of S leave the Map for deliver(): a wake, or a request's claim.
LEMMA ClaimMoves ==
    ASSUME TypeOK, Custody, TypeOK', Custody', NEW S \in SUBSET Stored,
           S \subseteq pending \/ \E i \in Stored : S = {i},
           pending' = pending \ S, held' = held \ S, inflight' = inflight \cup S,
           UNCHANGED <<born, posted>>
    PROVE  LifeStep
<1> USE DEF TypeOK
<1>1. StagesKnown /\ StagesKnown' /\ S \in SUBSET Callback
  BY LifeStages, LifeStagesNext DEF Stored
<1>2. \A i \in Callback \ S : LifeOf(i)' = LifeOf(i)
  BY DEF LifeOf
<1>3. \A i \in S : /\ LifeOf(i) = IF i \in pending THEN "pending" ELSE "held"
                   /\ LifeOf(i)' = "claimed"
  BY <1>1 DEF StagesKnown, StageKnown, Stored
<1>4. CASE S = {}
  BY <1>2, <1>4, Stutters
<1>5. CASE S # {} /\ S \subseteq pending
  <2>1. Lifecycle!Move(S, {"pending"}, "claimed")
    BY <1>1, <1>2, <1>3, <1>5, Moves
  <2> QED
    BY <1>1, <2>1 DEF LifeStep, Lifecycle!Next, Lifecycle!ClaimDue
<1>6. CASE \E i \in Stored : S = {i}
  <2> PICK i \in Stored : S = {i}
    BY <1>6
  <2>1. Lifecycle!Move({i}, {"pending", "held"}, "claimed")
    BY <1>1, <1>2, <1>3, Moves
  <2> QED
    BY <1>1, <2>1 DEF LifeStep, Lifecycle!Next, Lifecycle!Fire
<1> QED
  BY <1>4, <1>5, <1>6

\* The callbacks of S are gone: cancelled, cleared, or lost with the process.
LEMMA GoneMoves ==
    ASSUME TypeOK, Custody, TypeOK', Custody', NEW S \in SUBSET (Stored \cup inflight),
           pending' = pending \ S, held' = held \ S, inflight' = inflight \ S,
           UNCHANGED <<born, posted>>
    PROVE  LifeStep
<1> USE DEF TypeOK
<1>1. /\ StagesKnown /\ StagesKnown' /\ S \in SUBSET Callback
      /\ \A i \in S : i \in born /\ posted[i] = 0
  BY LifeStages, LifeStagesNext DEF Stored, Custody
<1>2. \A i \in Callback \ S : LifeOf(i)' = LifeOf(i)
  BY DEF LifeOf
<1>3. \A i \in S : LifeOf(i) \in {"pending", "held", "claimed"} /\ LifeOf(i)' = "gone"
  BY <1>1 DEF StagesKnown, StageKnown, Stored
<1>4. CASE S = {}
  BY <1>2, <1>4, Stutters
<1>5. CASE S # {}
  <2>1. Lifecycle!Move(S, {"pending", "held", "claimed"}, "gone")
    BY <1>1, <1>2, <1>3, <1>5, Moves
  <2> QED
    BY <1>1, <2>1 DEF LifeStep, Lifecycle!Next, Lifecycle!Discard
<1> QED
  BY <1>4, <1>5

LEMMA DeliverMoves ==
    ASSUME TypeOK, Custody, TypeOK', Custody', NEW i \in Callback, Deliver(i)
    PROVE  LifeStep
<1> USE DEF TypeOK
<1>1. /\ UNCHANGED <<pending, held, born>>
      /\ i \in inflight /\ inflight' = inflight \ {i}
      /\ i \in born /\ i \notin Stored /\ posted[i] = 0
      /\ StagesKnown /\ StagesKnown'
  BY LifeStages, LifeStagesNext DEF Deliver, Custody, map
<1>2. CASE posted' = posted
  <2>1. /\ {i} \in SUBSET (Stored \cup inflight)
        /\ pending' = pending \ {i} /\ held' = held \ {i}
    BY <1>1 DEF Stored
  <2> QED
    BY <1>1, <1>2, <2>1, GoneMoves
<1>3. CASE posted' = [posted EXCEPT ![i] = @ + 1]
  <2>1. posted'[i] = 1 /\ \A j \in Callback \ {i} : posted'[j] = posted[j]
    BY <1>1, <1>3
  <2>2. LifeOf(i) = "claimed" /\ LifeOf(i)' = "posted"
    BY <1>1, <2>1 DEF StagesKnown, StageKnown, Stored
  <2>3. \A j \in Callback \ {i} : LifeOf(j)' = LifeOf(j)
    BY <1>1, <2>1 DEF LifeOf
  <2>4. Lifecycle!Move({i}, {"claimed"}, "posted")
    BY <2>2, <2>3, Moves
  <2> QED
    BY <1>3, <2>4 DEF LifeStep, Lifecycle!Next, Lifecycle!Post
<1> QED
  BY <1>2, <1>3 DEF Deliver

LEMMA FireStoreMoves ==
    ASSUME TypeOK, Custody, TypeOK', Custody', NEW q \in Request, NEW i \in Callback, NEW d,
           FireStore(q, i, d)
    PROVE  LifeStep
<1>1. /\ i \notin born /\ pending' = pending \cup {i} /\ born' = born \cup {i}
      /\ UNCHANGED <<held, inflight, posted>>
      /\ StagesKnown /\ StagesKnown'
  BY LifeStages, LifeStagesNext DEF FireStore, delivery
<1>2. LifeOf(i) = "unborn" /\ LifeOf(i)' = "pending"
  BY <1>1 DEF StagesKnown, StageKnown
<1>3. \A j \in Callback \ {i} : LifeOf(j)' = LifeOf(j)
  BY <1>1 DEF LifeOf
<1>4. Lifecycle!Move({i}, {"unborn"}, "pending")
  BY <1>2, <1>3, Moves
<1> QED
  BY <1>1, <1>4 DEF LifeStep, Lifecycle!Next, Lifecycle!Schedule

LEMMA HoldMoves ==
    ASSUME TypeOK, Custody, TypeOK', Custody', NEW q \in Request, NEW i \in Callback, Hold(q, i)
    PROVE  LifeStep
<1>1. CASE i \in pending
  <2>1. /\ pending' = pending \ {i} /\ held' = held \cup {i}
        /\ UNCHANGED <<born, inflight, posted>>
        /\ StagesKnown /\ StagesKnown'
    BY <1>1, LifeStages, LifeStagesNext DEF Hold, delivery
  <2>2. LifeOf(i) = "pending" /\ LifeOf(i)' = "held"
    BY <1>1, <2>1 DEF StagesKnown, StageKnown
  <2>3. \A j \in Callback \ {i} : LifeOf(j)' = LifeOf(j)
    BY <2>1 DEF LifeOf
  <2>4. Lifecycle!Move({i}, {"pending"}, "held")
    BY <2>2, <2>3, Moves
  <2> QED
    BY <2>1, <2>4 DEF LifeStep, Lifecycle!Next, Lifecycle!Hold
<1>2. CASE i \notin pending
  BY <1>2, UntouchedMoves DEF Hold, delivery
<1> QED
  BY <1>1, <1>2

LEMMA LeaveMoves ==
    ASSUME TypeOK, Custody, TypeOK', Custody', NEW q \in Request,
           \/ \E i \in Callback : Cancel(q, i)
           \/ Clear(q)
           \/ FirePendingClaim(q)
    PROVE  LifeStep
<1>1. ASSUME NEW i \in Callback, Cancel(q, i)
      PROVE  LifeStep
  <2> DEFINE S == {i} \cap Stored
  <2>1. /\ S \in SUBSET (Stored \cup inflight)
        /\ pending' = pending \ S /\ held' = held \ S /\ inflight' = inflight \ S
        /\ UNCHANGED <<born, posted>>
    BY <1>1 DEF Cancel, Stored, delivery, Custody
  <2> HIDE DEF S
  <2> QED
    BY <2>1, GoneMoves
<1>2. CASE Clear(q)
  <2>1. /\ pending' = pending \ Stored /\ held' = held \ Stored
        /\ inflight' = inflight \ Stored /\ UNCHANGED <<born, posted>>
    BY <1>2 DEF Clear, Stored, delivery, Custody
  <2> QED
    BY <2>1, GoneMoves
<1>3. CASE FirePendingClaim(q)
  <2>1. CASE request[q].id \in Stored
    <3> PICK i \in Stored : i = request[q].id
      BY <2>1
    <3>1. /\ pending' = pending \ {i} /\ held' = held \ {i}
          /\ inflight' = inflight \cup {i} /\ UNCHANGED <<born, posted>>
      BY <1>3 DEF FirePendingClaim
    <3>2. {i} \in SUBSET Stored
      OBVIOUS
    <3> QED
      BY <3>1, <3>2, ClaimMoves
  <2>2. CASE request[q].id \notin Stored
    BY <1>3, <2>2, UntouchedMoves DEF FirePendingClaim
  <2> QED
    BY <2>1, <2>2
<1> QED
  BY <1>1, <1>2, <1>3

LEMMA LifeInit == Init => Lifecycle!Init
<1> SUFFICES ASSUME Init PROVE Lifecycle!Init
  OBVIOUS
<1>1. \A i \in Callback : LifeOf(i) = "unborn"
  BY DEF Init, LifeOf
<1> QED
  BY <1>1 DEF Init, Lifecycle!Init

LEMMA LifeNext ==
    ASSUME TypeOK, Custody, TypeOK', Custody', [Next]_vars
    PROVE  LifeStep
<1> DEFINE Untouched == UNCHANGED <<pending, held, born, inflight, posted>>
<1>1. Untouched => LifeStep
  BY UntouchedMoves
<1> HIDE DEF Untouched
<1>2. CASE Start \/ TimerFires
  <2>1. Due \in SUBSET Stored /\ Due \subseteq pending
    BY DEF Due, Stored
  <2> QED
    BY <1>2, <2>1, ClaimMoves DEF Start, TimerFires, Wake
<1>3. ASSUME NEW i \in Callback, Deliver(i)
      PROVE  LifeStep
  BY <1>3, DeliverMoves
<1>4. ASSUME NEW q \in Request, RequestArrives(q)
      PROVE  LifeStep
  <2>1. \/ Untouched \/ Clear(q)
        \/ \E i \in Callback : Hold(q, i) \/ Cancel(q, i)
    BY <1>4 DEF RequestArrives, FireAssert, FindPending, Untouched, map, delivery
  <2> QED
    BY <1>1, <2>1, HoldMoves, LeaveMoves
<1>5. ASSUME NEW q \in Request, RequestStep(q)
      PROVE  LifeStep
  <2>1. \/ Untouched \/ FirePendingClaim(q)
        \/ \E i \in Callback, d \in Delays : FireStore(q, i, d)
    BY <1>5 DEF RequestStep, FirePendingAssert, HoldLook, Untouched, map, delivery
  <2> QED
    BY <1>1, <2>1, FireStoreMoves, LeaveMoves
<1>6. CASE Crash \/ Exit
  <2> DEFINE S == Stored \cup inflight
  <2>1. /\ pending' = pending \ S /\ held' = held \ S /\ inflight' = inflight \ S
        /\ UNCHANGED <<born, posted>>
    BY <1>6 DEF Crash, Exit, Gone, Stored
  <2> QED
    BY <2>1, GoneMoves
<1>7. CASE Stop \/ Remap \/ Tick \/ UNCHANGED vars
  BY <1>1, <1>7 DEF Stop, Remap, Tick, vars, Untouched, map, delivery
<1> QED
  BY <1>2, <1>3, <1>4, <1>5, <1>6, <1>7 DEF Next

\* Memory mode keeps the same promise as Redis mode: each step is one move of the
\* life cycle of CallbackLifecycle, or none.
THEOREM MemoryFollowsTheLifecycle == Spec => ImplementsLifecycle
<1>1. TypeOK /\ Custody /\ (TypeOK /\ Custody)' /\ [Next]_vars =>
          [Lifecycle!Next]_(Lifecycle!vars)
  BY LifeNext DEF LifeStep
<1> QED
  BY <1>1, LifeInit, SafeAlways, PTL DEF Spec, ImplementsLifecycle, Lifecycle!Spec
==============================================================================
