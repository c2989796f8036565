------------------------ MODULE CallbackSafetyProofs -------------------------
(***************************************************************************)
(* Theorems about CallbackScheduler, for any sets of callbacks, replicas,  *)
(* requests and wakes, any cap and delays, and any bounds on crashes and   *)
(* errors: its types, where a callback is (with which one POST at most),   *)
(* and that it implements CallbackLifecycle.                               *)
(***************************************************************************)
EXTENDS CallbackInvariant, TLAPS

-----------------------------------------------------------------------------
(* What the ways of touching a request record do.                          *)

LEMMA ArriveOK ==
    ASSUME RequestOK,
           NEW q \in Request, NEW op \in AllOps, NEW r \in Replica,
           NEW i \in Callback \cup {None}, NEW pc \in RequestPcs \ {"arm"},
           Arrive(q, op, r, i, pc)
    PROVE  RequestOK'
<1> DEFINE rec == [NoRequest EXCEPT !.op = op, !.at = r, !.id = i, !.pc = pc]
<1>1. rec \in RequestRecord /\ rec.pc = pc
  BY DEF NoRequest, RequestRecord, Answers
<1>2. request' = [request EXCEPT ![q] = rec]
  BY DEF Arrive
<1> QED
  BY <1>1, <1>2 DEF RequestOK

LEMMA ArriveAnsweredOK ==
    ASSUME RequestOK,
           NEW q \in Request, NEW op \in AllOps, NEW r \in Replica,
           NEW i \in Callback \cup {None}, NEW a \in Answers,
           ArriveAnswered(q, op, r, i, a)
    PROVE  RequestOK'
<1> DEFINE rec == [NoRequest EXCEPT !.op = op, !.at = r, !.id = i,
                                    !.pc = "done", !.answer = a]
<1>1. rec \in RequestRecord /\ rec.pc = "done"
  BY DEF NoRequest, RequestRecord, RequestPcs
<1>2. request' = [request EXCEPT ![q] = rec]
  BY DEF ArriveAnswered
<1> QED
  BY <1>1, <1>2 DEF RequestOK

LEMMA GotoOK ==
    ASSUME RequestOK,
           NEW q \in Request, NEW pc \in RequestPcs \ {"arm"}, Goto(q, pc)
    PROVE  RequestOK'
  BY DEF Goto, RequestRecord, RequestOK

LEMMA AnswerOK ==
    ASSUME RequestOK, NEW q \in Request, NEW a \in Answers, Answer(q, a)
    PROVE  RequestOK'
<1> DEFINE rec == [request[q] EXCEPT !.pc = "done", !.answer = a]
<1>1. request[q] \in RequestRecord
  BY DEF RequestOK
<1>2. rec \in RequestRecord /\ rec.pc = "done"
  BY <1>1 DEF RequestRecord, RequestPcs
<1>3. request' = [request EXCEPT ![q] = rec]
  BY DEF Answer
<1> QED
  BY <1>2, <1>3 DEF RequestOK

-----------------------------------------------------------------------------
(* Type correctness.                                                       *)

LEMMA ArmTimerType ==
    ASSUME ProcessOK, NEW r \in Replica, NEW d \in Nat
    PROVE  /\ ArmTimer(r, d) \in (0..Cap) \cup {None}
           /\ status[r] # "up" => ArmTimer(r, d) = None
  BY CapAssumption DEF ArmTimer, ProcessOK

LEMMA TakeType ==
    ASSUME StoreOK, NEW S, NEW by \in {"wake", "request", "cancel", "clear"}, Take(S, by)
    PROVE  taker' \in [Callback -> {"nobody", "wake", "request", "cancel", "clear"}]
  BY DEF Take, StoreOK

LEMMA BudgetType ==
    ASSUME crashes \in Nat, errors \in Nat, NEW lost, Executed(lost)
    PROVE  crashes' \in Nat /\ errors' \in Nat
  BY DEF Executed, RedisError, budget

LEMMA UnchangedType ==
    /\ StoreOK /\ UNCHANGED store => StoreOK'
    /\ ProcessOK /\ UNCHANGED process => ProcessOK'
    /\ DeliveryOK /\ UNCHANGED delivery => DeliveryOK'
    /\ RequestOK /\ UNCHANGED request => RequestOK'
  BY DEF StoreOK, ProcessOK, DeliveryOK, RequestOK, store, process, delivery

LEMMA InitType == Init => TypeOK
<1> SUFFICES ASSUME Init PROVE TypeOK
  OBVIOUS
<1>1. StoreOK
  <2>1. dueIn \in [Callback -> Delays \cup {0}] /\ Delays \cup {0} \subseteq Nat
    BY DelaysAssumption DEF Init
  <2>2. dueIn \in [Callback -> Nat]
    BY <2>1
  <2> QED
    BY <2>2 DEF Init, StoreOK
<1>2. ProcessOK
  BY DEF Init, ProcessOK, NoWake, WakeRecord
<1>3. DeliveryOK
  BY DEF Init, DeliveryOK
<1>4. NoRequest \in RequestRecord /\ NoRequest.pc # "arm"
  BY DEF NoRequest, RequestRecord, RequestPcs, Answers
<1>5. RequestOK
  BY <1>4 DEF Init, RequestOK
<1> QED
  BY <1>1, <1>2, <1>3, <1>5 DEF Init, TypeOK

LEMMA ClaimDueType ==
    ASSUME TypeOK, NEW r \in Replica, ClaimDue(r)
    PROVE  StoreOK' /\ DeliveryOK' /\ crashes' \in Nat /\ errors' \in Nat
<1>1. CASE RedisError /\ UNCHANGED <<store, delivery>>
  BY <1>1, UnchangedType DEF TypeOK, RedisError
<1>2. ASSUME NEW lost \in BOOLEAN, Executed(lost), zset' = zset \ Due, Take(Due, "wake"),
             inflight' = IF lost THEN inflight
                         ELSE [inflight EXCEPT ![r] = @ \cup Due],
             UNCHANGED <<held, dueIn, born, posted, dropped>>
      PROVE  StoreOK' /\ DeliveryOK' /\ crashes' \in Nat /\ errors' \in Nat
  <2>1. StoreOK'
    BY <1>2, TakeType DEF TypeOK, StoreOK
  <2>2. crashes' \in Nat /\ errors' \in Nat
    BY <1>2, BudgetType DEF TypeOK
  <2>3. DeliveryOK'
    BY <1>2 DEF TypeOK, StoreOK, DeliveryOK, Due
  <2> QED
    BY <2>1, <2>2, <2>3
<1> QED
  BY <1>1, <1>2 DEF ClaimDue

LEMMA WakeType ==
    ASSUME TypeOK, NEW r \in Replica, NEW s \in Slot, Wake(r, s),
           status' \in [Replica -> {"down", "up", "stopping"}],
           \A p \in Replica \ {r} : status'[p] = status[p]
    PROVE  TypeOK'
<1>1. [pc |-> "peek", next |-> None] \in WakeRecord
  BY DEF WakeRecord
<1>2. ProcessOK'
  BY <1>1 DEF TypeOK, ProcessOK, Wake
<1>3. known' \in [Replica -> BOOLEAN] /\ RequestOK'
  BY UnchangedType DEF TypeOK, Wake
<1>4. StoreOK' /\ DeliveryOK' /\ crashes' \in Nat /\ errors' \in Nat
  BY ClaimDueType DEF Wake
<1> QED
  BY <1>2, <1>3, <1>4 DEF TypeOK

LEMMA WonType ==
    ASSUME TypeOK, NEW q \in Request, NEW lost \in BOOLEAN, Won(q, lost),
           request[q].id \in Callback
    PROVE  /\ taker' \in [Callback -> {"nobody", "wake", "request", "cancel", "clear"}]
           /\ inflight' \in [Replica -> SUBSET Callback]
           /\ RequestOK'
           /\ crashes' \in Nat /\ errors' \in Nat
<1>1. taker' \in [Callback -> {"nobody", "wake", "request", "cancel", "clear"}]
  BY TakeType DEF Won, TypeOK
<1>2. inflight' \in [Replica -> SUBSET Callback]
  BY DEF Won, TypeOK, DeliveryOK
<1>3. RequestOK'
  <2>1. (IF lost THEN "error" ELSE "ok") \in Answers
    BY DEF Answers
  <2> QED
    BY <2>1, AnswerOK DEF Won, TypeOK
<1>4. crashes' \in Nat /\ errors' \in Nat
  BY BudgetType DEF Won, TypeOK
<1> QED
  BY <1>1, <1>2, <1>3, <1>4

\* The steps of a request that only read: nothing but its record changes.
LEMMA ReadStepType ==
    ASSUME TypeOK, RequestOK', UNCHANGED <<store, process, delivery, known, budget>>
    PROVE  TypeOK'
  BY UnchangedType DEF TypeOK, budget

LEMMA RequestArrivesType ==
    ASSUME TypeOK, NEW q \in Request, NEW r \in Replica, RequestArrives(q, r)
    PROVE  TypeOK'
<1> USE DEF AllOps, RequestPcs, Answers
<1>1. CASE FireAssert(q, r)
  <2>1. RequestOK'
    BY <1>1, ArriveOK, ArriveAnsweredOK DEF FireAssert, TypeOK
  <2> QED
    BY <1>1, <2>1, ReadStepType DEF FireAssert
<1>2. CASE ListPending(q, r)
  <2> DEFINE rec == [NoRequest EXCEPT !.op = "list", !.at = r, !.pc = "listNext",
                                      !.seen = Contents(FirstKey), !.owed = zset \cup held]
  <2>1. rec \in RequestRecord /\ rec.pc = "listNext"
    BY DEF TypeOK, StoreOK, NoRequest, RequestRecord, Contents
  <2>2. request' = [request EXCEPT ![q] = rec]
    BY <1>2 DEF ListPending
  <2>3. RequestOK'
    BY <2>1, <2>2 DEF RequestOK, TypeOK
  <2> QED
    BY <1>2, <2>3, ReadStepType DEF ListPending
<1>3. ASSUME NEW lost \in BOOLEAN, Clear(q, r, lost)
      PROVE  TypeOK'
  <2>1. RequestOK'
    BY <1>3, ArriveAnsweredOK DEF Clear, TypeOK
  <2>2. StoreOK'
    BY <1>3, TakeType DEF Clear, TypeOK, StoreOK
  <2>3. crashes' \in Nat /\ errors' \in Nat
    BY <1>3, BudgetType DEF Clear, TypeOK
  <2> QED
    BY <1>3, <2>1, <2>2, <2>3, UnchangedType DEF Clear, TypeOK
<1>4. ASSUME NEW i \in Callback, FindPending(q, r, i)
      PROVE  TypeOK'
  <2>1. RequestOK'
    BY <1>4, ArriveOK DEF FindPending, TypeOK
  <2> QED
    BY <1>4, <2>1, ReadStepType DEF FindPending
<1>5. ASSUME NEW i \in Callback, HoldFind(q, r, i)
      PROVE  TypeOK'
  <2>1. RequestOK'
    BY <1>5, ArriveOK DEF HoldFind, TypeOK
  <2> QED
    BY <1>5, <2>1, ReadStepType DEF HoldFind
<1>6. ASSUME NEW i \in Callback, CancelFind(q, r, i)
      PROVE  TypeOK'
  <2>1. RequestOK'
    BY <1>6, ArriveOK DEF CancelFind, TypeOK
  <2> QED
    BY <1>6, <2>1, ReadStepType DEF CancelFind
<1> QED
  BY <1>1, <1>2, <1>3, <1>4, <1>5, <1>6 DEF RequestArrives

LEMMA FireStepType ==
    ASSUME TypeOK, NEW q \in Request
    PROVE  /\ \A i \in Callback, d \in Delays, lost \in BOOLEAN :
                  FireZadd(q, i, d, lost) => TypeOK'
           /\ FireArm(q) => TypeOK'
<1>1. ASSUME NEW i \in Callback, NEW d \in Delays, NEW lost \in BOOLEAN,
             FireZadd(q, i, d, lost)
      PROVE  TypeOK'
  <2> DEFINE rec == [request[q] EXCEPT !.id = i,
                                       !.pc = IF lost THEN "done" ELSE "arm",
                                       !.answer = IF lost THEN "error" ELSE "none"]
  <2>1. request[q] \in RequestRecord
    BY DEF TypeOK, RequestOK
  <2>2. rec \in RequestRecord /\ rec.id \in Callback
    BY <2>1 DEF RequestRecord, RequestPcs, Answers
  <2>3. request' = [request EXCEPT ![q] = rec]
    BY <1>1 DEF FireZadd
  <2>4. RequestOK'
    BY <2>2, <2>3 DEF RequestOK, TypeOK
  <2>5. StoreOK'
    BY <1>1, DelaysAssumption DEF FireZadd, TypeOK, StoreOK
  <2>6. crashes' \in Nat /\ errors' \in Nat
    BY <1>1, BudgetType DEF FireZadd, TypeOK
  <2> QED
    BY <1>1, <2>4, <2>5, <2>6, UnchangedType DEF FireZadd, TypeOK
<1>2. ASSUME FireArm(q)
      PROVE  TypeOK'
  <2> DEFINE r == request[q].at
             t == ArmTimer(r, dueIn[request[q].id])
  <2>1. dueIn[request[q].id] \in Nat
    BY <1>2 DEF FireArm, Serving, TypeOK, RequestOK, StoreOK
  <2>2. r \in Replica => t \in (0..Cap) \cup {None} /\ (status[r] # "up" => t = None)
    BY <2>1, ArmTimerType DEF TypeOK
  <2>3. timer' = [timer EXCEPT ![r] = t] /\ UNCHANGED <<status, wake>>
    BY <1>2 DEF FireArm
  <2>4. ProcessOK'
    BY <2>2, <2>3 DEF ProcessOK, TypeOK
  <2>5. RequestOK'
    BY <1>2, AnswerOK DEF FireArm, TypeOK, Answers
  <2> QED
    BY <1>2, <2>4, <2>5, UnchangedType DEF FireArm, TypeOK, budget
<1> QED
  BY <1>1, <1>2

\* The reading steps of the four requests that name a callback, and of a list.
LEMMA LookStepType ==
    ASSUME TypeOK, NEW q \in Request,
           \/ FindNext(q) \/ FirePendingAssert(q) \/ ClaimFind(q)
           \/ HoldLook(q) \/ HoldLookNext(q) \/ ListNext(q)
    PROVE  TypeOK'
<1>1. RequestOK'
  <2> USE DEF TypeOK, RequestPcs, Answers, WhyNotHeld
  <2>1. CASE FindNext(q)
    BY <2>1, GotoOK, AnswerOK DEF FindNext
  <2>2. CASE FirePendingAssert(q)
    BY <2>2, GotoOK, AnswerOK DEF FirePendingAssert
  <2>3. CASE ClaimFind(q)
    BY <2>3, GotoOK DEF ClaimFind
  <2>4. CASE HoldLook(q)
    BY <2>4, GotoOK, AnswerOK DEF HoldLook
  <2>5. CASE HoldLookNext(q)
    BY <2>5, AnswerOK DEF HoldLookNext
  <2>6. CASE ListNext(q)
    <3> DEFINE rec == [request[q] EXCEPT !.seen = request[q].seen \cup Contents(SecondKey),
                                         !.pc = "done", !.answer = "ok"]
    <3>1. request[q] \in RequestRecord
      BY DEF RequestOK
    <3>2. Contents(SecondKey) \subseteq Callback
      BY DEF StoreOK, Contents
    <3>3. rec \in RequestRecord /\ rec.pc = "done"
      BY <3>1, <3>2 DEF RequestRecord
    <3>4. request' = [request EXCEPT ![q] = rec]
      BY <2>6 DEF ListNext
    <3> QED
      BY <3>3, <3>4 DEF RequestOK
  <2> QED
    BY <2>1, <2>2, <2>3, <2>4, <2>5, <2>6
<1>2. UNCHANGED <<store, process, delivery, known, budget>>
  BY DEF FindNext, FirePendingAssert, ClaimFind, HoldLook, HoldLookNext, ListNext
<1> QED
  BY <1>1, <1>2, ReadStepType

LEMMA ClaimStepType ==
    ASSUME TypeOK, NEW q \in Request, NEW lost \in BOOLEAN,
           ClaimZrem(q, lost) \/ ClaimHeld(q, lost)
    PROVE  TypeOK'
<1>1. UNCHANGED <<dueIn, born, process, posted, dropped, known>>
  BY DEF ClaimZrem, ClaimHeld
<1>2. CASE ClaimZrem(q, lost) /\ request[q].id \in zset
  <2>1. request[q].id \in Callback /\ Won(q, lost)
    BY <1>2 DEF ClaimZrem, TypeOK, StoreOK
  <2>2. StoreOK'
    BY <1>1, <1>2, <2>1, WonType DEF ClaimZrem, TypeOK, StoreOK
  <2>3. DeliveryOK'
    BY <1>1, <2>1, WonType DEF TypeOK, DeliveryOK
  <2> QED
    BY <1>1, <2>1, <2>2, <2>3, WonType, UnchangedType DEF TypeOK
<1>3. CASE ClaimHeld(q, lost) /\ request[q].id \in held
  <2>1. request[q].id \in Callback /\ Won(q, lost)
    BY <1>3 DEF ClaimHeld, TypeOK, StoreOK
  <2>2. StoreOK'
    BY <1>1, <1>3, <2>1, WonType DEF ClaimHeld, TypeOK, StoreOK
  <2>3. DeliveryOK'
    BY <1>1, <2>1, WonType DEF TypeOK, DeliveryOK
  <2> QED
    BY <1>1, <2>1, <2>2, <2>3, WonType, UnchangedType DEF TypeOK
<1>4. CASE ClaimZrem(q, lost) /\ request[q].id \notin zset
  <2>1. RequestOK'
    BY <1>4, GotoOK DEF ClaimZrem, TypeOK, RequestPcs
  <2> QED
    BY <1>1, <1>4, <2>1, ReadStepType DEF ClaimZrem, store, delivery
<1>5. CASE ClaimHeld(q, lost) /\ request[q].id \notin held
  <2>1. RequestOK'
    BY <1>5, AnswerOK DEF ClaimHeld, TypeOK, Answers
  <2> QED
    BY <1>1, <1>5, <2>1, ReadStepType DEF ClaimHeld, store, delivery
<1> QED
  BY <1>2, <1>3, <1>4, <1>5

LEMMA HoldStepType ==
    ASSUME TypeOK, NEW q \in Request, NEW lost \in BOOLEAN, HoldMove(q, lost)
    PROVE  TypeOK'
<1>1. RequestOK'
  BY GotoOK, AnswerOK DEF HoldMove, TypeOK, RequestPcs, Answers
<1>2. crashes' \in Nat /\ errors' \in Nat
  BY BudgetType DEF HoldMove, TypeOK, budget
<1>3. StoreOK'
  BY DEF HoldMove, TypeOK, StoreOK
<1> QED
  BY <1>1, <1>2, <1>3, UnchangedType DEF HoldMove, TypeOK

LEMMA CancelStepType ==
    ASSUME TypeOK, NEW q \in Request, NEW lost \in BOOLEAN,
           CancelZrem(q, lost) \/ CancelHdel(q, lost)
    PROVE  TypeOK'
<1>1. RequestOK'
  BY GotoOK, AnswerOK DEF CancelZrem, CancelHdel, TypeOK, RequestPcs, Answers
<1>2. crashes' \in Nat /\ errors' \in Nat
  BY BudgetType DEF CancelZrem, CancelHdel, TypeOK, budget
<1>3. taker' \in [Callback -> {"nobody", "wake", "request", "cancel", "clear"}]
  BY TakeType DEF CancelZrem, CancelHdel, TypeOK, StoreOK
<1>4. StoreOK'
  BY <1>3 DEF CancelZrem, CancelHdel, TypeOK, StoreOK
<1> QED
  BY <1>1, <1>2, <1>4, UnchangedType DEF CancelZrem, CancelHdel, TypeOK

LEMMA RequestStepType ==
    ASSUME TypeOK, NEW q \in Request, RequestStep(q)
    PROVE  TypeOK'
<1>1. CASE CommandFails(q)
  <2>1. RequestOK'
    BY <1>1, AnswerOK DEF CommandFails, TypeOK, Answers
  <2> QED
    BY <1>1, <2>1, UnchangedType DEF CommandFails, TypeOK, RedisError
<1> QED
  BY <1>1, FireStepType, LookStepType, ClaimStepType, HoldStepType, CancelStepType
  DEF RequestStep

LEMMA SchedulerStepType ==
    ASSUME TypeOK, NEW r \in Replica, SchedulerStep(r)
    PROVE  TypeOK'
<1> PICK s \in Slot : Start(r, s) \/ TimerFires(r, s) \/ WakePeek(r, s) \/ WakeArm(r, s)
  BY DEF SchedulerStep
<1>1. CASE Start(r, s) \/ TimerFires(r, s)
  <2>1. /\ status' \in [Replica -> {"down", "up", "stopping"}]
        /\ \A p \in Replica \ {r} : status'[p] = status[p]
    BY <1>1 DEF Start, TimerFires, TypeOK, ProcessOK
  <2> QED
    BY <1>1, <2>1, WakeType DEF Start, TimerFires
<1>2. CASE WakePeek(r, s)
  <2>1. \E n \in Nat \cup {None} :
            wake' = [wake EXCEPT ![r][s] = [pc |-> "arm", next |-> n]]
    BY <1>2 DEF WakePeek, TypeOK, StoreOK
  <2>2. PICK n \in Nat \cup {None} :
            wake' = [wake EXCEPT ![r][s] = [pc |-> "arm", next |-> n]]
    BY <2>1
  <2>3. [pc |-> "arm", next |-> n] \in WakeRecord
    BY DEF WakeRecord
  <2>4. ProcessOK'
    BY <1>2, <2>2, <2>3 DEF WakePeek, TypeOK, ProcessOK
  <2>5. crashes' \in Nat /\ errors' \in Nat
    BY <1>2 DEF WakePeek, TypeOK, RedisError, budget
  <2> QED
    BY <1>2, <2>4, <2>5, UnchangedType DEF WakePeek, TypeOK
<1>3. CASE WakeArm(r, s)
  <2> DEFINE in == IF wake[r][s].next = None THEN Cap ELSE wake[r][s].next
  <2>1. wake[r][s] \in WakeRecord
    BY DEF TypeOK, ProcessOK
  <2>2. in \in Nat
    BY <2>1, CapAssumption DEF WakeRecord
  <2>3. NoWake \in WakeRecord
    BY DEF NoWake, WakeRecord
  <2>4. ArmTimer(r, in) \in (0..Cap) \cup {None} /\ (status[r] # "up" => ArmTimer(r, in) = None)
    BY <2>2, ArmTimerType DEF TypeOK
  <2>5. /\ timer' = [timer EXCEPT ![r] = ArmTimer(r, in)]
        /\ wake' = [wake EXCEPT ![r][s] = NoWake]
        /\ status' = status
    BY <1>3 DEF WakeArm
  <2> HIDE DEF in
  <2>6. ProcessOK'
    BY <2>3, <2>4, <2>5 DEF TypeOK, ProcessOK
  <2> QED
    BY <1>3, <2>6, UnchangedType DEF WakeArm, TypeOK, budget
<1> QED
  BY <1>1, <1>2, <1>3

LEMMA DeliverType ==
    ASSUME TypeOK, NEW r \in Replica, NEW i \in Callback, Deliver(r, i)
    PROVE  TypeOK'
<1>1. DeliveryOK'
  BY DEF Deliver, TypeOK, DeliveryOK
<1> QED
  BY <1>1, UnchangedType DEF Deliver, TypeOK, budget

LEMMA ReplicaStepType ==
    ASSUME TypeOK, NEW r \in Replica, Crash(r) \/ Stop(r) \/ Exit(r) \/ Remap(r)
    PROVE  TypeOK'
<1>1. ASSUME Gone(r), crashes' \in Nat
      PROVE  TypeOK'
  <2>1. NoWake \in WakeRecord
    BY DEF NoWake, WakeRecord
  <2>2. ProcessOK'
    BY <1>1, <2>1 DEF Gone, TypeOK, ProcessOK
  <2>3. DeliveryOK'
    BY <1>1 DEF Gone, TypeOK, DeliveryOK
  <2>4. RequestOK'
    <3> DEFINE rec(q) == IF request[q].at = r /\ request[q].pc # "done"
                         THEN [request[q] EXCEPT !.pc = "done", !.answer = "reset"]
                         ELSE request[q]
    <3>1. ASSUME NEW q \in Request
          PROVE  /\ rec(q) \in RequestRecord
                 /\ rec(q).pc = "arm" => rec(q).id \in Callback
      <4>1. request[q] \in RequestRecord
        BY DEF TypeOK, RequestOK
      <4> QED
        BY <4>1 DEF TypeOK, RequestOK, RequestRecord, RequestPcs, Answers
    <3>2. request' = [q \in Request |-> rec(q)]
      BY <1>1 DEF Gone
    <3> HIDE DEF rec
    <3> QED
      BY <3>1, <3>2 DEF RequestOK
  <2> QED
    BY <1>1, <2>2, <2>3, <2>4, UnchangedType DEF Gone, TypeOK
<1>2. CASE Crash(r)
  BY <1>1, <1>2 DEF Crash, Spend, TypeOK
<1>3. CASE Stop(r)
  <2>1. ProcessOK'
    BY <1>3 DEF Stop, TypeOK, ProcessOK
  <2> QED
    BY <1>3, <2>1, UnchangedType DEF Stop, Spend, TypeOK
<1>4. CASE Exit(r)
  BY <1>1, <1>4 DEF Exit, TypeOK
<1>5. CASE Remap(r)
  BY <1>5, UnchangedType DEF Remap, TypeOK, budget
<1> QED
  BY <1>2, <1>3, <1>4, <1>5

LEMMA TickType ==
    ASSUME TypeOK, Tick
    PROVE  TypeOK'
<1>1. \A n \in Nat \cup {None} : CountDown(n) \in Nat \cup {None}
  BY DEF CountDown
<1>2. \A n \in Nat : CountDown(n) \in Nat
  BY NoneAssumption DEF CountDown
<1>3. \A n \in (0..Cap) \cup {None} : CountDown(n) \in (0..Cap) \cup {None}
  BY CapAssumption DEF CountDown
<1>4. StoreOK'
  BY <1>2 DEF Tick, TypeOK, StoreOK
<1>5. ProcessOK'
  <2> DEFINE w(r, s) == [wake[r][s] EXCEPT !.next = CountDown(@)]
  <2>1. ASSUME NEW r \in Replica, NEW s \in Slot
        PROVE  w(r, s) \in WakeRecord
    <3>1. wake[r][s] \in WakeRecord
      BY DEF TypeOK, ProcessOK
    <3> QED
      BY <1>1, <3>1 DEF WakeRecord
  <2>2. timer' \in [Replica -> (0..Cap) \cup {None}]
    BY <1>3 DEF Tick, TypeOK, ProcessOK
  <2>3. wake' = [r \in Replica |-> [s \in Slot |-> w(r, s)]] /\ status' = status
    BY DEF Tick
  <2> HIDE DEF w
  <2>4. wake' \in [Replica -> [Slot -> WakeRecord]]
    BY <2>1, <2>3
  <2>5. \A r \in Replica : status'[r] # "up" => timer'[r] = None
    BY <2>3 DEF Tick, TypeOK, ProcessOK, CountDown
  <2> QED
    BY <2>2, <2>3, <2>4, <2>5 DEF TypeOK, ProcessOK
<1> QED
  BY <1>4, <1>5, UnchangedType DEF Tick, TypeOK, budget

LEMMA StutterType ==
    ASSUME TypeOK, UNCHANGED vars
    PROVE  TypeOK'
  BY UnchangedType DEF vars, TypeOK, budget

LEMMA NextType ==
    ASSUME TypeOK, [Next]_vars
    PROVE  TypeOK'
  BY StutterType, SchedulerStepType, DeliverType, RequestArrivesType,
     RequestStepType, ReplicaStepType, TickType
  DEF Next

\* Type correctness: in particular no replica ever has a timer set beyond the
\* cap, however its schedules, wakes and peeks interleave.
THEOREM TypeCorrect == Spec => []TypeOK
<1>1. Init => TypeOK
  BY InitType
<1>2. TypeOK /\ [Next]_vars => TypeOK'
  BY NextType
<1> QED
  BY <1>1, <1>2, PTL DEF Spec

-----------------------------------------------------------------------------
(* Custody.  Every step either leaves the store alone or is one of four    *)
(* moves: a new member, a hold, a removal, a POST.                         *)

\* What no step does to the store: bring a callback back, move it out of the
\* hash into the sorted set, or change what took it.
Evolves ==
    /\ born \subseteq born'
    /\ \A i \in born :
        /\ i \in zset' => i \in zset
        /\ i \in held' => i \in Stored
        /\ i \in held /\ i \in Stored' => i \in held'
        /\ \/ taker'[i] = taker[i]
           \/ i \in Stored /\ (taker'[i] = "wake" => i \in zset)

\* A removal: the members of S leave Redis, into the hands of at most one replica.
LEMMA TakeOut ==
    ASSUME TypeOK, Custody,
           NEW S \in SUBSET Stored, NEW by \in {"wake", "request", "cancel", "clear"},
           by = "wake" => S \subseteq zset,
           zset' = zset \ S, held' = held \ S, Take(S, by), UNCHANGED <<born, posted>>,
           \/ inflight' = inflight
           \/ /\ by \in {"wake", "request"}
              /\ \E r \in Replica : inflight' = [inflight EXCEPT ![r] = @ \cup S]
    PROVE  Custody' /\ Evolves
<1> USE DEF TypeOK, StoreOK, DeliveryOK, Stored
<1>1. /\ Stored' = Stored \ S
      /\ \A i \in Callback : taker'[i] = IF i \in S THEN by ELSE taker[i]
  BY DEF Take
<1>2. \A r \in Replica : /\ inflight[r] \subseteq inflight'[r]
                         /\ inflight'[r] \subseteq inflight[r] \cup S
  OBVIOUS
<1>3. \A i \in S : /\ i \in Callback /\ i \in born
                   /\ posted[i] = 0
                   /\ \A r \in Replica : i \notin inflight[r]
  BY DEF Custody, StoredOnce
<1>4. \A i \in S, r, s \in Replica :
          i \in inflight'[r] /\ i \in inflight'[s] => r = s /\ by \in {"wake", "request"}
  BY <1>3
<1>5. StoredOnce'
  BY <1>1, <1>2 DEF Custody, StoredOnce
<1>6. ClaimedOnce'
  <2> SUFFICES ASSUME NEW r \in Replica, NEW i \in inflight'[r]
               PROVE  /\ taker'[i] \in {"wake", "request"} /\ posted'[i] = 0
                      /\ \A s \in Replica \ {r} : i \notin inflight'[s]
    BY DEF ClaimedOnce
  <2>1. CASE i \in S
    BY <1>1, <1>3, <1>4, <2>1
  <2>2. CASE i \notin S
    <3>1. i \in inflight[r] /\ i \in Callback
      BY <1>2, <2>2
    <3>2. \A s \in Replica : i \in inflight'[s] => i \in inflight[s]
      BY <1>2, <2>2
    <3> QED
      BY <1>1, <2>2, <3>1, <3>2 DEF Custody, ClaimedOnce
  <2> QED
    BY <2>1, <2>2
<1>7. TakenIsBorn'
  BY <1>1, <1>3 DEF Custody, TakenIsBorn
<1>8. PostedOnce'
  BY <1>1, <1>3 DEF Custody, PostedOnce
<1>9. Evolves
  BY <1>1, <1>3 DEF Evolves
<1> QED
  BY <1>5, <1>6, <1>7, <1>8, <1>9 DEF Custody

\* Nothing of what Custody speaks about changes, except that a replica may have
\* lost what it had claimed.
LEMMA StoreUntouched ==
    ASSUME TypeOK, Custody, UNCHANGED <<store, posted>>,
           \/ inflight' = inflight
           \/ \E r \in Replica : inflight' = [inflight EXCEPT ![r] = {}]
    PROVE  Custody' /\ Evolves
<1> USE DEF TypeOK, StoreOK, DeliveryOK, Stored, store
<1>1. \A r \in Replica : inflight'[r] \subseteq inflight[r]
  OBVIOUS
<1>2. StoredOnce'
  BY <1>1 DEF Custody, StoredOnce
<1>3. ClaimedOnce'
  BY <1>1 DEF Custody, ClaimedOnce
<1>4. TakenIsBorn' /\ PostedOnce'
  BY DEF Custody, TakenIsBorn, PostedOnce
<1>5. Evolves
  BY DEF Evolves
<1> QED
  BY <1>2, <1>3, <1>4, <1>5 DEF Custody

\* A POST: by the only replica that has the callback, and for the first time.
LEMMA DeliverCustody ==
    ASSUME TypeOK, Custody, NEW r \in Replica, NEW i \in Callback, Deliver(r, i)
    PROVE  Custody' /\ Evolves
<1> USE DEF TypeOK, StoreOK, DeliveryOK, Stored, store
<1>1. /\ UNCHANGED store
      /\ inflight' = [inflight EXCEPT ![r] = @ \ {i}]
      /\ i \in inflight[r]
      /\ posted' = posted \/ posted' = [posted EXCEPT ![i] = @ + 1]
  BY DEF Deliver
<1>2. posted[i] = 0 /\ taker[i] \in {"wake", "request"} /\ i \notin Stored
  BY <1>1 DEF Custody, StoredOnce, ClaimedOnce
<1>3. \A s \in Replica : inflight'[s] \subseteq inflight[s] /\ i \notin inflight'[s]
  BY <1>1 DEF Custody, ClaimedOnce
<1>4. /\ \A j \in Callback \ {i} : posted'[j] = posted[j]
      /\ posted'[i] \in {0, 1}
  BY <1>1, <1>2
<1>5. StoredOnce'
  BY <1>1, <1>2, <1>3, <1>4 DEF Custody, StoredOnce
<1>6. ClaimedOnce'
  BY <1>1, <1>3, <1>4 DEF Custody, ClaimedOnce
<1>7. TakenIsBorn'
  BY <1>1 DEF Custody, TakenIsBorn
<1>8. PostedOnce'
  BY <1>1, <1>2, <1>4 DEF Custody, PostedOnce
<1>9. Evolves
  BY <1>1 DEF Evolves
<1> QED
  BY <1>5, <1>6, <1>7, <1>8, <1>9 DEF Custody

\* A new member: nobody knows its id yet.
LEMMA FireZaddCustody ==
    ASSUME TypeOK, Custody, NEW q \in Request, NEW i \in Callback, NEW d, NEW lost \in BOOLEAN,
           FireZadd(q, i, d, lost)
    PROVE  Custody' /\ Evolves
<1> USE DEF TypeOK, StoreOK, DeliveryOK, Stored
<1>1. /\ i \notin born
      /\ zset' = zset \cup {i} /\ born' = born \cup {i}
      /\ UNCHANGED <<held, taker, inflight, posted>>
  BY DEF FireZadd, delivery
<1>2. /\ i \notin Stored /\ taker[i] = "nobody" /\ posted[i] = 0
      /\ \A r \in Replica : i \notin inflight[r]
  BY <1>1 DEF Custody, StoredOnce, ClaimedOnce, TakenIsBorn, PostedOnce
<1>3. StoredOnce'
  BY <1>1, <1>2 DEF Custody, StoredOnce
<1>4. ClaimedOnce' /\ TakenIsBorn' /\ PostedOnce'
  BY <1>1 DEF Custody, ClaimedOnce, TakenIsBorn, PostedOnce
<1>5. Evolves
  BY <1>1 DEF Evolves
<1> QED
  BY <1>3, <1>4, <1>5 DEF Custody

\* A hold moves a member, and nobody can have it meanwhile.
LEMMA HoldMoveCustody ==
    ASSUME TypeOK, Custody, NEW q \in Request, NEW lost \in BOOLEAN, HoldMove(q, lost)
    PROVE  Custody' /\ Evolves
<1> USE DEF TypeOK, StoreOK, DeliveryOK, Stored
<1>1. CASE request[q].id \in zset
  <2> DEFINE i == request[q].id
  <2>1. /\ zset' = zset \ {i} /\ held' = held \cup {i}
        /\ UNCHANGED <<born, taker, inflight, posted>>
    BY <1>1 DEF HoldMove, delivery
  <2>2. Stored' = Stored /\ i \in born /\ i \in zset
    BY <1>1, <2>1 DEF Custody, StoredOnce
  <2>3. StoredOnce'
    BY <2>1, <2>2 DEF Custody, StoredOnce
  <2>4. ClaimedOnce' /\ TakenIsBorn' /\ PostedOnce'
    BY <2>1 DEF Custody, ClaimedOnce, TakenIsBorn, PostedOnce
  <2>5. Evolves
    BY <2>1, <2>2 DEF Evolves
  <2> QED
    BY <2>3, <2>4, <2>5 DEF Custody
<1>2. CASE request[q].id \notin zset
  BY <1>2, StoreUntouched DEF HoldMove, delivery, store
<1> QED
  BY <1>1, <1>2

LEMMA WakeCustody ==
    ASSUME TypeOK, Custody, NEW r \in Replica, ClaimDue(r)
    PROVE  Custody' /\ Evolves
<1>1. CASE UNCHANGED <<store, delivery>>
  BY <1>1, StoreUntouched DEF delivery
<1>2. ASSUME NEW lost \in BOOLEAN, zset' = zset \ Due, Take(Due, "wake"),
             inflight' = IF lost THEN inflight
                         ELSE [inflight EXCEPT ![r] = @ \cup Due],
             UNCHANGED <<held, dueIn, born, posted, dropped>>
      PROVE  Custody' /\ Evolves
  <2>1. Due \in SUBSET Stored /\ Due \subseteq zset
    BY DEF Due, Stored
  <2>2. held' = held \ Due
    BY <1>2, <2>1 DEF Custody, StoredOnce
  <2> QED
    BY <1>2, <2>1, <2>2, TakeOut
<1> QED
  BY <1>1, <1>2 DEF ClaimDue

\* A request takes the one callback it names, for itself or for nobody.
LEMMA TakeOne ==
    ASSUME TypeOK, Custody, NEW i \in Stored, NEW by \in {"request", "cancel"},
           zset' = zset \ {i}, held' = held \ {i}, Take({i}, by), UNCHANGED <<born, posted>>,
           \/ inflight' = inflight
           \/ /\ by = "request"
              /\ \E r \in Replica : inflight' = [inflight EXCEPT ![r] = @ \cup {i}]
    PROVE  Custody' /\ Evolves
<1>1. {i} \in SUBSET Stored
  OBVIOUS
<1> QED
  BY <1>1, TakeOut

LEMMA ClaimCustody ==
    ASSUME TypeOK, Custody, NEW q \in Request, NEW lost \in BOOLEAN,
           ClaimZrem(q, lost) \/ ClaimHeld(q, lost)
    PROVE  Custody' /\ Evolves
<1> DEFINE i == request[q].id
<1>1. \/ /\ i \in Stored /\ Won(q, lost)
         /\ zset' = zset \ {i} /\ held' = held \ {i}
         /\ UNCHANGED <<born, posted>>
      \/ UNCHANGED <<store, posted, inflight>>
  BY DEF ClaimZrem, ClaimHeld, Custody, StoredOnce, Stored, store
<1>2. ASSUME Won(q, lost)
      PROVE  /\ Take({i}, "request")
             /\ \/ inflight' = inflight
                \/ \E r \in Replica : inflight' = [inflight EXCEPT ![r] = @ \cup {i}]
  <2>1. /\ Take({i}, "request")
        /\ inflight' = IF lost THEN inflight
                       ELSE [inflight EXCEPT ![request[q].at] = @ \cup {i}]
    BY <1>2 DEF Won
  <2>2. request[q].at \notin Replica =>
            [inflight EXCEPT ![request[q].at] = @ \cup {i}] = inflight
    BY DEF TypeOK, DeliveryOK
  <2> QED
    BY <2>1, <2>2
<1> HIDE DEF i
<1> QED
  BY <1>1, <1>2, TakeOne, StoreUntouched

LEMMA CancelCustody ==
    ASSUME TypeOK, Custody, NEW q \in Request, NEW lost \in BOOLEAN,
           CancelZrem(q, lost) \/ CancelHdel(q, lost)
    PROVE  Custody' /\ Evolves
<1> DEFINE i == request[q].id
<1>1. \/ /\ i \in Stored /\ Take({i}, "cancel")
         /\ zset' = zset \ {i} /\ held' = held \ {i}
         /\ UNCHANGED <<born, posted, inflight>>
      \/ UNCHANGED <<store, posted, inflight>>
  BY DEF CancelZrem, CancelHdel, Custody, StoredOnce, Stored, store, delivery
<1> HIDE DEF i
<1> QED
  BY <1>1, TakeOne, StoreUntouched

LEMMA ClearCustody ==
    ASSUME TypeOK, Custody, NEW q \in Request, NEW r \in Replica, NEW lost \in BOOLEAN,
           Clear(q, r, lost)
    PROVE  Custody' /\ Evolves
<1>1. /\ zset' = zset \ Stored /\ held' = held \ Stored /\ Take(Stored, "clear")
      /\ UNCHANGED <<born, posted, inflight>>
  BY DEF Clear, Stored, delivery
<1> QED
  BY <1>1, TakeOut

LEMMA CustodyStep ==
    ASSUME TypeOK, Custody, [Next]_vars
    PROVE  Custody' /\ Evolves
<1> DEFINE Untouched == UNCHANGED <<store, posted, inflight>>
<1>1. Untouched => Custody' /\ Evolves
  BY StoreUntouched
<1> HIDE DEF Untouched
<1>2. ASSUME NEW r \in Replica, SchedulerStep(r)
      PROVE  Custody' /\ Evolves
  <2> PICK s \in Slot : Start(r, s) \/ TimerFires(r, s) \/ WakePeek(r, s) \/ WakeArm(r, s)
    BY <1>2 DEF SchedulerStep
  <2>1. CASE Start(r, s) \/ TimerFires(r, s)
    BY <2>1, WakeCustody DEF Start, TimerFires, Wake
  <2>2. CASE WakePeek(r, s) \/ WakeArm(r, s)
    BY <1>1, <2>2 DEF WakePeek, WakeArm, Untouched, delivery
  <2> QED
    BY <2>1, <2>2
<1>3. ASSUME NEW r \in Replica, NEW i \in Callback, Deliver(r, i)
      PROVE  Custody' /\ Evolves
  BY <1>3, DeliverCustody
<1>4. ASSUME NEW q \in Request, NEW r \in Replica, RequestArrives(q, r)
      PROVE  Custody' /\ Evolves
  <2>1. \/ \E lost \in BOOLEAN : Clear(q, r, lost)
        \/ Untouched
    BY <1>4 DEF RequestArrives, FireAssert, ListPending, FindPending, HoldFind, CancelFind,
                Untouched, delivery
  <2> QED
    BY <1>1, <2>1, ClearCustody
<1>5. ASSUME NEW q \in Request, RequestStep(q)
      PROVE  Custody' /\ Evolves
  <2>1. \/ \E i \in Callback, d \in Delays, lost \in BOOLEAN : FireZadd(q, i, d, lost)
        \/ \E lost \in BOOLEAN : ClaimZrem(q, lost) \/ ClaimHeld(q, lost)
        \/ \E lost \in BOOLEAN : HoldMove(q, lost)
        \/ \E lost \in BOOLEAN : CancelZrem(q, lost) \/ CancelHdel(q, lost)
        \/ Untouched
    BY <1>5 DEF RequestStep, FireArm, FindNext, FirePendingAssert, ClaimFind, HoldLook,
                HoldLookNext, ListNext, CommandFails, Untouched, delivery
  <2> QED
    BY <1>1, <2>1, FireZaddCustody, ClaimCustody, HoldMoveCustody, CancelCustody
<1>6. ASSUME NEW r \in Replica, Crash(r) \/ Stop(r) \/ Exit(r) \/ Remap(r)
      PROVE  Custody' /\ Evolves
  BY <1>1, <1>6, StoreUntouched DEF Crash, Exit, Gone, Stop, Remap, Untouched, delivery
<1>7. CASE Tick
  <2>1. UNCHANGED <<zset, held, born, taker, posted, inflight>>
    BY <1>7 DEF Tick, delivery
  <2>2. Stored' = Stored
    BY <2>1 DEF Stored
  <2>3. Custody'
    BY <2>1, <2>2 DEF Custody, StoredOnce, ClaimedOnce, TakenIsBorn, PostedOnce
  <2>4. Evolves
    BY <2>1, <2>2 DEF Evolves, Stored
  <2> QED
    BY <2>3, <2>4
<1>8. CASE UNCHANGED vars
  BY <1>1, <1>8 DEF vars, Untouched, delivery
<1> QED
  BY <1>2, <1>3, <1>4, <1>5, <1>6, <1>7, <1>8 DEF Next

LEMMA CustodyInit == Init => Custody
  BY DEF Init, Custody, StoredOnce, ClaimedOnce, TakenIsBorn, PostedOnce, Stored

LEMMA CustodyCorrect == Spec => [](TypeOK /\ Custody)
<1>1. Init => TypeOK /\ Custody
  BY InitType, CustodyInit
<1>2. TypeOK /\ Custody /\ [Next]_vars => (TypeOK /\ Custody)'
  BY NextType, CustodyStep
<1> QED
  BY <1>1, <1>2, PTL DEF Spec

\* No callback is POSTed twice: Redis hands it to one wake or one request, that
\* replica alone has it from then on, and nothing puts it back.
THEOREM PostedAtMostOnce == Spec => []AtMostOnce
<1>1. TypeOK /\ Custody => AtMostOnce
  BY DEF Custody, PostedOnce, AtMostOnce
<1> QED
  BY <1>1, CustodyCorrect, PTL

-----------------------------------------------------------------------------
(* The life cycle.  Custody tells in which stage a callback is; every step *)
(* either leaves all stages alone or moves some callbacks as one action of *)
(* the life cycle does.                                                    *)

Claimed(i) == \E r \in Replica : i \in inflight[r]

\* The stage of i, told from where i is.
StageKnown(i) ==
    /\ i \notin born => LifeOf(i) = "unborn"
    /\ Claimed(i) => LifeOf(i) = "claimed"
    /\ i \in zset => LifeOf(i) = "pending"
    /\ i \in held => LifeOf(i) = "held"
    /\ i \in born /\ i \notin Stored /\ ~Claimed(i) =>
           LifeOf(i) = IF posted[i] > 0 THEN "posted" ELSE "gone"

StagesKnown == \A i \in Callback : StageKnown(i)

LEMMA LifeStages == TypeOK /\ Custody => StagesKnown
<1> SUFFICES ASSUME TypeOK, Custody, NEW i \in Callback
             PROVE  StageKnown(i)
  BY DEF StagesKnown
<1> USE DEF StageKnown
<1>1. /\ i \in Stored => i \in born /\ ~Claimed(i)
      /\ Claimed(i) => i \in born
      /\ ~(i \in zset /\ i \in held)
  BY DEF Custody, StoredOnce, ClaimedOnce, TakenIsBorn, Claimed, Stored
<1>2. (\A r \in Replica : i \notin inflight[r]) <=> ~Claimed(i)
  BY DEF Claimed
<1>3. CASE i \notin born
  BY <1>1, <1>3 DEF LifeOf, Stored
<1>4. CASE i \in born /\ Claimed(i)
  BY <1>1, <1>2, <1>4 DEF LifeOf, Stored, Claimed
<1>5. CASE i \in born /\ ~Claimed(i)
  BY <1>1, <1>2, <1>5 DEF LifeOf, Stored, Claimed
<1> QED
  BY <1>3, <1>4, <1>5

LEMMA LifeStagesNext == TypeOK' /\ Custody' => StagesKnown'
  BY LifeStages, PTL

\* The steps that move the callbacks of S, and only them, from one stage to another.
LEMMA Moves ==
    ASSUME NEW S \in SUBSET Callback, S # {}, NEW from, NEW to,
           \A i \in S : LifeOf(i) \in from /\ LifeOf(i)' = to,
           \A i \in Callback \ S : LifeOf(i)' = LifeOf(i)
    PROVE  Lifecycle!Move(S, from, to)
  BY DEF Lifecycle!Move

LEMMA Stutters ==
    ASSUME \A i \in Callback : LifeOf(i)' = LifeOf(i), UNCHANGED posted
    PROVE  UNCHANGED Lifecycle!vars
<1>1. [i \in Callback |-> LifeOf(i)]' = [i \in Callback |-> LifeOf(i)]
  OBVIOUS
<1> QED
  BY <1>1 DEF Lifecycle!vars

\* A callback that stays where it is stays in its stage.
LEMMA Unmoved ==
    ASSUME NEW i \in Callback,
           i \in born' <=> i \in born, i \in zset' <=> i \in zset, i \in held' <=> i \in held,
           \A r \in Replica : i \in inflight'[r] <=> i \in inflight[r],
           posted'[i] = posted[i]
    PROVE  LifeOf(i)' = LifeOf(i)
  BY DEF LifeOf

-----------------------------------------------------------------------------
LifeStep == [Lifecycle!Next]_(Lifecycle!vars)

\* A removal: taken by a wake or for a request, or gone.
LEMMA TakeOutMoves ==
    ASSUME TypeOK, Custody, TypeOK', Custody',
           NEW S \in SUBSET Stored,
           zset' = zset \ S, held' = held \ S, UNCHANGED <<born, posted>>,
           \/ inflight' = inflight
           \/ /\ S \subseteq zset \/ \E i \in Stored : S = {i}
              /\ \E r \in Replica : inflight' = [inflight EXCEPT ![r] = @ \cup S]
    PROVE  LifeStep
<1> USE DEF TypeOK, StoreOK, DeliveryOK
<1>1. /\ StagesKnown /\ StagesKnown'
      /\ S \in SUBSET Callback
      /\ \A i \in S : i \in born /\ posted[i] = 0 /\ ~Claimed(i)
  BY LifeStages, LifeStagesNext DEF Stored, Custody, StoredOnce, Claimed
<1>2. \A i \in Callback \ S : LifeOf(i)' = LifeOf(i)
  <2> SUFFICES ASSUME NEW i \in Callback \ S PROVE LifeOf(i)' = LifeOf(i)
    OBVIOUS
  <2>1. \A r \in Replica : i \in inflight'[r] <=> i \in inflight[r]
    OBVIOUS
  <2> QED
    BY <2>1, Unmoved
<1>3. \A i \in S : LifeOf(i) = IF i \in zset THEN "pending" ELSE "held"
  BY <1>1 DEF StagesKnown, StageKnown, Stored
<1>4. CASE S = {}
  BY <1>2, <1>4, Stutters DEF LifeStep
<1>5. CASE S # {} /\ inflight' = inflight
  <2>1. \A i \in S : /\ i \in born' /\ i \notin Stored' /\ ~Claimed(i)'
                     /\ posted'[i] = 0
    BY <1>1, <1>5 DEF Stored, Claimed
  <2>2. \A i \in S : LifeOf(i)' = "gone"
    BY <1>1, <2>1 DEF StagesKnown, StageKnown
  <2>3. Lifecycle!Move(S, {"pending", "held", "claimed"}, "gone")
    BY <1>1, <1>2, <1>3, <1>5, <2>2, Moves
  <2> QED
    BY <1>1, <2>3 DEF LifeStep, Lifecycle!Next, Lifecycle!Discard
<1>6. CASE S # {} /\ \E r \in Replica : inflight' = [inflight EXCEPT ![r] = @ \cup S]
  <2>1. \A i \in S : Claimed(i)'
    BY <1>6 DEF Claimed
  <2>2. \A i \in S : LifeOf(i)' = "claimed"
    BY <1>1, <2>1 DEF StagesKnown, StageKnown
  <2>3. CASE S \subseteq zset
    <3>1. Lifecycle!Move(S, {"pending"}, "claimed")
      BY <1>1, <1>2, <1>3, <1>6, <2>2, <2>3, Moves
    <3> QED
      BY <1>1, <3>1 DEF LifeStep, Lifecycle!Next, Lifecycle!ClaimDue
  <2>4. CASE \E i \in Stored : S = {i}
    <3> PICK i \in Stored : S = {i}
      BY <2>4
    <3>1. Lifecycle!Move({i}, {"pending", "held"}, "claimed")
      BY <1>1, <1>2, <1>3, <1>6, <2>2, Moves
    <3> QED
      BY <1>1, <3>1 DEF LifeStep, Lifecycle!Next, Lifecycle!Fire
  <2>5. CASE inflight' = inflight
    BY <1>1, <1>6, <2>1, <2>5 DEF Claimed
  <2> QED
    BY <2>3, <2>4, <2>5
<1> QED
  BY <1>4, <1>5, <1>6

\* Nothing moves, or a replica is gone with what it had claimed.
LEMMA UntouchedMoves ==
    ASSUME TypeOK, Custody, TypeOK', Custody', UNCHANGED <<zset, held, born, posted>>,
           \/ inflight' = inflight
           \/ \E r \in Replica : inflight' = [inflight EXCEPT ![r] = {}]
    PROVE  LifeStep
<1> USE DEF TypeOK, StoreOK, DeliveryOK
<1>1. CASE inflight' = inflight
  <2>1. \A i \in Callback : LifeOf(i)' = LifeOf(i)
    BY <1>1, Unmoved
  <2> QED
    BY <2>1, Stutters DEF LifeStep
<1>2. ASSUME NEW r \in Replica, inflight' = [inflight EXCEPT ![r] = {}]
      PROVE  LifeStep
  <2> DEFINE S == inflight[r]
  <2>1. /\ S \in SUBSET Callback
        /\ StagesKnown /\ StagesKnown'
    BY LifeStages, LifeStagesNext
  <2>2. \A i \in Callback \ S : LifeOf(i)' = LifeOf(i)
    <3> SUFFICES ASSUME NEW i \in Callback \ S PROVE LifeOf(i)' = LifeOf(i)
      OBVIOUS
    <3>1. \A s \in Replica : i \in inflight'[s] <=> i \in inflight[s]
      BY <1>2
    <3> QED
      BY <3>1, Unmoved
  <2>3. \A i \in S : LifeOf(i) = "claimed"
    BY <2>1 DEF StagesKnown, StageKnown, Claimed
  <2>4. \A i \in S : /\ posted[i] = 0 /\ i \in born /\ i \notin Stored
                     /\ \A s \in Replica \ {r} : i \notin inflight[s]
    BY <2>1 DEF Custody, StoredOnce, ClaimedOnce, TakenIsBorn
  <2>5. \A i \in S : i \in born' /\ i \notin Stored' /\ ~Claimed(i)' /\ posted'[i] = 0
    BY <1>2, <2>4 DEF Claimed, Stored
  <2>6. \A i \in S : LifeOf(i)' = "gone"
    BY <2>1, <2>5 DEF StagesKnown, StageKnown
  <2>7. CASE S = {}
    BY <2>2, <2>7, Stutters DEF LifeStep
  <2>8. CASE S # {}
    <3> HIDE DEF S
    <3>1. Lifecycle!Move(S, {"pending", "held", "claimed"}, "gone")
      BY <2>1, <2>2, <2>3, <2>6, <2>8, Moves
    <3> QED
      BY <2>1, <3>1 DEF LifeStep, Lifecycle!Next, Lifecycle!Discard
  <2> QED
    BY <2>7, <2>8
<1> QED
  BY <1>1, <1>2

\* The only replica that has the callback POSTs it, or drops it.
LEMMA DeliverMoves ==
    ASSUME TypeOK, Custody, TypeOK', Custody', NEW r \in Replica, NEW i \in Callback,
           Deliver(r, i)
    PROVE  LifeStep
<1> USE DEF TypeOK, StoreOK, DeliveryOK
<1>1. /\ UNCHANGED <<zset, held, born>>
      /\ inflight' = [inflight EXCEPT ![r] = @ \ {i}]
      /\ i \in inflight[r]
      /\ posted' = posted \/ posted' = [posted EXCEPT ![i] = @ + 1]
      /\ StagesKnown /\ StagesKnown'
  BY LifeStages, LifeStagesNext DEF Deliver, store
<1>2. /\ posted[i] = 0 /\ i \in born' /\ i \notin Stored' /\ ~Claimed(i)'
      /\ LifeOf(i) = "claimed"
  <2>1. /\ posted[i] = 0 /\ i \in born /\ i \notin Stored
        /\ \A s \in Replica \ {r} : i \notin inflight[s]
    BY <1>1 DEF Custody, StoredOnce, ClaimedOnce, TakenIsBorn
  <2>2. i \notin Stored' /\ ~Claimed(i)'
    BY <1>1, <2>1 DEF Stored, Claimed
  <2> QED
    BY <1>1, <2>1, <2>2 DEF StagesKnown, StageKnown, Claimed
<1>3. \A j \in Callback \ {i} : LifeOf(j)' = LifeOf(j)
  <2> SUFFICES ASSUME NEW j \in Callback \ {i} PROVE LifeOf(j)' = LifeOf(j)
    OBVIOUS
  <2>1. /\ \A s \in Replica : j \in inflight'[s] <=> j \in inflight[s]
        /\ posted'[j] = posted[j]
    BY <1>1
  <2> QED
    BY <1>1, <2>1, Unmoved
<1>4. CASE posted' = posted
  <2>1. LifeOf(i)' = "gone"
    BY <1>1, <1>2, <1>4 DEF StagesKnown, StageKnown
  <2>2. Lifecycle!Move({i}, {"pending", "held", "claimed"}, "gone")
    BY <1>2, <1>3, <2>1, Moves
  <2> QED
    BY <1>4, <2>2 DEF LifeStep, Lifecycle!Next, Lifecycle!Discard
<1>5. CASE posted' = [posted EXCEPT ![i] = @ + 1]
  <2>1. posted'[i] = 1
    BY <1>2, <1>5
  <2>2. LifeOf(i)' = "posted"
    BY <1>1, <1>2, <2>1 DEF StagesKnown, StageKnown
  <2>3. Lifecycle!Move({i}, {"claimed"}, "posted")
    BY <1>2, <1>3, <2>2, Moves
  <2> QED
    BY <1>5, <2>3 DEF LifeStep, Lifecycle!Next, Lifecycle!Post
<1> QED
  BY <1>1, <1>4, <1>5

LEMMA FireZaddMoves ==
    ASSUME TypeOK, Custody, TypeOK', Custody', NEW q \in Request, NEW i \in Callback, NEW d,
           NEW lost \in BOOLEAN, FireZadd(q, i, d, lost)
    PROVE  LifeStep
<1> USE DEF TypeOK, StoreOK, DeliveryOK
<1>1. /\ i \notin born
      /\ zset' = zset \cup {i} /\ born' = born \cup {i}
      /\ UNCHANGED <<held, inflight, posted>>
      /\ StagesKnown /\ StagesKnown'
  BY LifeStages, LifeStagesNext DEF FireZadd, delivery
<1>2. LifeOf(i) = "unborn" /\ LifeOf(i)' = "pending"
  BY <1>1 DEF StagesKnown, StageKnown
<1>3. \A j \in Callback \ {i} : LifeOf(j)' = LifeOf(j)
  BY <1>1, Unmoved
<1>4. Lifecycle!Move({i}, {"unborn"}, "pending")
  BY <1>2, <1>3, Moves
<1> QED
  BY <1>1, <1>4 DEF LifeStep, Lifecycle!Next, Lifecycle!Schedule

LEMMA HoldMoves ==
    ASSUME TypeOK, Custody, TypeOK', Custody', NEW q \in Request, NEW lost \in BOOLEAN,
           HoldMove(q, lost)
    PROVE  LifeStep
<1> USE DEF TypeOK, StoreOK, DeliveryOK
<1>1. CASE request[q].id \in zset
  <2> PICK i \in zset : i = request[q].id
    BY <1>1
  <2>1. /\ zset' = zset \ {i} /\ held' = held \cup {i}
        /\ UNCHANGED <<born, inflight, posted>>
        /\ i \in Callback
        /\ StagesKnown /\ StagesKnown'
    BY LifeStages, LifeStagesNext DEF HoldMove, delivery
  <2>2. LifeOf(i) = "pending" /\ LifeOf(i)' = "held"
    BY <2>1 DEF StagesKnown, StageKnown
  <2>3. \A j \in Callback \ {i} : LifeOf(j)' = LifeOf(j)
    BY <2>1, Unmoved
  <2>4. Lifecycle!Move({i}, {"pending"}, "held")
    BY <2>1, <2>2, <2>3, Moves
  <2> QED
    BY <2>1, <2>4 DEF LifeStep, Lifecycle!Next, Lifecycle!Hold
<1>2. CASE request[q].id \notin zset
  BY <1>2, UntouchedMoves DEF HoldMove, delivery
<1> QED
  BY <1>1, <1>2

LEMMA WakeMoves ==
    ASSUME TypeOK, Custody, TypeOK', Custody', NEW r \in Replica, ClaimDue(r)
    PROVE  LifeStep
<1>1. CASE UNCHANGED <<store, delivery>>
  BY <1>1, UntouchedMoves DEF delivery, store
<1>2. ASSUME NEW lost \in BOOLEAN, zset' = zset \ Due,
             inflight' = IF lost THEN inflight
                         ELSE [inflight EXCEPT ![r] = @ \cup Due],
             UNCHANGED <<held, born, posted>>
      PROVE  LifeStep
  <2>1. Due \in SUBSET Stored /\ Due \subseteq zset
    BY DEF Due, Stored
  <2>2. held' = held \ Due
    BY <1>2, <2>1 DEF Custody, StoredOnce
  <2> QED
    BY <1>2, <2>1, <2>2, TakeOutMoves
<1> QED
  BY <1>1, <1>2 DEF ClaimDue

LEMMA RequestMoves ==
    ASSUME TypeOK, Custody, TypeOK', Custody', NEW q \in Request, NEW lost \in BOOLEAN,
           \/ ClaimZrem(q, lost) \/ ClaimHeld(q, lost)
           \/ CancelZrem(q, lost) \/ CancelHdel(q, lost)
    PROVE  LifeStep
<1> DEFINE i == request[q].id
<1>1. \/ /\ i \in Stored
         /\ zset' = zset \ {i} /\ held' = held \ {i}
         /\ UNCHANGED <<born, posted>>
         /\ Won(q, lost) \/ inflight' = inflight
      \/ UNCHANGED <<zset, held, born, posted, inflight>>
  BY DEF ClaimZrem, ClaimHeld, CancelZrem, CancelHdel, Custody, StoredOnce, Stored, delivery
<1>2. ASSUME Won(q, lost)
      PROVE  \/ inflight' = inflight
             \/ \E r \in Replica : inflight' = [inflight EXCEPT ![r] = @ \cup {i}]
  <2>1. inflight' = IF lost THEN inflight
                    ELSE [inflight EXCEPT ![request[q].at] = @ \cup {i}]
    BY <1>2 DEF Won
  <2>2. request[q].at \notin Replica =>
            [inflight EXCEPT ![request[q].at] = @ \cup {i}] = inflight
    BY DEF TypeOK, DeliveryOK
  <2> QED
    BY <2>1, <2>2
<1> HIDE DEF i
<1>3. CASE UNCHANGED <<zset, held, born, posted, inflight>>
  BY <1>3, UntouchedMoves
<1>4. CASE /\ i \in Stored
           /\ zset' = zset \ {i} /\ held' = held \ {i}
           /\ UNCHANGED <<born, posted>>
           /\ Won(q, lost) \/ inflight' = inflight
  <2>1. {i} \in SUBSET Stored
    BY <1>4
  <2> QED
    BY <1>2, <1>4, <2>1, TakeOutMoves
<1> QED
  BY <1>1, <1>3, <1>4

LEMMA ClearMoves ==
    ASSUME TypeOK, Custody, TypeOK', Custody', NEW q \in Request, NEW r \in Replica,
           NEW lost \in BOOLEAN, Clear(q, r, lost)
    PROVE  LifeStep
<1>1. /\ zset' = zset \ Stored /\ held' = held \ Stored
      /\ UNCHANGED <<born, posted, inflight>>
  BY DEF Clear, Stored, delivery
<1> QED
  BY <1>1, TakeOutMoves

-----------------------------------------------------------------------------
LEMMA LifeInit == Init => Lifecycle!Init
<1> SUFFICES ASSUME Init PROVE Lifecycle!Init
  OBVIOUS
<1>1. TypeOK /\ Custody
  BY InitType, CustodyInit
<1>2. \A i \in Callback : StageKnown(i)
  BY <1>1, LifeStages DEF StagesKnown
<1>3. /\ zset = born \ held /\ posted = [i \in Callback |-> 0]
      /\ born \subseteq Stored
  BY DEF Init, Stored
<1>4. \A i \in Callback : LifeOf(i) \in {"unborn", "pending", "held"}
  BY <1>2, <1>3 DEF StageKnown, Stored
<1> QED
  BY <1>3, <1>4 DEF Lifecycle!Init

LEMMA LifeNext ==
    ASSUME TypeOK, Custody, TypeOK', Custody', [Next]_vars
    PROVE  LifeStep
<1> DEFINE Untouched == UNCHANGED <<zset, held, born, posted, inflight>>
<1>1. Untouched => LifeStep
  BY UntouchedMoves
<1> HIDE DEF Untouched
<1>2. ASSUME NEW r \in Replica, SchedulerStep(r)
      PROVE  LifeStep
  <2> PICK s \in Slot : Start(r, s) \/ TimerFires(r, s) \/ WakePeek(r, s) \/ WakeArm(r, s)
    BY <1>2 DEF SchedulerStep
  <2>1. CASE Start(r, s) \/ TimerFires(r, s)
    BY <2>1, WakeMoves DEF Start, TimerFires, Wake
  <2>2. CASE WakePeek(r, s) \/ WakeArm(r, s)
    BY <1>1, <2>2 DEF WakePeek, WakeArm, Untouched, store, delivery
  <2> QED
    BY <2>1, <2>2
<1>3. ASSUME NEW r \in Replica, NEW i \in Callback, Deliver(r, i)
      PROVE  LifeStep
  BY <1>3, DeliverMoves
<1>4. ASSUME NEW q \in Request, NEW r \in Replica, RequestArrives(q, r)
      PROVE  LifeStep
  <2>1. \/ \E lost \in BOOLEAN : Clear(q, r, lost)
        \/ Untouched
    BY <1>4 DEF RequestArrives, FireAssert, ListPending, FindPending, HoldFind, CancelFind,
                Untouched, store, delivery
  <2> QED
    BY <1>1, <2>1, ClearMoves
<1>5. ASSUME NEW q \in Request, RequestStep(q)
      PROVE  LifeStep
  <2>1. \/ \E i \in Callback, d \in Delays, lost \in BOOLEAN : FireZadd(q, i, d, lost)
        \/ \E lost \in BOOLEAN : \/ ClaimZrem(q, lost) \/ ClaimHeld(q, lost)
                                 \/ CancelZrem(q, lost) \/ CancelHdel(q, lost)
        \/ \E lost \in BOOLEAN : HoldMove(q, lost)
        \/ Untouched
    BY <1>5 DEF RequestStep, FireArm, FindNext, FirePendingAssert, ClaimFind, HoldLook,
                HoldLookNext, ListNext, CommandFails, Untouched, store, delivery
  <2> QED
    BY <1>1, <2>1, FireZaddMoves, RequestMoves, HoldMoves
<1>6. ASSUME NEW r \in Replica, Crash(r) \/ Stop(r) \/ Exit(r) \/ Remap(r)
      PROVE  LifeStep
  BY <1>1, <1>6, UntouchedMoves
     DEF Crash, Exit, Gone, Stop, Remap, Untouched, store, delivery
<1>7. CASE Tick \/ UNCHANGED vars
  BY <1>1, <1>7 DEF Tick, vars, Untouched, store, delivery
<1> QED
  BY <1>2, <1>3, <1>4, <1>5, <1>6, <1>7 DEF Next

\* Every callback of the Redis mode goes through the stages of CallbackLifecycle:
\* whatever replicas, wakes, requests, crashes and lost replies do to it, each step
\* of theirs is one move of the life cycle or none.
THEOREM CallbacksFollowTheirLifecycle == Spec => ImplementsLifecycle
<1>1. TypeOK /\ Custody /\ (TypeOK /\ Custody)' /\ [Next]_vars =>
          [Lifecycle!Next]_(Lifecycle!vars)
  BY LifeNext DEF LifeStep
<1> QED
  BY <1>1, LifeInit, CustodyCorrect, PTL DEF Spec, ImplementsLifecycle, Lifecycle!Spec

==============================================================================
