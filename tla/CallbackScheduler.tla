-------------------------- MODULE CallbackScheduler --------------------------
(***************************************************************************)
(* Callbacks of mocko-core with the shared (Redis) store: several replicas *)
(* run callback-scheduler.service.ts and callback.service.ts over the same *)
(* two keys, callbacks:pending (a sorted set) and callbacks:held (a hash). *)
(*                                                                         *)
(* One action is one Redis command or script together with the code that   *)
(* runs until the next await.  Time is a countdown: dueIn[i], timer[r] and *)
(* the due time a wake has peeked all run down together, so that "dueAt <= *)
(* now" is "dueIn = 0" and no clock has to be bounded.                     *)
(***************************************************************************)
EXTENDS Naturals, FiniteSets

CONSTANTS
    Callback,   \* ids a schedule may draw (uuid: never drawn twice)
    Replica,    \* mocko-core processes
    Request,    \* API requests (and mock-triggered schedules), one-shot
    Slot,       \* wakes a replica can have in progress at once (a bound)
    Ops,        \* the kinds of request that may arrive
    Delays,     \* the delays a schedule may ask for, in ticks
    Cap,        \* WAKE_CAP_MS, in ticks
    MaxCrashes, \* bound on crashes and stops
    MaxErrors,  \* bound on Redis commands that fail
    None        \* no timer, no due time, no callback

AllOps == {"fire", "firePending", "hold", "cancel", "clear", "list"}

ASSUME OpsAssumption == Ops \subseteq AllOps
ASSUME DelaysAssumption == Delays \subseteq Nat
ASSUME CapAssumption == Cap \in Nat
ASSUME BoundsAssumption == MaxCrashes \in Nat /\ MaxErrors \in Nat
ASSUME NoneAssumption == None \notin Nat /\ None \notin Callback /\ None \notin Replica

VARIABLES
    zset,       \* callbacks:pending, the ids of its members
    held,       \* callbacks:held, its fields
    dueIn,      \* dueIn[i]: time until i's dueAt (0 from then on)
    born,       \* ids whose ZADD Redis has executed (history)
    taker,      \* taker[i]: what took i out of Redis (history)
    status,     \* status[r]: "down", "up" (started) or "stopping"
    timer,      \* timer[r]: time until the one setTimeout, None if there is none
    wake,       \* wake[r][s]: where a wake() of r stands
    inflight,   \* inflight[r]: claimed by r, deliver() not yet at its POST
    posted,     \* posted[i]: POSTs sent for i
    dropped,    \* callbacks whose delivery found no definition or host (history)
    known,      \* known[r]: r's definitions have the callback, with a usable host
    request,    \* request[q]
    crashes, errors \* how much of the bounds is used

store == <<zset, held, dueIn, born, taker>>
process == <<status, timer, wake>>
delivery == <<inflight, posted, dropped>>
budget == <<crashes, errors>>
vars == <<store, process, delivery, known, request, budget>>

NoRequest == [op |-> "none", at |-> None, id |-> None, pc |-> "idle",
              answer |-> "none", seen |-> {}, owed |-> {}]
NoWake == [pc |-> "idle", next |-> None]

\* The replicas start over whatever an earlier run has left in Redis, due or not.
Init ==
    /\ born \in SUBSET Callback
    /\ held \in SUBSET born
    /\ zset = born \ held
    /\ dueIn \in [Callback -> Delays \cup {0}]
    /\ \A i \in Callback \ zset : dueIn[i] = 0
    /\ taker = [i \in Callback |-> "nobody"]
    /\ status = [r \in Replica |-> "down"]
    /\ timer = [r \in Replica |-> None]
    /\ wake = [r \in Replica |-> [s \in Slot |-> NoWake]]
    /\ inflight = [r \in Replica |-> {}]
    /\ posted = [i \in Callback |-> 0]
    /\ dropped = {}
    /\ known = [r \in Replica |-> TRUE]
    /\ request = [q \in Request |-> NoRequest]
    /\ crashes = 0 /\ errors = 0

RedisError == errors < MaxErrors /\ errors' = errors + 1 /\ UNCHANGED crashes

\* A command that Redis executes.  Its reply may be lost with the connection:
\* the caller then sees an error although the command took effect.
Executed(lost) == IF lost THEN RedisError ELSE UNCHANGED budget

-----------------------------------------------------------------------------
(* The scheduler of a replica: one timer, and the wakes it causes.         *)

\* Mutant: the cap is forgotten.
ArmTimerUncapped(r, in) ==
    IF status[r] # "up" \/ (timer[r] # None /\ timer[r] <= in) THEN timer[r] ELSE in

\* Mutant: a timer that is set stays set, even to arm an earlier one.
ArmTimerOnce(r, in) ==
    IF status[r] # "up" \/ timer[r] # None THEN timer[r]
    ELSE IF in < Cap THEN in ELSE Cap

\* The timer armTimer(dueAt) leaves on replica r, "in" being dueAt - now.
ArmTimer(r, in) ==
    LET capped == IF in < Cap THEN in ELSE Cap
    IN  IF \/ status[r] # "up"
           \/ timer[r] # None /\ timer[r] <= capped
        THEN timer[r]
        ELSE capped

Due == {i \in zset : dueIn[i] = 0}

\* The members of S leave Redis by the hand of "by".
Take(S, by) == taker' = [i \in Callback |-> IF i \in S THEN by ELSE taker[i]]

\* Mutant: the script returns every due member but removes only one of them.
ClaimDueOfOne(r) ==
    /\ \E i \in Due : zset' = zset \ {i} /\ Take({i}, "wake")
    /\ inflight' = [inflight EXCEPT ![r] = @ \cup Due]
    /\ UNCHANGED <<held, dueIn, born, posted, dropped, budget>>

\* claimDue() of a wake on r: CLAIM_DUE_SCRIPT removes and returns every due
\* member, and each is handed to deliver() without being awaited.  An error
\* before or after the script is only logged.
ClaimDue(r) ==
    \/ \E lost \in BOOLEAN :
        /\ Executed(lost)
        /\ zset' = zset \ Due
        /\ Take(Due, "wake")
        /\ inflight' = IF lost THEN inflight
                       ELSE [inflight EXCEPT ![r] = @ \cup Due]
        /\ UNCHANGED <<held, dueIn, born, posted, dropped>>
    \/ RedisError /\ UNCHANGED <<store, delivery>>

\* wake() up to its second await: the timer is forgotten, what is due claimed.
Wake(r, s) ==
    /\ wake[r][s].pc = "idle"
    /\ wake' = [wake EXCEPT ![r][s] = [pc |-> "peek", next |-> None]]
    /\ timer' = [timer EXCEPT ![r] = None]
    /\ ClaimDue(r)
    /\ UNCHANGED <<known, request>>

\* start(), at the end of Server.start(): the first wake.
Start(r, s) ==
    /\ status[r] = "down"
    /\ status' = [status EXCEPT ![r] = "up"]
    /\ Wake(r, s)

\* The timeout fires.
TimerFires(r, s) ==
    /\ timer[r] = 0
    /\ Wake(r, s)
    /\ UNCHANGED status

NextDueAt(i) == i \in zset /\ \A j \in zset : dueIn[i] <= dueIn[j]

\* nextDueAt() of armFromRepository(): the score of the first member, or None
\* when there is none; a Redis error leaves the wake with None as well, because
\* both cases arm the cap.
WakePeek(r, s) ==
    /\ wake[r][s].pc = "peek"
    /\ \/ /\ \/ \E i \in zset :
                  /\ NextDueAt(i)
                  /\ wake' = [wake EXCEPT ![r][s] = [pc |-> "arm", next |-> dueIn[i]]]
             \/ /\ zset = {}
                /\ wake' = [wake EXCEPT ![r][s] = [pc |-> "arm", next |-> None]]
          /\ UNCHANGED budget
       \/ /\ RedisError
          /\ wake' = [wake EXCEPT ![r][s] = [pc |-> "arm", next |-> None]]
    /\ UNCHANGED <<store, status, timer, delivery, known, request>>

\* Mutant: with nothing pending the replica goes idle, as in memory mode.
WakeArmIdle(r, s) ==
    /\ wake[r][s].pc = "arm"
    /\ wake' = [wake EXCEPT ![r][s] = NoWake]
    /\ timer' = IF wake[r][s].next = None THEN timer
                ELSE [timer EXCEPT ![r] = ArmTimer(r, wake[r][s].next)]
    /\ UNCHANGED <<store, status, delivery, known, request, budget>>

\* The rest of armFromRepository().
WakeArm(r, s) ==
    /\ wake[r][s].pc = "arm"
    /\ wake' = [wake EXCEPT ![r][s] = NoWake]
    /\ timer' = [timer EXCEPT ![r] =
                    ArmTimer(r, IF wake[r][s].next = None THEN Cap ELSE wake[r][s].next)]
    /\ UNCHANGED <<store, status, delivery, known, request, budget>>

\* doDeliver(): the definitions are read again; the POST is sent once, whatever
\* comes of it, or the callback is dropped: no definition, no usable host, or a
\* template that throws.
Deliver(r, i) ==
    /\ i \in inflight[r]
    /\ inflight' = [inflight EXCEPT ![r] = @ \ {i}]
    /\ \/ /\ known[r]
          /\ posted' = [posted EXCEPT ![i] = @ + 1]
          /\ UNCHANGED dropped
       \/ /\ dropped' = dropped \cup {i}
          /\ UNCHANGED posted
    /\ UNCHANGED <<store, process, known, request, budget>>

-----------------------------------------------------------------------------
(* Requests.  Every action below is one step of request q's handler.       *)

Serving(q, pc) == request[q].pc = pc

\* Request q arrives at replica r, naming callback i, and has made its first
\* step, which leaves it at pc.
Arrive(q, op, r, i, pc) ==
    request' = [request EXCEPT ![q] = [NoRequest EXCEPT !.op = op, !.at = r, !.id = i, !.pc = pc]]

ArriveAnswered(q, op, r, i, answer) ==
    request' = [request EXCEPT ![q] =
                   [NoRequest EXCEPT !.op = op, !.at = r, !.id = i,
                                     !.pc = "done", !.answer = answer]]

Goto(q, pc) == request' = [request EXCEPT ![q].pc = pc]

Answer(q, answer) ==
    request' = [request EXCEPT ![q] = [@ EXCEPT !.pc = "done", !.answer = answer]]

CanArrive(q, op, r) == op \in Ops /\ request[q].pc = "idle" /\ status[r] = "up"

\* Clients name only ids they have been told of, so ids that are born.
Named(i) == i \in born

\* find() and list() read the two keys one after the other, in the order in
\* which a hold moves a callback.
Contents(key) == IF key = "pending" THEN zset ELSE held

\* Mutant: the hash first.
FirstKeySwapped == "held"

FirstKey == "pending"
SecondKey == IF FirstKey = "pending" THEN "held" ELSE "pending"

(* POST /callbacks/{slug}/fire, and a mock that triggers a callback: both ask  *)
(* for the definition and its host first, then schedule().                     *)

FireAssert(q, r) ==
    /\ CanArrive(q, "fire", r)
    /\ IF known[r] THEN Arrive(q, "fire", r, None, "zadd")
                   ELSE ArriveAnswered(q, "fire", r, None, "refused")
    /\ UNCHANGED <<store, process, delivery, known, budget>>

\* schedule() as far as its ZADD.
FireZadd(q, i, d, lost) ==
    /\ Serving(q, "zadd")
    /\ i \notin born
    /\ zset' = zset \cup {i}
    /\ born' = born \cup {i}
    /\ dueIn' = [dueIn EXCEPT ![i] = d]
    /\ request' = [request EXCEPT ![q] =
                      [@ EXCEPT !.id = i,
                                !.pc = IF lost THEN "done" ELSE "arm",
                                !.answer = IF lost THEN "error" ELSE "none"]]
    /\ Executed(lost)
    /\ UNCHANGED <<held, taker, process, delivery, known>>

\* The rest of schedule().
FireArm(q) ==
    /\ Serving(q, "arm")
    /\ LET r == request[q].at
       IN  timer' = [timer EXCEPT ![r] = ArmTimer(r, dueIn[request[q].id])]
    /\ Answer(q, "ok")
    /\ UNCHANGED <<store, status, wake, delivery, known, budget>>

(* POST /callbacks/pending/{id}/fire: find, check, claim.                      *)

\* find() reads the sorted set first ...
FindPending(q, r, i) ==
    /\ CanArrive(q, "firePending", r)
    /\ Named(i)
    /\ Arrive(q, "firePending", r, i, IF i \in Contents(FirstKey) THEN "assert" ELSE "findNext")
    /\ UNCHANGED <<store, process, delivery, known, budget>>

\* ... and the hash if it was not there.
FindNext(q) ==
    /\ Serving(q, "findNext")
    /\ IF request[q].id \in Contents(SecondKey) THEN Goto(q, "assert") ELSE Answer(q, "missing")
    /\ UNCHANGED <<store, process, delivery, known, budget>>

\* assertTriggerable(..., badData)
FirePendingAssert(q) ==
    /\ Serving(q, "assert")
    /\ IF known[request[q].at] THEN Goto(q, "claimFind") ELSE Answer(q, "refused")
    /\ UNCHANGED <<store, process, delivery, known, budget>>

\* claim(): findMember
ClaimFind(q) ==
    /\ Serving(q, "claimFind")
    /\ Goto(q, IF request[q].id \in zset THEN "claimZrem" ELSE "claimHeld")
    /\ UNCHANGED <<store, process, delivery, known, budget>>

\* Request q has taken its callback: it answers 202 and delivers, unless the
\* reply that told it so is lost.
Won(q, lost) ==
    LET i == request[q].id
        r == request[q].at
    IN  /\ Executed(lost)
        /\ Take({i}, "request")
        /\ inflight' = IF lost THEN inflight ELSE [inflight EXCEPT ![r] = @ \cup {i}]
        /\ Answer(q, IF lost THEN "error" ELSE "ok")

\* Mutant: the count of the ZREM is not looked at.
ClaimZremUncounted(q, lost) ==
    /\ Serving(q, "claimZrem")
    /\ zset' = zset \ {request[q].id}
    /\ Won(q, lost)
    /\ UNCHANGED <<held, dueIn, born, process, posted, dropped, known>>

\* claim(): ZREM, whose count tells whether this request removed the member
ClaimZrem(q, lost) ==
    /\ Serving(q, "claimZrem")
    /\ \/ /\ request[q].id \in zset
          /\ zset' = zset \ {request[q].id}
          /\ Won(q, lost)
       \/ /\ request[q].id \notin zset
          /\ ~lost
          /\ Goto(q, "claimHeld")
          /\ UNCHANGED <<zset, taker, inflight, budget>>
    /\ UNCHANGED <<held, dueIn, born, process, posted, dropped, known>>

\* Mutant: a separate HGET and HDEL in place of the script.
ClaimHeldUnguarded(q, lost) ==
    /\ Serving(q, "claimHeld")
    /\ held' = held \ {request[q].id}
    /\ Won(q, lost)
    /\ UNCHANGED <<zset, dueIn, born, process, posted, dropped, known>>

\* claim(): CLAIM_HELD_SCRIPT
ClaimHeld(q, lost) ==
    /\ Serving(q, "claimHeld")
    /\ \/ /\ request[q].id \in held
          /\ held' = held \ {request[q].id}
          /\ Won(q, lost)
       \/ /\ request[q].id \notin held
          /\ ~lost
          /\ Answer(q, "missing")
          /\ UNCHANGED <<held, taker, inflight, budget>>
    /\ UNCHANGED <<zset, dueIn, born, process, posted, dropped, known>>

(* POST /callbacks/pending/{id}/hold                                           *)

\* hold(): findMember
HoldFind(q, r, i) ==
    /\ CanArrive(q, "hold", r)
    /\ Named(i)
    /\ Arrive(q, "hold", r, i, IF i \in zset THEN "holdMove" ELSE "holdLook")
    /\ UNCHANGED <<store, process, delivery, known, budget>>

\* Mutant: the member is put in the hash whether or not the ZREM removed it.
HoldMoveUnguarded(q, lost) ==
    /\ Serving(q, "holdMove")
    /\ zset' = zset \ {request[q].id}
    /\ held' = held \cup {request[q].id}
    /\ Answer(q, IF lost THEN "error" ELSE "ok")
    /\ Executed(lost)
    /\ UNCHANGED <<dueIn, born, taker, process, delivery, known>>

\* hold(): HOLD_SCRIPT moves the member only if it is still in the sorted set.
HoldMove(q, lost) ==
    /\ Serving(q, "holdMove")
    /\ \/ /\ request[q].id \in zset
          /\ zset' = zset \ {request[q].id}
          /\ held' = held \cup {request[q].id}
          /\ Answer(q, IF lost THEN "error" ELSE "ok")
          /\ Executed(lost)
       \/ /\ request[q].id \notin zset
          /\ ~lost
          /\ Goto(q, "holdLook")
          /\ UNCHANGED <<zset, held, budget>>
    /\ UNCHANGED <<dueIn, born, taker, process, delivery, known>>

\* holdPending() looks with find() why nothing was held: only an entry of the
\* hash has a heldAt, any other is answered like a missing one.
WhyNotHeld(key) == IF key = "held" THEN "conflict" ELSE "missing"

HoldLook(q) ==
    /\ Serving(q, "holdLook")
    /\ IF request[q].id \in Contents(FirstKey) THEN Answer(q, WhyNotHeld(FirstKey))
                                               ELSE Goto(q, "holdLookNext")
    /\ UNCHANGED <<store, process, delivery, known, budget>>

HoldLookNext(q) ==
    /\ Serving(q, "holdLookNext")
    /\ Answer(q, IF request[q].id \in Contents(SecondKey) THEN WhyNotHeld(SecondKey)
                                                          ELSE "missing")
    /\ UNCHANGED <<store, process, delivery, known, budget>>

(* DELETE /callbacks/pending/{id}                                              *)

CancelFind(q, r, i) ==
    /\ CanArrive(q, "cancel", r)
    /\ Named(i)
    /\ Arrive(q, "cancel", r, i, IF i \in zset THEN "cancelZrem" ELSE "cancelHdel")
    /\ UNCHANGED <<store, process, delivery, known, budget>>

\* Mutant: the member was found, so the cancel answers 204 without the count.
CancelZremUncounted(q, lost) ==
    /\ Serving(q, "cancelZrem")
    /\ zset' = zset \ {request[q].id}
    /\ Take({request[q].id} \cap zset, "cancel")
    /\ Answer(q, IF lost THEN "error" ELSE "ok")
    /\ Executed(lost)
    /\ UNCHANGED <<held, dueIn, born, process, delivery, known>>

CancelZrem(q, lost) ==
    /\ Serving(q, "cancelZrem")
    /\ \/ /\ request[q].id \in zset
          /\ zset' = zset \ {request[q].id}
          /\ Take({request[q].id}, "cancel")
          /\ Answer(q, IF lost THEN "error" ELSE "ok")
          /\ Executed(lost)
       \/ /\ request[q].id \notin zset
          /\ ~lost
          /\ Goto(q, "cancelHdel")
          /\ UNCHANGED <<zset, taker, budget>>
    /\ UNCHANGED <<held, dueIn, born, process, delivery, known>>

CancelHdel(q, lost) ==
    /\ Serving(q, "cancelHdel")
    /\ \/ /\ request[q].id \in held
          /\ held' = held \ {request[q].id}
          /\ Take({request[q].id}, "cancel")
          /\ Answer(q, IF lost THEN "error" ELSE "ok")
          /\ Executed(lost)
       \/ /\ request[q].id \notin held
          /\ ~lost
          /\ Answer(q, "missing")
          /\ UNCHANGED <<held, taker, budget>>
    /\ UNCHANGED <<zset, dueIn, born, process, delivery, known>>

(* DELETE /callbacks/pending and GET /callbacks/pending                        *)

\* clear(): one DEL of both keys.
Clear(q, r, lost) ==
    /\ CanArrive(q, "clear", r)
    /\ zset' = {} /\ held' = {}
    /\ Take(zset \cup held, "clear")
    /\ ArriveAnswered(q, "clear", r, None, IF lost THEN "error" ELSE "ok")
    /\ Executed(lost)
    /\ UNCHANGED <<dueIn, born, process, delivery, known>>

\* list(): the sorted set, then the hash.  "owed" is what was stored when the
\* list began (history).
ListPending(q, r) ==
    /\ CanArrive(q, "list", r)
    /\ request' = [request EXCEPT ![q] =
                      [NoRequest EXCEPT !.op = "list", !.at = r, !.pc = "listNext",
                                        !.seen = Contents(FirstKey), !.owed = zset \cup held]]
    /\ UNCHANGED <<store, process, delivery, known, budget>>

ListNext(q) ==
    /\ Serving(q, "listNext")
    /\ request' = [request EXCEPT ![q] =
                      [@ EXCEPT !.seen = request[q].seen \cup Contents(SecondKey),
                                !.pc = "done", !.answer = "ok"]]
    /\ UNCHANGED <<store, process, delivery, known, budget>>

\* A request's next Redis command is refused: nothing changes, the answer is 500.
CommandFails(q) ==
    /\ request[q].pc \notin {"idle", "done", "arm", "assert"}
    /\ RedisError
    /\ Answer(q, "error")
    /\ UNCHANGED <<store, process, delivery, known>>

-----------------------------------------------------------------------------
(* The life of a replica, its definitions, and time.                       *)

\* The process is gone and its memory with it; clients see connections reset.
Gone(r) ==
    /\ status' = [status EXCEPT ![r] = "down"]
    /\ timer' = [timer EXCEPT ![r] = None]
    /\ wake' = [wake EXCEPT ![r] = [s \in Slot |-> NoWake]]
    /\ inflight' = [inflight EXCEPT ![r] = {}]
    /\ request' = [q \in Request |->
                      IF request[q].at = r /\ request[q].pc # "done"
                      THEN [request[q] EXCEPT !.pc = "done", !.answer = "reset"]
                      ELSE request[q]]
    /\ UNCHANGED <<store, posted, dropped, known, errors>>

Spend == crashes < MaxCrashes /\ crashes' = crashes + 1

Crash(r) == status[r] # "down" /\ Spend /\ Gone(r)

\* Server.stop(): the scheduler stops first, what is in progress goes on ...
Stop(r) ==
    /\ status[r] = "up"
    /\ Spend
    /\ status' = [status EXCEPT ![r] = "stopping"]
    /\ timer' = [timer EXCEPT ![r] = None]
    /\ UNCHANGED <<store, wake, delivery, known, request, errors>>

\* ... until process.exit, which waits for no delivery.
Exit(r) == status[r] = "stopping" /\ Gone(r) /\ UNCHANGED crashes

\* A remap of r finds the callback, or its host, added or removed.
Remap(r) ==
    /\ known' = [known EXCEPT ![r] = ~@]
    /\ UNCHANGED <<store, process, delivery, request, budget>>

CountDown(n) == IF n = None \/ n = 0 THEN n ELSE n - 1

Tick ==
    /\ dueIn' = [i \in Callback |-> CountDown(dueIn[i])]
    /\ timer' = [r \in Replica |-> CountDown(timer[r])]
    /\ wake' = [r \in Replica |-> [s \in Slot |->
                   [wake[r][s] EXCEPT !.next = CountDown(@)]]]
    /\ UNCHANGED <<zset, held, born, taker, status, delivery, known, request, budget>>

-----------------------------------------------------------------------------
SchedulerStep(r) ==
    \E s \in Slot : Start(r, s) \/ TimerFires(r, s) \/ WakePeek(r, s) \/ WakeArm(r, s)

RequestArrives(q, r) ==
    \/ FireAssert(q, r)
    \/ ListPending(q, r)
    \/ \E lost \in BOOLEAN : Clear(q, r, lost)
    \/ \E i \in Callback : FindPending(q, r, i) \/ HoldFind(q, r, i) \/ CancelFind(q, r, i)

RequestStep(q) ==
    \/ \E i \in Callback, d \in Delays, lost \in BOOLEAN : FireZadd(q, i, d, lost)
    \/ FireArm(q)
    \/ FindNext(q) \/ FirePendingAssert(q) \/ ClaimFind(q)
    \/ HoldLook(q) \/ HoldLookNext(q) \/ ListNext(q)
    \/ \E lost \in BOOLEAN :
        \/ ClaimZrem(q, lost) \/ ClaimHeld(q, lost)
        \/ HoldMove(q, lost)
        \/ CancelZrem(q, lost) \/ CancelHdel(q, lost)
    \/ CommandFails(q)

Next ==
    \/ \E r \in Replica : SchedulerStep(r)
    \/ \E r \in Replica, i \in Callback : Deliver(r, i)
    \/ \E q \in Request, r \in Replica : RequestArrives(q, r)
    \/ \E q \in Request : RequestStep(q)
    \/ \E r \in Replica : Crash(r) \/ Stop(r) \/ Exit(r) \/ Remap(r)
    \/ Tick

Spec == Init /\ [][Next]_vars

\* A stop ends in an exit, a replica that is down is restarted by its supervisor,
\* Node runs what is ready, and time passes.  Requests, deliveries, crashes and
\* remaps need not happen.
Fairness ==
    /\ WF_vars(Tick)
    /\ \A r \in Replica : WF_vars(Exit(r))
    /\ \A r \in Replica : \A s \in Slot :
        /\ WF_vars(Start(r, s))
        /\ WF_vars(TimerFires(r, s))
        /\ WF_vars(WakePeek(r, s))
        /\ WF_vars(WakeArm(r, s))

FairSpec == Spec /\ Fairness

-----------------------------------------------------------------------------
(* Properties.                                                             *)

Answers == {"none", "ok", "missing", "conflict", "refused", "error", "reset"}

RequestPcs == {"idle", "zadd", "arm", "findNext", "assert", "claimFind", "claimZrem",
               "claimHeld", "holdMove", "holdLook", "holdLookNext", "cancelZrem",
               "cancelHdel", "listNext", "done"}

RequestRecord ==
    [op : AllOps \cup {"none"}, at : Replica \cup {None}, id : Callback \cup {None},
     pc : RequestPcs, answer : Answers, seen : SUBSET Callback, owed : SUBSET Callback]

WakeRecord == [pc : {"idle", "peek", "arm"}, next : Nat \cup {None}]

StoreOK ==
    /\ zset \in SUBSET Callback /\ held \in SUBSET Callback /\ born \in SUBSET Callback
    /\ dueIn \in [Callback -> Nat]
    /\ taker \in [Callback -> {"nobody", "wake", "request", "cancel", "clear"}]

ProcessOK ==
    /\ status \in [Replica -> {"down", "up", "stopping"}]
    /\ timer \in [Replica -> (0..Cap) \cup {None}]
    /\ \A r \in Replica : status[r] # "up" => timer[r] = None
    /\ wake \in [Replica -> [Slot -> WakeRecord]]

DeliveryOK ==
    /\ inflight \in [Replica -> SUBSET Callback]
    /\ posted \in [Callback -> Nat]
    /\ dropped \in SUBSET Callback

RequestOK ==
    /\ request \in [Request -> RequestRecord]
    /\ \A q \in Request : request[q].pc = "arm" => request[q].id \in Callback

\* The variables hold what the code's fields and the two Redis keys can hold: in
\* particular no timer is set beyond the cap, a wake or a schedule that ends after stop()
\* sets none, and a schedule arms for its own id.
TypeOK ==
    /\ StoreOK
    /\ ProcessOK
    /\ DeliveryOK
    /\ RequestOK
    /\ known \in [Replica -> BOOLEAN]
    /\ crashes \in Nat /\ errors \in Nat

Stored == zset \cup held

Answered(q, op, answer) ==
    request[q].pc = "done" /\ request[q].op = op /\ request[q].answer = answer

\* No callback is POSTed twice, whichever replicas, wakes and requests race for
\* it, and whatever crashes or fails (ZREM, the claim scripts and HOLD_SCRIPT
\* each decide for one caller).
AtMostOnce == \A i \in Callback : posted[i] <= 1

\* Told "cancelled" (204), nobody delivers the callback, then or later.
CancelIsFinal ==
    \A q \in Request : Answered(q, "cancel", "ok") =>
        LET i == request[q].id
        IN  /\ i \notin Stored
            /\ posted[i] = 0
            /\ \A r \in Replica : i \notin inflight[r]

\* Told "held" (200) or "already held" (409), no wake ever takes the callback.
HeldWaits ==
    \A q \in Request :
        Answered(q, "hold", "ok") \/ Answered(q, "hold", "conflict")
            => /\ request[q].id \notin zset
               /\ taker[request[q].id] # "wake"

\* Told "no pending callback" (404), the callback is not pending and not held:
\* every handler reads the sorted set before the hash, the way a hold moves.
NotFoundIsFinal ==
    \A q \in Request : \A op \in {"firePending", "hold", "cancel"} :
        Answered(q, op, "missing") => request[q].id \notin Stored

\* Of all the requests that fire or cancel one callback and the wakes that may
\* take it, at most one is told it did.
OneWinner ==
    \A p, q \in Request : \A a, b \in {"firePending", "cancel"} :
        Answered(p, a, "ok") /\ Answered(q, b, "ok") /\ request[p].id = request[q].id
            => p = q /\ taker[request[p].id] # "wake"

\* A list shows every callback that was stored from its beginning to its end.
ListIsComplete ==
    \A q \in Request : Answered(q, "list", "ok") =>
        request[q].owed \cap Stored \subseteq request[q].seen

\* A started replica is never without a timer, except while a wake is about to
\* set one: it always comes back within the cap.
AlwaysWakes ==
    \A r \in Replica : status[r] = "up" =>
        \/ timer[r] # None
        \/ \E s \in Slot : wake[r][s].pc # "idle"

\* Replica r will come for i by its due time: its timer is early enough, or a wake
\* of it is going to look, or has looked and found i or something earlier.
Covered(r, i) ==
    \/ timer[r] # None /\ timer[r] <= dueIn[i]
    \/ \E s \in Slot :
        \/ wake[r][s].pc = "peek"
        \/ /\ wake[r][s].pc = "arm"
           /\ wake[r][s].next # None
           /\ wake[r][s].next <= dueIn[i]

\* A replica that accepted a callback does not sleep past its due time, as long
\* as no Redis command failed, whatever its wakes peeked meanwhile.
WakesInTime ==
    \A q \in Request :
        (/\ Answered(q, "fire", "ok") /\ request[q].id \in zset
         /\ status[request[q].at] = "up" /\ errors = 0)
            => Covered(request[q].at, request[q].id)

\* A pending callback does not stay pending for ever: some replica's timer comes
\* for it, after any crash, whichever replica accepted it.
PendingLeaves == \A i \in Callback : i \in zset ~> i \notin zset

\* What "delivered exactly once" and "survive restarts" ask: a callback that
\* fired is being delivered, was POSTed, or was dropped with a warning.
NeverLost ==
    \A i \in Callback : taker[i] \in {"wake", "request"} =>
        \/ posted[i] > 0
        \/ i \in dropped
        \/ \E r \in Replica : i \in inflight[r]

-----------------------------------------------------------------------------
(* Every callback goes through the stages CallbackLifecycle promises.      *)

LifeOf(i) ==
    CASE i \notin born -> "unborn"
      [] i \in born /\ (\E r \in Replica : i \in inflight[r]) -> "claimed"
      [] i \in zset /\ (\A r \in Replica : i \notin inflight[r]) -> "pending"
      [] i \in held \ zset /\ (\A r \in Replica : i \notin inflight[r]) -> "held"
      [] OTHER -> IF posted[i] > 0 THEN "posted" ELSE "gone"

Lifecycle == INSTANCE CallbackLifecycle
                 WITH life <- [i \in Callback |-> LifeOf(i)], posts <- posted

\* Whatever the replicas, their wakes and the requests do, each callback only
\* ever moves along the stages of CallbackLifecycle: the timers and the pipelined
\* Redis commands of the code add no other behaviour.
ImplementsLifecycle == Lifecycle!Spec
==============================================================================
