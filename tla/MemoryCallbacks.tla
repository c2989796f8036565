--------------------------- MODULE MemoryCallbacks ---------------------------
(***************************************************************************)
(* Callbacks of mocko-core without Redis: one process keeps the pending    *)
(* callbacks in a Map (callback.memory-repository.ts), and its scheduler   *)
(* sets no timer when nothing waits for one.                               *)
(*                                                                         *)
(* A repository call runs to its end before anything else does.  A handler *)
(* is split where it awaits the definitions, which may have to be built,   *)
(* and between two calls of the repository.  A wake is one step: it starts *)
(* from a timeout, with nothing else ready to run, and awaits nothing but  *)
(* the Map.  So is the end of a schedule, which stores and then arms.      *)
(***************************************************************************)
EXTENDS Naturals, FiniteSets

CONSTANTS
    Callback,   \* ids a schedule may draw
    Request,    \* API requests (and mock-triggered schedules), one-shot
    Delays,     \* the delays a schedule may ask for, in ticks
    Cap,        \* WAKE_CAP_MS, in ticks
    MaxCrashes, \* bound on crashes and stops
    None        \* no timer, no callback

ASSUME MemDelaysAssumption == Delays \subseteq Nat
ASSUME MemBoundsAssumption == Cap \in Nat /\ MaxCrashes \in Nat
ASSUME MemNoneAssumption == None \notin Nat /\ None \notin Callback

VARIABLES
    pending,  \* entries of the Map without a heldAt
    held,     \* entries with one
    dueIn,    \* dueIn[i]: time until i's dueAt
    born,     \* ids that were stored (history)
    taker,    \* taker[i]: what took i out of the Map (history)
    status,   \* "down", "up" (started) or "stopping"
    timer,    \* time until the one setTimeout, None when idle
    inflight, \* claimed, deliver() not yet at its POST
    posted,   \* posted[i]: POSTs sent for i
    known,    \* the definitions have the callback, with a usable host
    request,  \* request[q]
    crashes   \* how much of the bound is used

map == <<pending, held, dueIn, born, taker>>
process == <<status, timer, crashes>>
delivery == <<inflight, posted>>
vars == <<map, process, delivery, known, request>>

NoRequest == [op |-> "none", id |-> None, pc |-> "idle", answer |-> "none"]

Init ==
    /\ pending = {} /\ held = {} /\ born = {}
    /\ dueIn = [i \in Callback |-> 0]
    /\ taker = [i \in Callback |-> "nobody"]
    /\ status = "down" /\ timer = None /\ crashes = 0
    /\ inflight = {} /\ posted = [i \in Callback |-> 0]
    /\ known = TRUE
    /\ request = [q \in Request |-> NoRequest]

Stored == pending \cup held

Take(S, by) == taker' = [i \in Callback |-> IF i \in S THEN by ELSE taker[i]]

-----------------------------------------------------------------------------
(* The scheduler.                                                          *)

\* Mutant: the cap is forgotten.
ArmedUncapped(t, in) == IF t # None /\ t <= in THEN t ELSE in

\* Mutant: a timer that is set stays set, even to arm an earlier one.
ArmedOnce(t, in) == IF t # None THEN t ELSE IF in < Cap THEN in ELSE Cap

\* The timer armTimer(dueAt) leaves of timer t when started, "in" being dueAt - now.
Armed(t, in) ==
    LET capped == IF in < Cap THEN in ELSE Cap
    IN  IF t # None /\ t <= capped THEN t ELSE capped

\* armFromRepository() once the timer was forgotten: nextDueAt() over the entries
\* S that are not held, and the timer for it, or none when there is no such entry.
ArmFromRepository(S) ==
    \/ S = {} /\ timer' = None
    \/ \E i \in S :
        /\ \A j \in S : dueIn[i] <= dueIn[j]
        /\ timer' = Armed(None, dueIn[i])

\* Mutant: a hold does not keep claimDue() from an entry.
DueOrHeld == {i \in Stored : dueIn[i] = 0}

\* What claimDue() removes: the entries that are due and not held.
Due == {i \in pending : dueIn[i] = 0}

\* Mutant: having claimed something, the wake ends without arming again.
WakeOnce ==
    /\ pending' = pending \ Due
    /\ Take(Due, "wake")
    /\ inflight' = inflight \cup Due
    /\ IF Due # {} THEN timer' = None ELSE ArmFromRepository(pending)
    /\ UNCHANGED <<held, dueIn, born, posted, known, request, crashes>>

\* wake(): what is due is claimed and handed to deliver(), and the timer set
\* for what is left; with nothing left the scheduler goes idle.
Wake ==
    /\ pending' = pending \ Due
    /\ held' = held \ Due
    /\ Take(Due, "wake")
    /\ inflight' = inflight \cup Due
    /\ ArmFromRepository(pending \ Due)
    /\ UNCHANGED <<dueIn, born, posted, known, request, crashes>>

Start == status = "down" /\ status' = "up" /\ Wake

TimerFires == timer = 0 /\ Wake /\ UNCHANGED status

\* doDeliver(): one POST, or none for want of a definition, a host or a template
\* that renders.
Deliver(i) ==
    /\ i \in inflight
    /\ inflight' = inflight \ {i}
    /\ \/ known /\ posted' = [posted EXCEPT ![i] = @ + 1]
       \/ UNCHANGED posted
    /\ UNCHANGED <<map, process, known, request>>

-----------------------------------------------------------------------------
(* Requests.                                                               *)

Serving(q, pc) == request[q].pc = pc
CanArrive(q) == request[q].pc = "idle" /\ status = "up"

Goto(q, op, i, pc) ==
    request' = [request EXCEPT ![q] = [op |-> op, id |-> i, pc |-> pc, answer |-> "none"]]
Answer(q, op, i, answer) ==
    request' = [request EXCEPT ![q] = [op |-> op, id |-> i, pc |-> "done", answer |-> answer]]

\* POST /callbacks/{slug}/fire: assertTriggerable() ...
FireAssert(q) ==
    /\ CanArrive(q)
    /\ IF known THEN Goto(q, "fire", None, "store") ELSE Answer(q, "fire", None, "refused")
    /\ UNCHANGED <<map, process, delivery, known>>

\* ... then schedule(), which arms the timer unless the scheduler was stopped.
FireStore(q, i, d) ==
    /\ Serving(q, "store")
    /\ i \notin born
    /\ pending' = pending \cup {i}
    /\ born' = born \cup {i}
    /\ dueIn' = [dueIn EXCEPT ![i] = d]
    /\ timer' = IF status = "up" THEN Armed(timer, d) ELSE timer
    /\ Answer(q, "fire", i, "ok")
    /\ UNCHANGED <<held, taker, status, crashes, delivery, known>>

\* POST /callbacks/pending/{id}/fire: find(), assertTriggerable(), claim().
FindPending(q, i) ==
    /\ CanArrive(q)
    /\ i \in born
    /\ IF i \in Stored THEN Goto(q, "firePending", i, "assert")
                       ELSE Answer(q, "firePending", i, "missing")
    /\ UNCHANGED <<map, process, delivery, known>>

FirePendingAssert(q) ==
    /\ Serving(q, "assert")
    /\ IF known THEN Goto(q, "firePending", request[q].id, "claim")
                ELSE Answer(q, "firePending", request[q].id, "refused")
    /\ UNCHANGED <<map, process, delivery, known>>

\* Mutant: what find() returned is delivered, and removed if still there.
FirePendingClaimStale(q) ==
    /\ Serving(q, "claim")
    /\ LET i == request[q].id
       IN  /\ pending' = pending \ {i} /\ held' = held \ {i}
           /\ Take({i}, "request")
           /\ inflight' = inflight \cup {i}
           /\ Answer(q, "firePending", i, "ok")
    /\ UNCHANGED <<dueIn, born, process, posted, known>>

FirePendingClaim(q) ==
    /\ Serving(q, "claim")
    /\ LET i == request[q].id
       IN  \/ /\ i \in Stored
              /\ pending' = pending \ {i} /\ held' = held \ {i}
              /\ Take({i}, "request")
              /\ inflight' = inflight \cup {i}
              /\ Answer(q, "firePending", i, "ok")
           \/ /\ i \notin Stored
              /\ Answer(q, "firePending", i, "missing")
              /\ UNCHANGED <<pending, held, taker, inflight>>
    /\ UNCHANGED <<dueIn, born, process, posted, known>>

\* POST /callbacks/pending/{id}/hold: hold(), and find() if nothing was held.
Hold(q, i) ==
    /\ CanArrive(q)
    /\ i \in born
    /\ IF i \in pending
       THEN /\ pending' = pending \ {i} /\ held' = held \cup {i}
            /\ Answer(q, "hold", i, "ok")
       ELSE /\ Goto(q, "hold", i, "look")
            /\ UNCHANGED <<pending, held>>
    /\ UNCHANGED <<dueIn, born, taker, process, delivery, known>>

HoldLook(q) ==
    /\ Serving(q, "look")
    /\ LET i == request[q].id
       IN  Answer(q, "hold", i, IF i \in held THEN "conflict" ELSE "missing")
    /\ UNCHANGED <<map, process, delivery, known>>

\* DELETE /callbacks/pending/{id}
Cancel(q, i) ==
    /\ CanArrive(q)
    /\ i \in born
    /\ pending' = pending \ {i} /\ held' = held \ {i}
    /\ Take({i} \cap Stored, "cancel")
    /\ Answer(q, "cancel", i, IF i \in Stored THEN "ok" ELSE "missing")
    /\ UNCHANGED <<dueIn, born, process, delivery, known>>

\* DELETE /callbacks/pending
Clear(q) ==
    /\ CanArrive(q)
    /\ pending' = {} /\ held' = {}
    /\ Take(Stored, "clear")
    /\ Answer(q, "clear", None, "ok")
    /\ UNCHANGED <<dueIn, born, process, delivery, known>>

-----------------------------------------------------------------------------
(* The life of the process, its definitions, and time.                     *)

\* The process is gone, and the Map and the deliveries with it.
Gone ==
    /\ status' = "down" /\ timer' = None
    /\ pending' = {} /\ held' = {} /\ inflight' = {}
    /\ Take(Stored, "exit")
    /\ request' = [q \in Request |->
                      IF request[q].pc \in {"idle", "done"} THEN request[q]
                      ELSE [request[q] EXCEPT !.pc = "done", !.answer = "reset"]]
    /\ UNCHANGED <<dueIn, born, posted, known>>

Spend == crashes < MaxCrashes /\ crashes' = crashes + 1

Crash == status # "down" /\ Spend /\ Gone

\* Server.stop(): the scheduler first ...
Stop ==
    /\ status = "up" /\ Spend
    /\ status' = "stopping" /\ timer' = None
    /\ UNCHANGED <<map, delivery, known, request>>

\* ... and process.exit at last.
Exit == status = "stopping" /\ Gone /\ UNCHANGED crashes

Remap == known' = ~known /\ UNCHANGED <<map, process, delivery, request>>

CountDown(n) == IF n = None \/ n = 0 THEN n ELSE n - 1

Tick ==
    /\ dueIn' = [i \in Callback |-> CountDown(dueIn[i])]
    /\ timer' = CountDown(timer)
    /\ UNCHANGED <<pending, held, born, taker, status, crashes, delivery, known, request>>

-----------------------------------------------------------------------------
RequestArrives(q) ==
    \/ FireAssert(q)
    \/ Clear(q)
    \/ \E i \in Callback : FindPending(q, i) \/ Hold(q, i) \/ Cancel(q, i)

RequestStep(q) ==
    \/ \E i \in Callback, d \in Delays : FireStore(q, i, d)
    \/ FirePendingAssert(q) \/ FirePendingClaim(q)
    \/ HoldLook(q)

Next ==
    \/ Start \/ TimerFires
    \/ \E i \in Callback : Deliver(i)
    \/ \E q \in Request : RequestArrives(q) \/ RequestStep(q)
    \/ Crash \/ Stop \/ Exit \/ Remap
    \/ Tick

Spec == Init /\ [][Next]_vars

\* Time passes, an expired timeout runs, and a stop ends in an exit.
FairSpec == Spec /\ WF_vars(Tick) /\ WF_vars(TimerFires) /\ WF_vars(Exit)

-----------------------------------------------------------------------------
(* Properties.                                                             *)

RequestRecord ==
    [op : {"none", "fire", "firePending", "hold", "cancel", "clear"},
     id : Callback \cup {None},
     pc : {"idle", "store", "assert", "claim", "look", "done"},
     answer : {"none", "ok", "missing", "conflict", "refused", "reset"}]

\* The variables hold what the fields and the Map can hold; no timer is beyond the cap, and
\* none is set after stop().
TypeOK ==
    /\ pending \in SUBSET Callback /\ held \in SUBSET Callback /\ born \in SUBSET Callback
    /\ dueIn \in [Callback -> Nat]
    /\ taker \in [Callback -> {"nobody", "wake", "request", "cancel", "clear", "exit"}]
    /\ status \in {"down", "up", "stopping"}
    /\ timer \in (0..Cap) \cup {None}
    /\ status # "up" => timer = None
    /\ inflight \in SUBSET Callback
    /\ posted \in [Callback -> Nat]
    /\ known \in BOOLEAN
    /\ request \in [Request -> RequestRecord]
    /\ crashes \in Nat

\* Whatever was scheduled, held, fired or cancelled in which order, a started
\* scheduler has a timer no later than any callback that waits for one: going
\* idle (armFromRepository) never strands a callback.
NeverStranded ==
    status = "up" => \A i \in pending : timer # None /\ timer <= dueIn[i]

Answered(q, op, answer) ==
    request[q].pc = "done" /\ request[q].op = op /\ request[q].answer = answer

\* What a client was told stays true: cancelled is never delivered, held is
\* never taken by a wake, and not found is not stored.
AnswersStand ==
    \A q \in Request :
        LET i == request[q].id
        IN  /\ Answered(q, "cancel", "ok") => i \notin Stored \cup inflight /\ posted[i] = 0
            /\ Answered(q, "hold", "ok") \/ Answered(q, "hold", "conflict") =>
                   i \notin pending /\ taker[i] # "wake"
            /\ \A op \in {"firePending", "hold", "cancel"} :
                   Answered(q, op, "missing") => i \notin Stored

\* A pending callback is claimed, held, cancelled or lost with the process; it
\* never waits for ever, whatever becomes of the timer.
PendingLeaves == \A i \in Callback : i \in pending ~> i \notin pending

LifeOf(i) ==
    CASE i \notin born -> "unborn"
      [] i \in inflight -> "claimed"
      [] i \in pending \ inflight -> "pending"
      [] i \in held \ (pending \cup inflight) -> "held"
      [] OTHER -> IF posted[i] > 0 THEN "posted" ELSE "gone"

Lifecycle == INSTANCE CallbackLifecycle
                 WITH life <- [i \in Callback |-> LifeOf(i)], posts <- posted

\* Memory mode goes through the stages CallbackLifecycle promises, like Redis mode.
ImplementsLifecycle == Lifecycle!Spec
==============================================================================
