-------------------------- MODULE CallbackInvariant --------------------------
(***************************************************************************)
(* The inductive invariant behind the safety properties of                 *)
(* CallbackScheduler: who has a callback (Custody), and what each request  *)
(* knows about the callback it names (Informed), at every step of it.      *)
(***************************************************************************)
EXTENDS CallbackScheduler

\* A callback is in the sorted set, in the hash, in the hands of one replica,
\* or nowhere: never in two of these places, and POSTed only after it left all.
StoredOnce ==
    /\ zset \cap held = {}
    /\ \A i \in Stored :
        /\ i \in born /\ taker[i] = "nobody" /\ posted[i] = 0
        /\ \A r \in Replica : i \notin inflight[r]

ClaimedOnce ==
    \A r \in Replica : \A i \in inflight[r] :
        /\ taker[i] \in {"wake", "request"} /\ posted[i] = 0
        /\ \A s \in Replica \ {r} : i \notin inflight[s]

TakenIsBorn == \A i \in Callback : taker[i] # "nobody" => i \in born

PostedOnce ==
    \A i \in Callback :
        posted[i] <= 1 /\ (posted[i] > 0 => taker[i] \in {"wake", "request"})

Custody == StoredOnce /\ ClaimedOnce /\ TakenIsBorn /\ PostedOnce

-----------------------------------------------------------------------------
\* The steps of the requests that name one callback ...
FirePendingPcs == {"findNext", "assert", "claimFind", "claimZrem", "claimHeld"}
HoldPcs == {"holdMove", "holdLook", "holdLookNext"}
CancelPcs == {"cancelZrem", "cancelHdel"}
NamingPcs == FirePendingPcs \cup HoldPcs \cup CancelPcs

\* ... and those taken once the callback was not found in the sorted set.
PastZset == {"findNext", "claimHeld", "holdLook", "holdLookNext", "cancelHdel"}

\* What request record w may rely on, when the store is z, h, b and t.

OwnStep(w) ==
    /\ w.pc \in FirePendingPcs => w.op = "firePending"
    /\ w.pc \in HoldPcs => w.op = "hold"
    /\ w.pc \in CancelPcs => w.op = "cancel"
    /\ w.pc = "listNext" => w.op = "list"
    /\ w.pc \in {"zadd", "arm"} => w.op = "fire"

KnowsWhere(w, z, h, b) ==
    /\ w.pc \in NamingPcs => w.id \in b
    /\ w.pc \in PastZset => w.id \notin z
    /\ w.pc = "listNext" => w.owed \subseteq b /\ w.owed \cap (z \cup h) \subseteq w.seen \cup h

WasTold(w, z, h, b, t) ==
    w.pc = "done" =>
        /\ w.op = "hold" /\ w.answer \in {"ok", "conflict"} =>
               w.id \in b /\ w.id \notin z /\ t[w.id] # "wake"
        /\ w.op \in {"firePending", "hold", "cancel"} /\ w.answer = "missing" =>
               w.id \in b /\ w.id \notin z /\ w.id \notin h
        /\ w.op = "cancel" /\ w.answer = "ok" => w.id \in b /\ t[w.id] = "cancel"
        /\ w.op = "firePending" /\ w.answer = "ok" => w.id \in b /\ t[w.id] = "request"
        /\ w.op = "list" /\ w.answer = "ok" =>
               w.owed \subseteq b /\ w.owed \cap (z \cup h) \subseteq w.seen

Sound(w, z, h, b, t) == OwnStep(w) /\ KnowsWhere(w, z, h, b) /\ WasTold(w, z, h, b, t)

Informed == \A q \in Request : Sound(request[q], zset, held, born, taker)

\* The requests that took their callback.
Winner(w) == w.pc = "done" /\ w.op \in {"firePending", "cancel"} /\ w.answer = "ok"

SoleWinner ==
    \A p, q \in Request :
        Winner(request[p]) /\ Winner(request[q]) /\ request[p].id = request[q].id => p = q

\* Everything a step of the callbacks relies on and keeps: a callback is in at
\* most one place, and no request is told what a later step could belie.
Safe == Custody /\ Informed /\ SoleWinner
==============================================================================
