------------------------------ MODULE FlagStore ------------------------------
(***************************************************************************)
(* What the flags of mocko-core promise, whichever repository keeps them:  *)
(* a flag has one value; it is gone the moment its time is up; writing it  *)
(* anew without a lifetime leaves it the time it had, unless it was gone;  *)
(* a write takes effect at once, and is answered with "ok" only when the   *)
(* flag is still there by then.  A request that fails says nothing: its    *)
(* write or removal has taken effect or has not, all of it and then.  Only *)
(* flags that outlive the process are at such a distance from it; a        *)
(* restart loses all flags or none.                                        *)
(***************************************************************************)
EXTENDS Naturals

CONSTANTS Key, Value, Client, Lifetimes, None

VARIABLES
    durable, \* flags outlive the process
    flag,    \* flag[k]: its value and when it ends (0: never), or Absent
    time,
    writing, \* writing[c]: the key whose write is not answered yet, or None
    said     \* the last answer to a client

vars == <<durable, flag, time, writing, said>>

Absent == [value |-> None, until |-> 0]

Init ==
    /\ durable \in BOOLEAN
    /\ flag = [k \in Key |-> Absent]
    /\ time = 0
    /\ writing = [c \in Client |-> None]
    /\ said = None

\* A lifetime of 0 stands for none; an absent flag has no end to keep.
Written(k, v, ttl) ==
    [flag EXCEPT ![k] = [value |-> v, until |-> IF ttl > 0 THEN time + ttl ELSE flag[k].until]]

Removed(k) == [flag EXCEPT ![k] = Absent]

Set(c, k, v, ttl) ==
    /\ writing[c] = None
    /\ \/ writing' = [writing EXCEPT ![c] = k] /\ UNCHANGED said
       \/ said' = "ok" /\ UNCHANGED writing
    /\ UNCHANGED <<durable, time>>
    /\ flag' = Written(k, v, ttl)

Answer(c) ==
    /\ writing[c] # None
    /\ writing' = [writing EXCEPT ![c] = None]
    /\ said' = IF flag[writing[c]] = Absent THEN "missing" ELSE "ok"
    /\ UNCHANGED <<durable, flag, time>>

Get(c, k) ==
    /\ writing[c] = None
    /\ said' = flag[k].value
    /\ UNCHANGED <<durable, flag, time, writing>>

Delete(c, k) ==
    /\ writing[c] = None
    /\ said' = "gone"
    /\ UNCHANGED <<durable, time, writing>>
    /\ flag' = Removed(k)

\* A write or a removal is done and answered with an error.
Lost ==
    /\ durable /\ \E c \in Client : writing[c] = None
    /\ said' = "failed"
    /\ UNCHANGED <<durable, time, writing>>
    /\ \E k \in Key :
        \/ flag' = Removed(k)
        \/ \E v \in Value, ttl \in Lifetimes \cup {0} : flag' = Written(k, v, ttl)

\* Whatever was asked is answered with an error and not done; for a write that waits for
\* its answer it is the answer that fails.
Fails(c) ==
    /\ durable
    /\ said' = "failed"
    /\ writing' = [writing EXCEPT ![c] = None]
    /\ UNCHANGED <<durable, flag, time>>

Tick ==
    /\ time' = time + 1
    /\ UNCHANGED <<durable, writing, said>>
    /\ flag' = [k \in Key |-> IF flag[k].until = time' THEN Absent ELSE flag[k]]

Restart ==
    /\ writing' = [c \in Client |-> None]
    /\ UNCHANGED <<durable, time, said>>
    /\ IF durable THEN UNCHANGED flag ELSE flag' = [k \in Key |-> Absent]

Next ==
    \/ Tick \/ Restart
    \/ \E c \in Client : Fails(c) \/ Answer(c)
    \/ Lost
    \/ \E c \in Client, k \in Key :
        \/ Get(c, k) \/ Delete(c, k)
        \/ \E v \in Value, ttl \in Lifetimes \cup {0} : Set(c, k, v, ttl)

Spec == Init /\ [][Next]_vars

=============================================================================
