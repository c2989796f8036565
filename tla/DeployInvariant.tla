--------------------------- MODULE DeployInvariant ---------------------------
(***************************************************************************)
(* The inductive invariant of DeployReload from which its proofs follow.   *)
(* The properties of the runs speak of a replica once its remaps are over; *)
(* the invariant says what must hold of the cache, of the build under way  *)
(* and of the requests that wait, so that they hold then.                  *)
(***************************************************************************)
EXTENDS DeployReload

\* Nobody waits in, builds for or has asked for anything of a process that is down.
DownIsEmpty(r) ==
    proc[r] = "down" =>
        /\ queue[r] = <<>> /\ cache[r] = None /\ build[r] = Free
        /\ remaps[r] = <<>> /\ ~remapping[r] /\ layers[r] = <<>>
        /\ own[r] = 0 /\ promised[r] = 0 /\ chan[r] = 0

\* Nothing is to come that would change what r serves.
Quiet(r) ==
    /\ proc[r] # "down" /\ unsent = {} /\ chan[r] = 0 /\ excuse[r] = {}
    /\ remaps[r] = <<>> \/ (Len(remaps[r]) = 1 /\ remapping[r])

Sure(r) == redis => excuse[r] = {}

\* A posted version, or one read from Redis, with which the routes may be built now: not
\* older than what is served, the last one when nothing is to come, and not older than
\* what r answers for.
OwnGood(r, n) ==
    /\ n <= own[r]
    /\ layers[r] # <<>> => layers[r][1].own <= n
    /\ Quiet(r) => n = own[r]
    /\ Sure(r) => promised[r] <= n /\ (remapping[r] => remaps[r][1] <= n)

RedisGood(r, n) ==
    /\ n <= stored
    /\ layers[r] # <<>> => layers[r][1].redis <= n
    /\ Quiet(r) => n = stored

NowGood(r) ==
    /\ layers[r] # <<>> => layers[r][1].own <= own[r] /\ layers[r][1].redis <= stored
    /\ promised[r] <= own[r]
    /\ \A i \in 1 .. Len(remaps[r]) : remaps[r][i] <= own[r]

CacheGood(r) == cache[r] # None => OwnGood(r, cache[r].own) /\ RedisGood(r, cache[r].redis)

BuildGood(r) ==
    /\ build[r].at \in {"get", "reply"} => OwnGood(r, build[r].own)
    /\ build[r].at = "reply" => RedisGood(r, build[r].redis)

\* The routes: current when nothing is to come, at least what was answered for, and those
\* of the cached definitions unless a remap is to come or failed.
RoutesGood(r) ==
    /\ Quiet(r) /\ remaps[r] = <<>> => ServesOnly(r, Current(r))
    /\ Sure(r) /\ ~remapping[r] =>
        \A k \in 1 .. Len(layers[r]) : promised[r] <= layers[r][k].own
    /\ proc[r] # "down" /\ remaps[r] = <<>> /\ "failed" \notin excuse[r] =>
        /\ proc[r] = "up" => cache[r] # None
        /\ cache[r] = None => layers[r] = <<>>
        /\ cache[r] # None => ServesOnly(r, cache[r])

ReplicaInv(r) ==
    /\ DownIsEmpty(r) /\ LocksHeld(r) /\ NowGood(r)
    /\ CacheGood(r) /\ BuildGood(r) /\ RoutesGood(r)

WithoutRedis == ~redis => stored = 0 /\ unsent = {}

DeployInv == Typed /\ WithoutRedis /\ \A r \in Replica : ReplicaInv(r)

=============================================================================
