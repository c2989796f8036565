---------------------------- MODULE DeployReload ----------------------------
(***************************************************************************)
(* How a deployment reaches live traffic: control SETs it in Redis and     *)
(* then PUBLISHes an empty message; every replica of mocko-core that hears *)
(* the message drops its cached definitions, builds them again (files, the *)
(* definition posted to this replica, the one in Redis) and replaces its   *)
(* routes.  Two locks of @mocko/sync order this: one around a remap, one   *)
(* around "return the cache, or build it".  Both are taken to be FIFO.     *)
(*                                                                         *)
(* A definition is known by two versions: that of the deployment read from *)
(* Redis and that of the definition posted to the replica (0 for neither). *)
(* Files do not change while a process lives.  The two loads of one        *)
(* getRoutes() queue back to back and nothing runs between them, so they   *)
(* are one place in the queue, unless the first fails.                     *)
(***************************************************************************)
EXTENDS Naturals, Sequences

CONSTANTS
    Replica,    \* processes of mocko-core
    MaxDeploys, \* bound on deployments of control
    MaxPosts,   \* bound on POST /deploy and POST /remap, over all replicas
    MaxFaults,  \* bound on crashes, failed GETs, lost messages, dying controls
    MaxReaders, \* bound on the readers that wait for the definitions of a replica
    None        \* no cached definitions

ASSUME DeployBoundsAssumption ==
    /\ MaxDeploys \in Nat /\ MaxPosts \in Nat /\ MaxFaults \in Nat /\ MaxReaders \in Nat
    /\ None \notin [own : Nat, redis : Nat]

VARIABLES
    redis,     \* REDIS_ENABLED, fixed
    stored,    \* version of the deployment in Redis
    unsent,    \* versions SET whose message is not yet published
    chan,      \* chan[r]: messages on their way to r
    proc,      \* "down", "starting" (first routes awaited) or "up"
    own,       \* deployDefinition: version last posted to the process
    cache,     \* definitions: the cached ones, or None
    queue,     \* who waits for getLoadedDefinitions(), its head holding the lock
    build,     \* buildDefinitions() of the holder
    remaps,    \* remapRoutes() calls, in order, each with the own version it answers for
    remapping, \* the head of remaps runs
    layers,    \* definitions the routes came from; the first to register a route serves it
    excuse,    \* why the routes of r may be old (history)
    promised,  \* highest own version r answered 204 for (history)
    used       \* how much of the bounds is used

control == <<redis, stored, unsent>>
loads == <<cache, queue, build>>
serving == <<remaps, remapping, layers, excuse, promised>>
vars == <<control, chan, proc, own, loads, serving, used>>

Bounded == {"deploys", "posts", "faults"}
Definition == [own : Nat, redis : Nat]
Free == [at |-> "free", own |-> 0, redis |-> 0]

Init ==
    /\ redis \in BOOLEAN
    /\ stored = 0 /\ unsent = {}
    /\ chan = [r \in Replica |-> 0]
    /\ proc = [r \in Replica |-> "down"]
    /\ own = [r \in Replica |-> 0]
    /\ cache = [r \in Replica |-> None]
    /\ queue = [r \in Replica |-> <<>>]
    /\ build = [r \in Replica |-> Free]
    /\ remaps = [r \in Replica |-> <<>>]
    /\ remapping = [r \in Replica |-> FALSE]
    /\ layers = [r \in Replica |-> <<>>]
    /\ excuse = [r \in Replica |-> {}]
    /\ promised = [r \in Replica |-> 0]
    /\ used = [what \in Bounded |-> 0]

Spend(what) == used' = [used EXCEPT ![what] = @ + 1]
Fault == used["faults"] < MaxFaults /\ Spend("faults")

-----------------------------------------------------------------------------
(* Control and the channel.                                                *)

\* deploy() of the Redis store: SET ...
PutDeployment ==
    /\ redis /\ used["deploys"] < MaxDeploys
    /\ Spend("deploys")
    /\ stored' = stored + 1
    /\ unsent' = unsent \cup {stored'}
    /\ UNCHANGED <<redis, chan, proc, own, loads, serving>>

\* ... then PUBLISH.  Whoever is subscribed gets the message, except those in
\* "lost", whose connection is down.
Publish(v, lost) ==
    /\ v \in unsent
    /\ \A r \in lost : proc[r] # "down"
    /\ IF lost = {} THEN UNCHANGED used ELSE Fault
    /\ unsent' = unsent \ {v}
    /\ chan' = [r \in Replica |-> IF proc[r] # "down" /\ r \notin lost THEN chan[r] + 1 ELSE chan[r]]
    /\ excuse' = [r \in Replica |-> IF r \in lost THEN excuse[r] \cup {"missed"} ELSE excuse[r]]
    /\ UNCHANGED <<redis, stored, proc, own, loads, remaps, remapping, layers, promised>>

\* Control dies, or its PUBLISH fails, in between: deploy() swallows the error.
ControlDies(v) ==
    /\ v \in unsent /\ Fault
    /\ unsent' = unsent \ {v}
    /\ excuse' = [r \in Replica |-> excuse[r] \cup {"missed"}]
    /\ UNCHANGED <<redis, stored, chan, proc, own, loads, remaps, remapping, layers, promised>>

-----------------------------------------------------------------------------
(* The life of a process.                                                  *)

\* start(): the listener is subscribed, then startServer() asks for the routes.
Start(r) ==
    /\ proc[r] = "down"
    /\ proc' = [proc EXCEPT ![r] = "starting"]
    /\ queue' = [queue EXCEPT ![r] = <<"start">>]
    /\ excuse' = [excuse EXCEPT ![r] = {}]
    /\ UNCHANGED <<control, chan, own, cache, build, remaps, remapping, layers, promised, used>>

\* What the end of the process leaves: nothing.
Gone(r) ==
    /\ proc' = [proc EXCEPT ![r] = "down"]
    /\ chan' = [chan EXCEPT ![r] = 0]
    /\ own' = [own EXCEPT ![r] = 0]
    /\ cache' = [cache EXCEPT ![r] = None]
    /\ queue' = [queue EXCEPT ![r] = <<>>]
    /\ build' = [build EXCEPT ![r] = Free]
    /\ remaps' = [remaps EXCEPT ![r] = <<>>]
    /\ remapping' = [remapping EXCEPT ![r] = FALSE]
    /\ layers' = [layers EXCEPT ![r] = <<>>]
    /\ excuse' = [excuse EXCEPT ![r] = {}]
    /\ promised' = [promised EXCEPT ![r] = 0]

Crash(r) == proc[r] # "down" /\ Fault /\ Gone(r) /\ UNCHANGED control

-----------------------------------------------------------------------------
(* Who asks for a remap.                                                   *)

Ask(r, v) == remaps' = [remaps EXCEPT ![r] = Append(@, v)]

\* DeployListener.onMessage().
Receive(r) ==
    /\ chan[r] > 0
    /\ chan' = [chan EXCEPT ![r] = @ - 1]
    /\ Ask(r, 0)
    /\ UNCHANGED <<control, proc, own, loads, remapping, layers, excuse, promised, used>>

Posted(r) == proc[r] = "up" /\ used["posts"] < MaxPosts /\ Spend("posts")

\* POST /__mocko__/remap
PostRemap(r) ==
    /\ Posted(r) /\ Ask(r, 0)
    /\ UNCHANGED <<control, chan, proc, own, loads, remapping, layers, excuse, promised>>

\* Mutant: the deploy is answered without waiting for the remap.
PostDeployEarly(r) ==
    /\ Posted(r)
    /\ own' = [own EXCEPT ![r] = @ + 1]
    /\ cache' = [cache EXCEPT ![r] = None]
    /\ promised' = [promised EXCEPT ![r] = own'[r]]
    /\ Ask(r, own'[r])
    /\ UNCHANGED <<control, chan, proc, queue, build, remapping, layers, excuse>>

\* Mutant: the posted definition is set and no remap asked for.
PostDeployUnmapped(r) ==
    /\ Posted(r)
    /\ own' = [own EXCEPT ![r] = @ + 1]
    /\ cache' = [cache EXCEPT ![r] = None]
    /\ UNCHANGED <<control, chan, proc, queue, build, serving>>

\* POST /__mocko__/deploy: setDeployDefinition(), which clears the cache, and a remap.
PostDeploy(r) ==
    /\ Posted(r)
    /\ own' = [own EXCEPT ![r] = @ + 1]
    /\ cache' = [cache EXCEPT ![r] = None]
    /\ Ask(r, own'[r])
    /\ UNCHANGED <<control, chan, proc, queue, build, remapping, layers, excuse, promised>>

\* A request or a delivery that needs the definitions.
Read(r) ==
    /\ proc[r] = "up"
    /\ Len(SelectSeq(queue[r], LAMBDA k : k = "reader")) < MaxReaders
    /\ queue' = [queue EXCEPT ![r] = Append(@, "reader")]
    /\ UNCHANGED <<control, chan, proc, own, cache, build, serving, used>>

-----------------------------------------------------------------------------
(* A remap, and the builds it waits for.                                   *)

\* The build under way took its definitions before what is now current: clearing
\* the cache does not reach it, and what it builds is cached all the same.
Outdated(r) ==
    \/ build[r].at \in {"get", "reply"} /\ build[r].own # own[r]
    \/ build[r].at = "reply" /\ build[r].redis # stored

\* Mutant: the remap does not clear the cached definitions.
RemapUncleared(r) ==
    /\ remaps[r] # <<>> /\ ~remapping[r]
    /\ remapping' = [remapping EXCEPT ![r] = TRUE]
    /\ excuse' = [excuse EXCEPT ![r] = IF Outdated(r) THEN {"overtaken"} ELSE {}]
    /\ queue' = [queue EXCEPT ![r] = Append(@, "remap")]
    /\ UNCHANGED <<control, chan, proc, own, cache, build, remaps, layers, promised, used>>

\* Mutant: the remap does not wait for its lock.
RemapUnlocked(r) ==
    /\ remaps[r] # <<>>
    /\ remapping' = [remapping EXCEPT ![r] = TRUE]
    /\ cache' = [cache EXCEPT ![r] = None]
    /\ excuse' = [excuse EXCEPT ![r] = IF Outdated(r) THEN {"overtaken"} ELSE {}]
    /\ queue' = [queue EXCEPT ![r] = Append(@, "remap")]
    /\ UNCHANGED <<control, chan, proc, own, build, remaps, layers, promised, used>>

\* remapRoutes() enters its lock: clearDefinitions(), then getRoutes().
RemapBegin(r) ==
    /\ remaps[r] # <<>> /\ ~remapping[r]
    /\ remapping' = [remapping EXCEPT ![r] = TRUE]
    /\ cache' = [cache EXCEPT ![r] = None]
    /\ excuse' = [excuse EXCEPT ![r] = IF Outdated(r) THEN {"overtaken"} ELSE {}]
    /\ queue' = [queue EXCEPT ![r] = Append(@, "remap")]
    /\ UNCHANGED <<control, chan, proc, own, build, remaps, layers, promised, used>>

\* The head of the queue gets definitions d.  A remap replaces the routes and
\* returns, a start adds to the routes there are (a remap may have been first, and
\* a route already there stays) and listens.
Give(r, d) ==
    /\ queue' = [queue EXCEPT ![r] = Tail(@)]
    /\ CASE Head(queue[r]) = "remap" ->
              /\ layers' = [layers EXCEPT ![r] = <<d>>]
              /\ remapping' = [remapping EXCEPT ![r] = FALSE]
              /\ remaps' = [remaps EXCEPT ![r] = Tail(@)]
              /\ promised' = [promised EXCEPT ![r] =
                                 IF Head(remaps[r]) > @ THEN Head(remaps[r]) ELSE @]
              /\ UNCHANGED proc
         [] Head(queue[r]) = "start" ->
              /\ layers' = [layers EXCEPT ![r] = Append(@, d)]
              /\ proc' = [proc EXCEPT ![r] = "up"]
              /\ UNCHANGED <<remaps, remapping, promised>>
         [] Head(queue[r]) = "reader" ->
              UNCHANGED <<layers, proc, remaps, remapping, promised>>

\* getLoadedDefinitions() with something cached.
Serve(r) ==
    /\ queue[r] # <<>> /\ cache[r] # None /\ build[r] = Free
    /\ Give(r, cache[r])
    /\ UNCHANGED <<control, chan, own, cache, build, excuse, used>>

\* With nothing cached: buildDefinitions() reads the files ...
BuildStart(r) ==
    /\ queue[r] # <<>> /\ cache[r] = None /\ build[r] = Free
    /\ build' = [build EXCEPT ![r] = [Free EXCEPT !.at = "files"]]
    /\ UNCHANGED <<control, chan, proc, own, cache, queue, serving, used>>

Finish(r, d) ==
    /\ cache' = [cache EXCEPT ![r] = d]
    /\ build' = [build EXCEPT ![r] = Free]
    /\ Give(r, d)

\* ... takes the posted definition, and without Redis is done ...
BuildTake(r) ==
    /\ build[r].at = "files"
    /\ IF redis
       THEN /\ build' = [build EXCEPT ![r] = [Free EXCEPT !.at = "get", !.own = own[r]]]
            /\ UNCHANGED <<cache, queue, proc, remaps, remapping, layers, promised>>
       ELSE Finish(r, [own |-> own[r], redis |-> 0])
    /\ UNCHANGED <<control, chan, own, excuse, used>>

\* ... else Redis serves its GET ...
RedisServes(r) ==
    /\ build[r].at = "get"
    /\ build' = [build EXCEPT ![r].at = "reply", ![r].redis = stored]
    /\ UNCHANGED <<control, chan, proc, own, cache, queue, serving, used>>

\* ... and the reply completes it.
BuildDone(r) ==
    /\ build[r].at = "reply"
    /\ Finish(r, [own |-> build[r].own, redis |-> build[r].redis])
    /\ UNCHANGED <<control, chan, own, excuse, used>>

\* Mutant: a failed GET counts as "no deployment".
BuildFailsEmpty(r) ==
    /\ build[r].at \in {"get", "reply"} /\ Fault
    /\ Finish(r, [own |-> build[r].own, redis |-> 0])
    /\ UNCHANGED <<control, chan, own, excuse>>

\* Mutant: a failed remap keeps the lock.
BuildFailsLocked(r) ==
    /\ build[r].at \in {"get", "reply"} /\ Head(queue[r]) # "start" /\ Fault
    /\ build' = [build EXCEPT ![r] = Free]
    /\ queue' = [queue EXCEPT ![r] = Tail(@)]
    /\ excuse' = [excuse EXCEPT ![r] = @ \cup {"failed"}]
    /\ UNCHANGED <<control, chan, proc, own, cache, remaps, remapping, layers, promised>>

\* The GET fails.  A remap ends with its error and leaves the second of its two
\* loads behind, which nobody awaits; a start ends the process.
BuildFails(r) ==
    /\ build[r].at \in {"get", "reply"} /\ Fault
    /\ UNCHANGED control
    /\ \/ Head(queue[r]) = "start" /\ Gone(r)
       \/ /\ Head(queue[r]) = "remap"
          /\ build' = [build EXCEPT ![r] = Free]
          /\ queue' = [queue EXCEPT ![r][1] = "reader"]
          /\ remapping' = [remapping EXCEPT ![r] = FALSE]
          /\ remaps' = [remaps EXCEPT ![r] = Tail(@)]
          /\ excuse' = [excuse EXCEPT ![r] = @ \cup {"failed"}]
          /\ UNCHANGED <<chan, proc, own, cache, layers, promised>>
       \/ /\ Head(queue[r]) = "reader"
          /\ build' = [build EXCEPT ![r] = Free]
          /\ queue' = [queue EXCEPT ![r] = Tail(@)]
          /\ UNCHANGED <<chan, proc, own, cache, serving>>

-----------------------------------------------------------------------------
LoadStep(r) ==
    Serve(r) \/ BuildStart(r) \/ BuildTake(r) \/ RedisServes(r) \/ BuildDone(r)

Next ==
    \/ PutDeployment
    \/ \E v \in unsent : ControlDies(v) \/ \E lost \in SUBSET Replica : Publish(v, lost)
    \/ \E r \in Replica :
        \/ Start(r) \/ Crash(r) \/ BuildFails(r)
        \/ PostDeploy(r) \/ PostRemap(r) \/ Read(r)
        \/ Receive(r) \/ RemapBegin(r) \/ LoadStep(r)

Spec == Init /\ [][Next]_vars

\* Locks are granted and builds end: Redis and the file system answer.  Nobody has
\* to deploy, publish, crash, fail or read.
FairSpec ==
    /\ Spec
    /\ \A r \in Replica : WF_vars(RemapBegin(r)) /\ WF_vars(LoadStep(r))

-----------------------------------------------------------------------------
Typed ==
    /\ redis \in BOOLEAN
    /\ stored \in Nat /\ unsent \subseteq Nat
    /\ chan \in [Replica -> Nat]
    /\ proc \in [Replica -> {"down", "starting", "up"}]
    /\ own \in [Replica -> Nat]
    /\ cache \in [Replica -> Definition \cup {None}]
    /\ queue \in [Replica -> Seq({"start", "remap", "reader"})]
    /\ build \in [Replica -> [at : {"free", "files", "get", "reply"}, own : Nat, redis : Nat]]
    /\ remaps \in [Replica -> Seq(Nat)]
    /\ remapping \in [Replica -> BOOLEAN]
    /\ layers \in [Replica -> Seq(Definition)]
    /\ excuse \in [Replica -> SUBSET {"overtaken", "failed", "missed"}]
    /\ promised \in [Replica -> Nat]
    /\ used \in [Bounded -> Nat]

\* A build is that of the head of the queue, with nothing cached; a remap waits in the
\* queue once, while it is the head of the remaps.
LocksHeld(r) ==
    /\ build[r].at = "free" => build[r] = Free
    /\ build[r].at # "free" => queue[r] # <<>> /\ cache[r] = None
    /\ ~redis => build[r].at \in {"free", "files"}
    /\ remapping[r] => remaps[r] # <<>>
    /\ \A i \in 1 .. Len(queue[r]) :
        queue[r][i] = "remap" =>
            remapping[r] /\ \A j \in 1 .. Len(queue[r]) : queue[r][j] = "remap" => i = j

\* Every variable has its type, and the two locks of a replica agree with who waits for
\* them: one remap at a time has its place in the queue for the definitions, and one build
\* at a time is under way, on behalf of the head of that queue (remapRoutes() and
\* getLoadedDefinitions() under their locks).
TypeOK == Typed /\ \A r \in Replica : LocksHeld(r)

Settled(r) == proc[r] = "up" /\ remaps[r] = <<>> /\ chan[r] = 0

Current(r) == [own |-> own[r], redis |-> stored]

ServesOnly(r, d) == \A k \in 1 .. Len(layers[r]) : layers[r][k] = d

\* Once every message is out and in, a replica that runs serves the last deployment
\* and the last posted definition, and nothing besides, unless its last remap was
\* overtaken by an older build, failed, or had its message lost.  (clearDefinitions()
\* before the build, in this order, and getLoadedDefinitions() under its lock.)
SettledServesLatest ==
    unsent = {} => \A r \in Replica :
        Settled(r) /\ excuse[r] = {} => ServesOnly(r, Current(r))

\* What GET /__mocko__/mocks lists (the cache) is what the routes serve, unless the
\* last remap failed: even an outdated build is listed and served alike.
ListedIsServed ==
    \A r \in Replica :
        Settled(r) /\ "failed" \notin excuse[r] /\ cache[r] # None
            => ServesOnly(r, cache[r])

\* A deploy answered with 204 is live: the routes come from that definition or a
\* later one.  Without Redis always, for then a build takes the definition and
\* completes in one go; with Redis unless a build overtook the remap.
AnsweredIsServed ==
    \A r \in Replica :
        proc[r] = "up" /\ ~remapping[r] /\ (redis => excuse[r] = {})
            => \A k \in 1 .. Len(layers[r]) : layers[r][k].own >= promised[r]

\* As long as its process lives a replica never goes back to an older deployment
\* or an older posted definition: builds are one at a time.
NeverGoesBack ==
    [][\A r \in Replica :
        proc[r] # "down" /\ proc'[r] # "down" /\ layers[r] # <<>> /\ layers'[r] # <<>>
            => /\ layers[r][1].redis <= layers'[r][1].redis
               /\ layers[r][1].own <= layers'[r][1].own]_vars

\* A remap that was asked for is not stuck behind the two locks, whatever failed.
RemapsRun == \A r \in Replica : remaps[r] # <<>> ~> remaps[r] = <<>>

\* ui-mocks/page.tsx: "Saving an existing mock applies the change to live traffic
\* right away."  Checked without faults: a message that finds the first build of a
\* starting replica under way leaves it with the deployment of before.
SavedIsLive ==
    used["faults"] = 0 /\ unsent = {} =>
        \A r \in Replica : Settled(r) => ServesOnly(r, Current(r))

=============================================================================
