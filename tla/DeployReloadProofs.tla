-------------------------- MODULE DeployReloadProofs --------------------------
(***************************************************************************)
(* DeployReload, for any set of replicas and any bounds: types, and that   *)
(* DeployInv is inductive; from it, that settled replicas serve the latest *)
(* deployment, that what is listed is served, that an answered deploy is   *)
(* live, and that no replica goes back to older definitions.               *)
(***************************************************************************)
EXTENDS DeployInvariant, SequenceTheorems, TLAPS

USE DeployBoundsAssumption

-----------------------------------------------------------------------------
(* Sequences and types.                                                    *)

LEMMA HeadTail ==
    ASSUME NEW S, NEW s \in Seq(S), s # <<>>
    PROVE  /\ Head(s) = s[1] /\ Head(s) \in S
           /\ Tail(s) \in Seq(S) /\ Len(Tail(s)) = Len(s) - 1
           /\ \A i \in 1 .. Len(Tail(s)) : Tail(s)[i] = s[i + 1]
           /\ Len(s) \in Nat \ {0}
           /\ Tail(s) = <<>> <=> Len(s) = 1
<1>1. /\ Head(s) \in S /\ Tail(s) \in Seq(S) /\ Len(Tail(s)) = Len(s) - 1
      /\ \A i \in 1 .. Len(Tail(s)) : Tail(s)[i] = s[i + 1]
  BY HeadTailProperties
<1>2. Len(s) \in Nat \ {0}
  BY EmptySeq
<1>3. Tail(s) = <<>> <=> Len(s) = 1
  <2>1. Tail(s) = <<>> => Len(Tail(s)) = 0
    BY EmptySeq
  <2>2. Tail(s) # <<>> => Len(Tail(s)) \in Nat \ {0}
    BY <1>1, EmptySeq
  <2> QED
    BY <1>1, <1>2, <2>1, <2>2
<1>4. Head(s) = s[1]
  OBVIOUS
<1> QED
  BY <1>1, <1>2, <1>3, <1>4

LEMMA Appended ==
    ASSUME NEW S, NEW s \in Seq(S), NEW e \in S
    PROVE  /\ Append(s, e) \in Seq(S) /\ Append(s, e) # <<>>
           /\ Len(Append(s, e)) = Len(s) + 1
           /\ \A i \in 1 .. Len(s) : Append(s, e)[i] = s[i]
           /\ Append(s, e)[Len(s) + 1] = e
           /\ Len(s) \in Nat
           /\ s = <<>> <=> Len(s) = 0
BY AppendProperties, EmptySeq

LEMMA OneElement ==
    ASSUME NEW S, NEW e \in S
    PROVE  /\ <<e>> \in Seq(S) /\ <<e>> # <<>> /\ <<e>>[1] = e
           /\ \A k \in 1 .. Len(<<e>>) : <<e>>[k] = e
<1>1. <<e>> \in Seq(S) /\ Len(<<e>>) = 1 /\ <<e>>[1] = e
  OBVIOUS
<1> QED
  BY <1>1, EmptySeq

LEMMA NothingIsEmpty ==
    ASSUME NEW S
    PROVE  <<>> \in Seq(S) /\ \A i \in 1 .. Len(<<>>) : FALSE
OBVIOUS

LEMMA InitType == Init => Typed
BY DEF Init, Typed, Free

LEMMA SpentType ==
    ASSUME Typed, NEW what \in Bounded, Spend(what)
    PROVE  used' \in [Bounded -> Nat]
BY DEF Typed, Spend

\* What Typed says of one replica.
Types(r) ==
    /\ own[r] \in Nat /\ stored \in Nat /\ promised[r] \in Nat /\ chan[r] \in Nat
    /\ cache[r] \in Definition \cup {None}
    /\ build[r] \in [at : {"free", "files", "get", "reply"}, own : Nat, redis : Nat]
    /\ remaps[r] \in Seq(Nat) /\ queue[r] \in Seq({"start", "remap", "reader"})
    /\ layers[r] \in Seq(Definition)
    /\ \A i \in 1 .. Len(remaps[r]) : remaps[r][i] \in Nat
    /\ \A i \in 1 .. Len(layers[r]) : layers[r][i] \in Definition
    /\ layers[r] # <<>> => 1 \in 1 .. Len(layers[r])
    /\ remaps[r] # <<>> => 1 \in 1 .. Len(remaps[r])
    /\ queue[r] # <<>> => 1 \in 1 .. Len(queue[r])

LEMMA SeqTypes ==
    ASSUME NEW S, NEW s \in Seq(S)
    PROVE  /\ \A i \in 1 .. Len(s) : s[i] \in S
           /\ s # <<>> => 1 \in 1 .. Len(s)
<1>1. s # <<>> => Len(s) \in Nat \ {0}
  BY EmptySeq
<1> QED
  BY <1>1, ElementOfSeq

LEMMA ReplicaTypes ==
    ASSUME Typed, NEW r \in Replica
    PROVE  Types(r)
<1>1. /\ remaps[r] \in Seq(Nat) /\ queue[r] \in Seq({"start", "remap", "reader"})
      /\ layers[r] \in Seq(Definition)
  BY DEF Typed
<1>2. /\ own[r] \in Nat /\ stored \in Nat /\ promised[r] \in Nat /\ chan[r] \in Nat
      /\ cache[r] \in Definition \cup {None}
      /\ build[r] \in [at : {"free", "files", "get", "reply"}, own : Nat, redis : Nat]
  BY DEF Typed
<1>3. \A i \in 1 .. Len(remaps[r]) : remaps[r][i] \in Nat
  BY <1>1, SeqTypes
<1>4. \A i \in 1 .. Len(layers[r]) : layers[r][i] \in Definition
  BY <1>1, SeqTypes
<1>5. /\ layers[r] # <<>> => 1 \in 1 .. Len(layers[r])
      /\ remaps[r] # <<>> => 1 \in 1 .. Len(remaps[r])
      /\ queue[r] # <<>> => 1 \in 1 .. Len(queue[r])
  BY <1>1, SeqTypes
<1> QED
  BY <1>1, <1>2, <1>3, <1>4, <1>5 DEF Types

LEMMA GoneType ==
    ASSUME Typed, NEW r \in Replica, Gone(r), UNCHANGED control,
           used' \in [Bounded -> Nat]
    PROVE  Typed'
BY NothingIsEmpty DEF Typed, Gone, control, Free

LEMMA AskType ==
    ASSUME Typed, NEW r \in Replica, NEW v \in Nat, Ask(r, v)
    PROVE  remaps' \in [Replica -> Seq(Nat)]
<1>1. Append(remaps[r], v) \in Seq(Nat)
  BY Appended DEF Typed
<1> QED
  BY <1>1 DEF Typed, Ask

LEMMA QueuedType ==
    ASSUME Typed, NEW r \in Replica, NEW k \in {"start", "remap", "reader"}
    PROVE  [queue EXCEPT ![r] = Append(@, k)] \in [Replica -> Seq({"start", "remap", "reader"})]
<1>1. Append(queue[r], k) \in Seq({"start", "remap", "reader"})
  BY Appended DEF Typed
<1> QED
  BY <1>1 DEF Typed

LEMMA GiveType ==
    ASSUME Typed, NEW r \in Replica, LocksHeld(r), queue[r] # <<>>, NEW d \in Definition, Give(r, d)
    PROVE  /\ queue' \in [Replica -> Seq({"start", "remap", "reader"})]
           /\ layers' \in [Replica -> Seq(Definition)]
           /\ remapping' \in [Replica -> BOOLEAN]
           /\ remaps' \in [Replica -> Seq(Nat)]
           /\ promised' \in [Replica -> Nat]
           /\ proc' \in [Replica -> {"down", "starting", "up"}]
<1>1. /\ queue[r] \in Seq({"start", "remap", "reader"}) /\ Tail(queue[r]) \in Seq({"start", "remap", "reader"})
      /\ Head(queue[r]) = queue[r][1] /\ Head(queue[r]) \in {"start", "remap", "reader"}
      /\ 1 \in 1 .. Len(queue[r])
  BY HeadTail DEF Typed
<1>2. layers \in [Replica -> Seq(Definition)]
  BY DEF Typed
<1>3. queue' \in [Replica -> Seq({"start", "remap", "reader"})]
  BY <1>1 DEF Give, Typed
<1>4. CASE Head(queue[r]) = "remap"
  <2>1. remaps[r] # <<>>
    BY <1>1, <1>4 DEF LocksHeld
  <2>2. Head(remaps[r]) \in Nat /\ Tail(remaps[r]) \in Seq(Nat)
    BY <2>1, HeadTail DEF Typed
  <2>3. <<d>> \in Seq(Definition)
    OBVIOUS
  <2>4. /\ layers' = [layers EXCEPT ![r] = <<d>>]
        /\ remapping' = [remapping EXCEPT ![r] = FALSE]
        /\ remaps' = [remaps EXCEPT ![r] = Tail(@)]
        /\ promised' = [promised EXCEPT ![r] = IF Head(remaps[r]) > @ THEN Head(remaps[r]) ELSE @]
        /\ UNCHANGED proc
    BY <1>4 DEF Give
  <2> QED
    BY <1>2, <1>3, <2>2, <2>3, <2>4 DEF Typed
<1>5. CASE Head(queue[r]) = "start"
  <2>1. Append(layers[r], d) \in Seq(Definition)
    BY <1>2, Appended
  <2>2. /\ layers' = [layers EXCEPT ![r] = Append(@, d)]
        /\ proc' = [proc EXCEPT ![r] = "up"]
        /\ UNCHANGED <<remaps, remapping, promised>>
    BY <1>5 DEF Give
  <2> QED
    BY <1>2, <1>3, <2>1, <2>2 DEF Typed
<1>6. CASE Head(queue[r]) = "reader"
  BY <1>2, <1>3, <1>6 DEF Give, Typed
<1> QED
  BY <1>1, <1>4, <1>5, <1>6

-----------------------------------------------------------------------------
(* What a step leaves alone.                                               *)

Same(q) ==
    /\ chan'[q] = chan[q] /\ proc'[q] = proc[q] /\ own'[q] = own[q]
    /\ cache'[q] = cache[q] /\ queue'[q] = queue[q] /\ build'[q] = build[q]
    /\ remaps'[q] = remaps[q] /\ remapping'[q] = remapping[q] /\ layers'[q] = layers[q]
    /\ excuse'[q] = excuse[q] /\ promised'[q] = promised[q]

LEMMA SameInv ==
    ASSUME NEW q \in Replica, ReplicaInv(q), Same(q), UNCHANGED control
    PROVE  ReplicaInv(q)'
<1> USE DEF Same, control
<1>1. Quiet(q)' <=> Quiet(q)
  BY DEF Quiet
<1>2. Sure(q)' <=> Sure(q)
  BY DEF Sure
<1>3. DownIsEmpty(q)' /\ LocksHeld(q)' /\ NowGood(q)'
  BY DEF ReplicaInv, DownIsEmpty, LocksHeld, NowGood
<1>4. CacheGood(q)' /\ BuildGood(q)'
  BY <1>1, <1>2 DEF ReplicaInv, CacheGood, BuildGood, OwnGood, RedisGood
<1>5. RoutesGood(q)'
  BY <1>1, <1>2 DEF ReplicaInv, RoutesGood, ServesOnly, Current
<1> QED
  BY <1>3, <1>4, <1>5 DEF ReplicaInv

\* A step of one replica has to be looked at there only.
LEMMA OthersInv ==
    ASSUME DeployInv, NEW r \in Replica, Typed', ReplicaInv(r)', UNCHANGED control,
           \A q \in Replica \ {r} : Same(q)
    PROVE  DeployInv'
<1>1. \A q \in Replica : ReplicaInv(q)'
  BY SameInv DEF DeployInv
<1> QED
  BY <1>1 DEF DeployInv, WithoutRedis, control

-----------------------------------------------------------------------------
(* Requests for a remap.                                                   *)

\* Whoever asks for a remap makes the replica wait for it: nothing is promised of its
\* routes until the remap is through.
LEMMA AskInv ==
    ASSUME Typed, Typed', NEW r \in Replica, ReplicaInv(r), NEW v \in Nat, Ask(r, v),
           v <= own'[r], own[r] <= own'[r], proc[r] # "down",
           \/ cache'[r] = cache[r]
           \/ cache'[r] = None,
           UNCHANGED <<control, proc, queue, build, remapping, layers, excuse, promised>>
    PROVE  ReplicaInv(r)'
<1>0. remaps'[r] = Append(remaps[r], v) /\ remaps[r] \in Seq(Nat)
  BY DEF Ask, Typed
<1>1. /\ remaps'[r] # <<>> /\ Len(remaps'[r]) = Len(remaps[r]) + 1
      /\ \A i \in 1 .. Len(remaps[r]) : remaps'[r][i] = remaps[r][i]
      /\ remaps'[r][Len(remaps[r]) + 1] = v
      /\ Len(remaps[r]) \in Nat /\ (remaps[r] = <<>> <=> Len(remaps[r]) = 0)
  BY <1>0, Appended
<1>2. Types(r) /\ own'[r] \in Nat
  BY ReplicaTypes DEF Typed
<1> USE DEF Types
<1>3. ~Quiet(r)'
  BY <1>1 DEF Quiet, ReplicaInv, LocksHeld
<1>4. Sure(r)' <=> Sure(r)
  BY DEF Sure, control
<1>5. remapping[r] => remaps'[r][1] = remaps[r][1]
  BY <1>1 DEF ReplicaInv, LocksHeld
<1>6. DownIsEmpty(r)' /\ LocksHeld(r)'
  BY <1>1 DEF ReplicaInv, DownIsEmpty, LocksHeld, control
<1>7. NowGood(r)'
  <2>1. \A i \in 1 .. Len(remaps'[r]) : remaps'[r][i] <= own'[r]
    <3> SUFFICES ASSUME NEW i \in 1 .. Len(remaps'[r])
                 PROVE  remaps'[r][i] <= own'[r]
      OBVIOUS
    <3>1. CASE i \in 1 .. Len(remaps[r])
      <4>1. remaps'[r][i] = remaps[r][i] /\ remaps[r][i] <= own[r]
        BY <1>1, <3>1 DEF ReplicaInv, NowGood
      <4>2. remaps[r][i] \in Nat /\ own[r] \in Nat
        BY <1>2, <3>1
      <4> QED
        BY <4>1, <4>2, <1>2
    <3>2. CASE i = Len(remaps[r]) + 1
      BY <1>1, <3>2
    <3> QED
      BY <1>1, <3>1, <3>2
  <2>2. layers[r] # <<>> => layers[r][1].own \in Nat /\ layers[r][1].redis \in Nat
    BY <1>2 DEF Definition
  <2>3. layers[r] # <<>> => layers[r][1].own <= own[r] /\ layers[r][1].redis <= stored
    BY DEF ReplicaInv, NowGood
  <2>4. promised[r] <= own[r] /\ promised[r] \in Nat /\ own[r] \in Nat
    BY <1>2 DEF ReplicaInv, NowGood
  <2>5. layers' = layers /\ stored' = stored /\ promised' = promised
    BY DEF control
  <2>6. own'[r] \in Nat /\ stored \in Nat /\ own[r] <= own'[r]
    BY <1>2, <2>4
  <2>7. promised'[r] <= own'[r]
    BY <2>4, <2>5, <2>6
  <2>8. layers'[r] # <<>> =>
          layers'[r][1].own <= own'[r] /\ layers'[r][1].redis <= stored'
    BY <2>2, <2>3, <2>4, <2>5, <2>6
  <2> QED
    BY <2>1, <2>7, <2>8 DEF NowGood
<1>8. CacheGood(r)'
  BY <1>2, <1>3, <1>4, <1>5 DEF ReplicaInv, CacheGood, OwnGood, RedisGood, control, Definition
<1>9. BuildGood(r)'
  BY <1>2, <1>3, <1>4, <1>5 DEF ReplicaInv, BuildGood, OwnGood, RedisGood, control, Definition
<1>10. RoutesGood(r)'
  BY <1>1, <1>3, <1>4 DEF ReplicaInv, RoutesGood
<1> QED
  BY <1>6, <1>7, <1>8, <1>9, <1>10 DEF ReplicaInv

LEMMA ReceiveInv ==
    ASSUME DeployInv, NEW r \in Replica, Receive(r)
    PROVE  DeployInv'
<1>1. Typed /\ ReplicaInv(r) /\ chan[r] \in Nat /\ chan[r] > 0
  BY DEF DeployInv, Receive, Typed
<1>2. proc[r] # "down"
  BY <1>1 DEF ReplicaInv, DownIsEmpty
<1>3. Typed'
  <2>1. remaps' \in [Replica -> Seq(Nat)]
    BY <1>1, AskType DEF Receive
  <2>2. chan' \in [Replica -> Nat]
    BY <1>1 DEF Receive, Typed
  <2> QED
    BY <1>1, <2>1, <2>2 DEF Receive, Typed, control, loads
<1>4. ReplicaInv(r)'
  <2>1. 0 <= own[r] /\ own[r] <= own[r] /\ own[r] \in Nat
    BY <1>1 DEF Typed
  <2> QED
    BY <1>1, <1>2, <1>3, <2>1, AskInv DEF Receive, loads
<1>5. \A q \in Replica \ {r} : Same(q)
  BY <1>1 DEF Receive, Same, Ask, loads, Typed
<1> QED
  BY <1>3, <1>4, <1>5, OthersInv DEF Receive

LEMMA PostRemapInv ==
    ASSUME DeployInv, NEW r \in Replica, PostRemap(r)
    PROVE  DeployInv'
<1>1. Typed /\ ReplicaInv(r) /\ proc[r] = "up"
  BY DEF DeployInv, PostRemap, Posted
<1>2. Typed'
  <2>1. remaps' \in [Replica -> Seq(Nat)]
    BY <1>1, AskType DEF PostRemap
  <2>2. used' \in [Bounded -> Nat]
    BY <1>1, SpentType DEF PostRemap, Posted, Bounded
  <2> QED
    BY <1>1, <2>1, <2>2 DEF PostRemap, Typed, control, loads
<1>3. ReplicaInv(r)'
  <2>1. 0 <= own[r] /\ own[r] <= own[r] /\ own[r] \in Nat
    BY <1>1 DEF Typed
  <2> QED
    BY <1>1, <1>2, <2>1, AskInv DEF PostRemap, loads
<1>4. \A q \in Replica \ {r} : Same(q)
  BY <1>1 DEF PostRemap, Same, Ask, loads, Typed
<1> QED
  BY <1>2, <1>3, <1>4, OthersInv DEF PostRemap

LEMMA PostDeployInv ==
    ASSUME DeployInv, NEW r \in Replica, PostDeploy(r)
    PROVE  DeployInv'
<1>1. Typed /\ ReplicaInv(r) /\ proc[r] = "up" /\ own[r] \in Nat
  BY DEF DeployInv, PostDeploy, Posted, Typed
<1>2. own'[r] = own[r] + 1 /\ own'[r] \in Nat /\ own' \in [Replica -> Nat]
  BY <1>1 DEF PostDeploy, Typed
<1>3. cache'[r] = None /\ cache' \in [Replica -> Definition \cup {None}]
  BY <1>1 DEF PostDeploy, Typed
<1>4. Typed'
  <2>1. remaps' \in [Replica -> Seq(Nat)]
    BY <1>1, <1>2, AskType DEF PostDeploy
  <2>2. used' \in [Bounded -> Nat]
    BY <1>1, SpentType DEF PostDeploy, Posted, Bounded
  <2> QED
    BY <1>1, <1>2, <1>3, <2>1, <2>2 DEF PostDeploy, Typed, control
<1>5. ReplicaInv(r)'
  <2>1. own'[r] <= own'[r] /\ own[r] <= own'[r]
    BY <1>1, <1>2
  <2>2. Ask(r, own'[r])
    BY DEF PostDeploy
  <2>3. UNCHANGED <<control, proc, queue, build, remapping, layers, excuse, promised>>
    BY DEF PostDeploy
  <2>4. proc[r] # "down"
    BY <1>1
  <2>5. \E v \in Nat : Ask(r, v) /\ v <= own'[r]
    BY <1>2, <2>1, <2>2
  <2> QED
    BY <1>1, <1>3, <1>4, <2>1, <2>3, <2>4, <2>5, AskInv
<1>6. \A q \in Replica \ {r} : Same(q)
  BY <1>1 DEF PostDeploy, Same, Ask, Typed
<1> QED
  BY <1>4, <1>5, <1>6, OthersInv DEF PostDeploy

-----------------------------------------------------------------------------
(* The life of a process, and who waits for definitions.                   *)

LEMMA GoneInv ==
    ASSUME DeployInv, NEW r \in Replica, Gone(r), UNCHANGED control,
           used' \in [Bounded -> Nat]
    PROVE  DeployInv'
<1>1. Typed /\ Typed'
  BY GoneType DEF DeployInv
<1>2. /\ proc'[r] = "down" /\ chan'[r] = 0 /\ own'[r] = 0 /\ cache'[r] = None
      /\ queue'[r] = <<>> /\ build'[r] = Free /\ remaps'[r] = <<>> /\ remapping'[r] = FALSE
      /\ layers'[r] = <<>> /\ excuse'[r] = {} /\ promised'[r] = 0
  BY <1>1 DEF Gone, Typed
<1>3. (\A i \in 1 .. Len(<<>>) : FALSE)
  OBVIOUS
<1>4. ~Quiet(r)'
  BY <1>2 DEF Quiet
<1>5. DownIsEmpty(r)' /\ LocksHeld(r)' /\ NowGood(r)'
  BY <1>2, <1>3 DEF DownIsEmpty, LocksHeld, NowGood, Free
<1>6. CacheGood(r)' /\ BuildGood(r)' /\ RoutesGood(r)'
  BY <1>2, <1>3, <1>4 DEF CacheGood, BuildGood, RoutesGood, Free
<1>7. \A q \in Replica \ {r} : Same(q)
  BY <1>1 DEF Gone, Same, Typed
<1> QED
  BY <1>1, <1>5, <1>6, <1>7, OthersInv DEF ReplicaInv

LEMMA CrashInv ==
    ASSUME DeployInv, NEW r \in Replica, Crash(r)
    PROVE  DeployInv'
BY GoneInv, SpentType DEF Crash, Fault, Bounded, DeployInv

LEMMA StartInv ==
    ASSUME DeployInv, NEW r \in Replica, Start(r)
    PROVE  DeployInv'
<1>1. Typed /\ ReplicaInv(r) /\ proc[r] = "down" /\ WithoutRedis
  BY DEF DeployInv, Start
<1>2. /\ cache[r] = None /\ build[r] = Free /\ remaps[r] = <<>> /\ ~remapping[r]
      /\ layers[r] = <<>> /\ own[r] = 0 /\ promised[r] = 0 /\ chan[r] = 0
  BY <1>1 DEF ReplicaInv, DownIsEmpty
<1>3. /\ proc'[r] = "starting" /\ queue'[r] = <<"start">> /\ excuse'[r] = {}
      /\ UNCHANGED <<control, chan, own, cache, build, remaps, remapping, layers, promised, used>>
  BY <1>1 DEF Start, Typed
<1>4. /\ <<"start">> \in Seq({"start", "remap", "reader"}) /\ <<"start">> # <<>>
      /\ \A i \in 1 .. Len(<<"start">>) : <<"start">>[i] = "start"
  BY OneElement
<1>5. Typed'
  BY <1>1, <1>3, <1>4 DEF Start, Typed, control
<1>6. \A i \in 1 .. Len(<<>>) : FALSE
  OBVIOUS
<1>7. DownIsEmpty(r)' /\ LocksHeld(r)' /\ NowGood(r)'
  BY <1>2, <1>3, <1>4, <1>6 DEF DownIsEmpty, LocksHeld, NowGood, Free
<1>8. CacheGood(r)' /\ BuildGood(r)' /\ RoutesGood(r)'
  BY <1>2, <1>3, <1>6 DEF CacheGood, BuildGood, RoutesGood, ServesOnly, Free
<1>9. \A q \in Replica \ {r} : Same(q)
  BY <1>1 DEF Start, Same, Typed
<1> QED
  BY <1>3, <1>5, <1>7, <1>8, <1>9, OthersInv DEF ReplicaInv

\* One more in the queue, and nothing else, changes nothing of what is known.
LEMMA ReadInv ==
    ASSUME DeployInv, NEW r \in Replica, Read(r)
    PROVE  DeployInv'
<1>1. Typed /\ ReplicaInv(r) /\ proc[r] = "up"
  BY DEF DeployInv, Read
<1>2. Typed'
  <2>1. queue' \in [Replica -> Seq({"start", "remap", "reader"})]
    BY <1>1, QueuedType DEF Read
  <2> QED
    BY <1>1, <2>1 DEF Read, Typed, control, serving
<1>3. UNCHANGED <<control, chan, proc, own, cache, build, remaps, remapping, layers, excuse, promised>>
  BY DEF Read, serving
<1>4. LocksHeld(r)'
  <2>1. queue[r] \in Seq({"start", "remap", "reader"}) /\ queue'[r] = Append(queue[r], "reader")
    BY <1>1 DEF Read, Typed
  <2>2. /\ queue'[r] # <<>> /\ Len(queue'[r]) = Len(queue[r]) + 1 /\ Len(queue[r]) \in Nat
        /\ \A i \in 1 .. Len(queue[r]) : queue'[r][i] = queue[r][i]
        /\ queue'[r][Len(queue[r]) + 1] = "reader"
    BY <2>1, Appended
  <2>3. ASSUME NEW i \in 1 .. Len(queue'[r]), queue'[r][i] = "remap"
        PROVE  i \in 1 .. Len(queue[r]) /\ queue[r][i] = "remap"
    BY <2>2, <2>3
  <2> QED
    BY <1>1, <1>3, <2>2, <2>3 DEF ReplicaInv, LocksHeld, control
<1>5. Quiet(r)' = Quiet(r) /\ Sure(r)' = Sure(r)
  BY <1>3 DEF Quiet, Sure, control
<1>6. DownIsEmpty(r)' /\ NowGood(r)'
  BY <1>1, <1>3 DEF ReplicaInv, DownIsEmpty, NowGood, control
<1>7. CacheGood(r)' /\ BuildGood(r)'
  BY <1>1, <1>3, <1>5 DEF ReplicaInv, CacheGood, BuildGood, OwnGood, RedisGood, control
<1>8. RoutesGood(r)'
  BY <1>1, <1>3, <1>5 DEF ReplicaInv, RoutesGood, ServesOnly, Current, control
<1>9. \A q \in Replica \ {r} : Same(q)
  BY <1>1, <1>3 DEF Read, Same, Typed
<1> QED
  BY <1>2, <1>3, <1>4, <1>6, <1>7, <1>8, <1>9, OthersInv DEF ReplicaInv

\* A remap clears the cache; what is built from now on is current, and so is the build
\* under way, unless it is outdated, which is then the excuse.
LEMMA RemapBeginInv ==
    ASSUME DeployInv, NEW r \in Replica, RemapBegin(r)
    PROVE  DeployInv'
<1>1. Typed /\ ReplicaInv(r) /\ remaps[r] # <<>> /\ ~remapping[r] /\ Types(r)
  BY ReplicaTypes DEF DeployInv, RemapBegin
<1>2. proc[r] # "down"
  BY <1>1 DEF ReplicaInv, DownIsEmpty
<1>3. UNCHANGED <<control, chan, proc, own, build, remaps, layers, promised, used>>
  BY DEF RemapBegin
<1>4. /\ remapping'[r] = TRUE /\ cache'[r] = None
      /\ excuse'[r] = (IF Outdated(r) THEN {"overtaken"} ELSE {})
      /\ queue'[r] = Append(queue[r], "remap")
  BY <1>1 DEF RemapBegin, Typed
<1>5. Typed'
  <2>1. queue' \in [Replica -> Seq({"start", "remap", "reader"})]
    BY <1>1, QueuedType DEF RemapBegin
  <2> QED
    BY <1>1, <2>1 DEF RemapBegin, Typed, control
<1>6. LocksHeld(r)'
  <2>1. /\ queue'[r] # <<>> /\ Len(queue'[r]) = Len(queue[r]) + 1 /\ Len(queue[r]) \in Nat
        /\ \A i \in 1 .. Len(queue[r]) : queue'[r][i] = queue[r][i]
        /\ queue'[r][Len(queue[r]) + 1] = "remap"
    <3>1. queue[r] \in Seq({"start", "remap", "reader"})
      BY <1>1 DEF Types
    <3> QED
      BY <1>4, <3>1, Appended
  <2>2. ASSUME NEW i \in 1 .. Len(queue'[r]), queue'[r][i] = "remap"
        PROVE  i = Len(queue[r]) + 1
    BY <1>1, <2>1, <2>2 DEF ReplicaInv, LocksHeld
  <2> QED
    BY <1>1, <1>3, <1>4, <2>1, <2>2 DEF ReplicaInv, LocksHeld, control
<1>7. DownIsEmpty(r)' /\ NowGood(r)' /\ CacheGood(r)'
  BY <1>1, <1>2, <1>3, <1>4 DEF ReplicaInv, DownIsEmpty, NowGood, CacheGood, control
<1>8. Outdated(r) => ~Quiet(r)' /\ (redis => ~Sure(r)')
  BY <1>3, <1>4 DEF Quiet, Sure, control
<1>9. remaps[r][1] <= own[r] /\ promised[r] <= own[r]
  BY <1>1 DEF ReplicaInv, NowGood, Types
<1>10. build[r].at \in {"get", "reply"} => OwnGood(r, build[r].own)'
  <2> SUFFICES ASSUME build[r].at \in {"get", "reply"}
               PROVE  OwnGood(r, build[r].own)'
    OBVIOUS
  <2>1. redis /\ OwnGood(r, build[r].own)
    BY <1>1 DEF ReplicaInv, LocksHeld, BuildGood
  <2>2. Outdated(r) \/ build[r].own = own[r]
    BY DEF Outdated
  <2> QED
    BY <1>1, <1>3, <1>8, <1>9, <2>1, <2>2 DEF OwnGood, control
<1>11. build[r].at = "reply" => RedisGood(r, build[r].redis)'
  <2> SUFFICES ASSUME build[r].at = "reply"
               PROVE  RedisGood(r, build[r].redis)'
    OBVIOUS
  <2>1. RedisGood(r, build[r].redis)
    BY <1>1 DEF ReplicaInv, BuildGood
  <2>2. Outdated(r) \/ build[r].redis = stored
    BY DEF Outdated
  <2> QED
    BY <1>1, <1>3, <1>8, <2>1, <2>2 DEF RedisGood, control
<1>12. BuildGood(r)'
  BY <1>3, <1>10, <1>11 DEF BuildGood
<1>13. RoutesGood(r)'
  BY <1>1, <1>3, <1>4 DEF RoutesGood
<1>14. \A q \in Replica \ {r} : Same(q)
  BY <1>1 DEF RemapBegin, Same, Typed
<1> QED
  BY <1>3, <1>5, <1>6, <1>7, <1>12, <1>13, <1>14, OthersInv DEF ReplicaInv

-----------------------------------------------------------------------------
(* Builds.                                                                 *)

\* A step of the build under way: only build[r] changes.
BuildMoves(r) ==
    /\ build' = [build EXCEPT ![r] = build'[r]]
    /\ UNCHANGED <<control, chan, proc, own, cache, queue, serving, used>>

LEMMA BuildMovesInv ==
    ASSUME DeployInv, NEW r \in Replica, BuildMoves(r), queue[r] # <<>>, cache[r] = None,
           build'[r] \in [at : {"files", "get", "reply"}, own : Nat, redis : Nat],
           ~redis => build'[r].at = "files",
           BuildGood(r)'
    PROVE  DeployInv'
<1>1. Typed /\ ReplicaInv(r)
  BY DEF DeployInv
<1>2. UNCHANGED <<control, chan, proc, own, cache, queue, remaps, remapping, layers, excuse, promised, used>>
  BY DEF BuildMoves, serving
<1>3. Typed'
  <2>1. build' \in [Replica -> [at : {"free", "files", "get", "reply"}, own : Nat, redis : Nat]]
    BY <1>1 DEF BuildMoves, Typed
  <2> QED
    BY <1>1, <1>2, <2>1 DEF Typed, control
<1>4. proc[r] # "down"
  BY <1>1 DEF ReplicaInv, DownIsEmpty
<1>5. Quiet(r)' = Quiet(r) /\ Sure(r)' = Sure(r)
  BY <1>2 DEF Quiet, Sure, control
<1>6. DownIsEmpty(r)' /\ LocksHeld(r)' /\ NowGood(r)' /\ CacheGood(r)'
  BY <1>1, <1>2, <1>4 DEF ReplicaInv, DownIsEmpty, LocksHeld, NowGood, CacheGood, control
<1>7. RoutesGood(r)'
  BY <1>1, <1>2, <1>5 DEF ReplicaInv, RoutesGood, ServesOnly, Current, control
<1>8. \A q \in Replica \ {r} : Same(q)
  BY <1>1, <1>2 DEF BuildMoves, Same, Typed
<1> QED
  BY <1>2, <1>3, <1>6, <1>7, <1>8, OthersInv DEF ReplicaInv

LEMMA BuildStartInv ==
    ASSUME DeployInv, NEW r \in Replica, BuildStart(r)
    PROVE  DeployInv'
<1>1. build'[r] = [at |-> "files", own |-> 0, redis |-> 0]
  BY DEF BuildStart, DeployInv, Typed, Free
<1>2. BuildGood(r)'
  BY <1>1 DEF BuildGood
<1>3. BuildMoves(r)
  BY DEF BuildStart, BuildMoves, DeployInv, Typed
<1> QED
  BY <1>1, <1>2, <1>3, BuildMovesInv DEF BuildStart

LEMMA BuildTakeInv ==
    ASSUME DeployInv, NEW r \in Replica, BuildTake(r), redis
    PROVE  DeployInv'
<1>1. Typed /\ ReplicaInv(r) /\ Types(r) /\ build[r].at = "files"
  BY ReplicaTypes DEF DeployInv, BuildTake
<1>2. /\ build' = [build EXCEPT ![r] = [Free EXCEPT !.at = "get", !.own = own[r]]]
      /\ UNCHANGED <<control, chan, proc, own, cache, queue, serving, used>>
  BY DEF BuildTake, serving
<1>3. build'[r] = [at |-> "get", own |-> own[r], redis |-> 0]
  BY <1>1, <1>2 DEF Typed, Free
<1>4. OwnGood(r, build[r].own)'
  <2>1. /\ layers[r] # <<>> => layers[r][1].own <= own[r]
        /\ promised[r] <= own[r]
        /\ remapping[r] => remaps[r][1] <= own[r]
    BY <1>1 DEF ReplicaInv, NowGood, LocksHeld, Types
  <2>2. own[r] <= own[r] /\ build'[r].own = own[r]
    BY <1>1, <1>3 DEF Types
  <2> QED
    BY <1>2, <2>1, <2>2 DEF OwnGood, control, serving
<1>5. BuildGood(r)'
  BY <1>3, <1>4 DEF BuildGood
<1>6. BuildMoves(r)
  BY <1>1, <1>2 DEF BuildMoves, Typed
<1>7. queue[r] # <<>> /\ cache[r] = None
  BY <1>1 DEF ReplicaInv, LocksHeld
<1>8. build'[r] \in [at : {"files", "get", "reply"}, own : Nat, redis : Nat]
  BY <1>1, <1>3 DEF Types
<1> QED
  BY <1>5, <1>6, <1>7, <1>8, BuildMovesInv

LEMMA RedisServesInv ==
    ASSUME DeployInv, NEW r \in Replica, RedisServes(r)
    PROVE  DeployInv'
<1>1. Typed /\ ReplicaInv(r) /\ Types(r) /\ build[r].at = "get"
  BY ReplicaTypes DEF DeployInv, RedisServes
<1>2. /\ build' = [build EXCEPT ![r].at = "reply", ![r].redis = stored]
      /\ UNCHANGED <<control, chan, proc, own, cache, queue, serving, used>>
  BY DEF RedisServes
<1>3. build'[r] = [at |-> "reply", own |-> build[r].own, redis |-> stored]
  BY <1>1, <1>2 DEF Typed
<1>4. OwnGood(r, build[r].own)'
  BY <1>1, <1>2, <1>3 DEF ReplicaInv, BuildGood, OwnGood, Quiet, Sure, control, serving
<1>5. RedisGood(r, build[r].redis)'
  <2>1. layers[r] # <<>> => layers[r][1].redis <= stored
    BY <1>1 DEF ReplicaInv, NowGood
  <2>2. stored <= stored /\ build'[r].redis = stored
    BY <1>1, <1>3 DEF Types
  <2> QED
    BY <1>2, <2>1, <2>2 DEF RedisGood, control, serving
<1>6. BuildGood(r)'
  BY <1>4, <1>5 DEF BuildGood
<1>7. BuildMoves(r)
  BY <1>1, <1>2 DEF BuildMoves, Typed
<1>8. queue[r] # <<>> /\ cache[r] = None /\ redis
  BY <1>1 DEF ReplicaInv, LocksHeld
<1>9. build'[r] \in [at : {"files", "get", "reply"}, own : Nat, redis : Nat]
  BY <1>1, <1>3 DEF Types
<1> QED
  BY <1>6, <1>7, <1>8, <1>9, BuildMovesInv

-----------------------------------------------------------------------------
(* Whoever is first in the queue gets definitions.                         *)

\* What is left of the queue holds a remap only if its head was none.
LEMMA TailLocks ==
    ASSUME NEW r \in Replica, LocksHeld(r), Types(r), queue[r] # <<>>, queue'[r] = Tail(queue[r])
    PROVE  /\ \A i \in 1 .. Len(queue'[r]) : queue'[r][i] = "remap" =>
                /\ remapping[r] /\ queue[r][1] # "remap"
                /\ \A j \in 1 .. Len(queue'[r]) : queue'[r][j] = "remap" => i = j
           /\ queue[r][1] \in {"start", "remap", "reader"} /\ Head(queue[r]) = queue[r][1]
<1>1. queue[r] \in Seq({"start", "remap", "reader"})
  BY DEF Types
<1>2. /\ Len(queue'[r]) = Len(queue[r]) - 1 /\ Len(queue[r]) \in Nat \ {0}
      /\ \A i \in 1 .. Len(queue'[r]) : queue'[r][i] = queue[r][i + 1]
      /\ queue[r][1] \in {"start", "remap", "reader"} /\ Head(queue[r]) = queue[r][1]
  BY <1>1, HeadTail
<1>3. ASSUME NEW i \in 1 .. Len(queue'[r]), queue'[r][i] = "remap"
      PROVE  /\ remapping[r] /\ queue[r][1] # "remap"
             /\ \A j \in 1 .. Len(queue'[r]) : queue'[r][j] = "remap" => i = j
  <2>1. i + 1 \in 1 .. Len(queue[r]) /\ queue[r][i + 1] = "remap" /\ 1 \in 1 .. Len(queue[r])
    BY <1>2, <1>3
  <2>2. remapping[r] /\ \A j \in 1 .. Len(queue[r]) : queue[r][j] = "remap" => i + 1 = j
    BY <2>1 DEF LocksHeld
  <2>3. queue[r][1] # "remap"
    BY <2>1, <2>2
  <2>4. ASSUME NEW j \in 1 .. Len(queue'[r]), queue'[r][j] = "remap"
        PROVE  i = j
    <3>1. j + 1 \in 1 .. Len(queue[r]) /\ queue[r][j + 1] = "remap"
      BY <1>2, <2>4
    <3>2. i + 1 = j + 1
      BY <2>2, <3>1
    <3> QED
      BY <3>2
  <2> QED
    BY <2>2, <2>3, <2>4
<1> QED
  BY <1>2, <1>3

\* The definitions d are good, and r caches nothing else.
Gives(r, d) ==
    /\ queue[r] # <<>> /\ Give(r, d)
    /\ OwnGood(r, d.own) /\ RedisGood(r, d.redis)
    /\ cache[r] \in {None, d}
    /\ cache' = [cache EXCEPT ![r] = d] /\ build' = [build EXCEPT ![r] = Free]
    /\ UNCHANGED <<control, chan, own, excuse, used>>

LEMMA GivesFacts ==
    ASSUME DeployInv, NEW r \in Replica, NEW d \in Definition, Gives(r, d)
    PROVE  /\ Typed /\ ReplicaInv(r) /\ Types(r) /\ Typed'
           /\ proc[r] # "down"
           /\ cache'[r] = d /\ d # None /\ build'[r] = Free /\ queue'[r] = Tail(queue[r])
           /\ d.own \in Nat /\ d.redis \in Nat
           /\ chan'[r] = chan[r] /\ own'[r] = own[r] /\ excuse'[r] = excuse[r]
           /\ Sure(r)' <=> Sure(r)
           /\ Quiet(r) => d = Current(r)
           /\ \A q \in Replica \ {r} : Same(q)
<1>1. Typed /\ ReplicaInv(r) /\ Types(r)
  BY ReplicaTypes DEF DeployInv
<1>2. Typed'
  <2>1. /\ queue' \in [Replica -> Seq({"start", "remap", "reader"})]
        /\ layers' \in [Replica -> Seq(Definition)]
        /\ remapping' \in [Replica -> BOOLEAN]
        /\ remaps' \in [Replica -> Seq(Nat)]
        /\ promised' \in [Replica -> Nat]
        /\ proc' \in [Replica -> {"down", "starting", "up"}]
    BY <1>1, GiveType DEF Gives, ReplicaInv
  <2>2. cache' \in [Replica -> Definition \cup {None}]
    BY <1>1 DEF Gives, Typed
  <2>3. build' \in [Replica -> [at : {"free", "files", "get", "reply"}, own : Nat, redis : Nat]]
    BY <1>1 DEF Gives, Typed, Free
  <2> QED
    BY <1>1, <2>1, <2>2, <2>3 DEF Gives, Typed, control
<1>3. proc[r] # "down"
  BY <1>1 DEF Gives, ReplicaInv, DownIsEmpty
<1>4. /\ cache'[r] = d /\ build'[r] = Free /\ queue'[r] = Tail(queue[r])
      /\ UNCHANGED <<control, chan, own, excuse, used>>
  BY <1>1 DEF Gives, Give, Typed
<1>5. d # None /\ d.own \in Nat /\ d.redis \in Nat
  BY DEF Definition
<1>6. Sure(r)' <=> Sure(r)
  BY <1>4 DEF Sure, control
<1>7. Quiet(r) => d = Current(r)
  BY DEF Gives, OwnGood, RedisGood, Current, Definition
<1>8. \A q \in Replica \ {r} : Same(q)
  <2>1. queue[r][1] \in {"start", "remap", "reader"} /\ Head(queue[r]) = queue[r][1]
    BY <1>1, <1>4, TailLocks DEF ReplicaInv, Gives
  <2>2. \A q \in Replica \ {r} :
            /\ queue'[q] = queue[q] /\ layers'[q] = layers[q] /\ remapping'[q] = remapping[q]
            /\ remaps'[q] = remaps[q] /\ promised'[q] = promised[q] /\ proc'[q] = proc[q]
    BY <1>1, <2>1 DEF Gives, Give, Typed
  <2> QED
    BY <1>1, <2>2 DEF Gives, Same, Typed
<1> QED
  BY <1>1, <1>2, <1>3, <1>4, <1>5, <1>6, <1>7, <1>8

\* The head is a remap: the routes are those of d, and r answers for what it asked for.
LEMMA GiveRemapInv ==
    ASSUME DeployInv, NEW r \in Replica, NEW d \in Definition, Gives(r, d),
           Head(queue[r]) = "remap"
    PROVE  DeployInv'
<1>1. /\ Typed /\ ReplicaInv(r) /\ Types(r) /\ Typed' /\ proc[r] # "down"
      /\ cache'[r] = d /\ d # None /\ build'[r] = Free /\ queue'[r] = Tail(queue[r])
      /\ d.own \in Nat /\ d.redis \in Nat
      /\ chan'[r] = chan[r] /\ own'[r] = own[r] /\ excuse'[r] = excuse[r]
      /\ Sure(r)' <=> Sure(r)
      /\ Quiet(r) => d = Current(r)
      /\ \A q \in Replica \ {r} : Same(q)
  BY GivesFacts
<1>2. /\ queue[r] # <<>> /\ UNCHANGED control
      /\ OwnGood(r, d.own) /\ RedisGood(r, d.redis)
  BY DEF Gives
<1>3. remapping[r] /\ remaps[r] # <<>> /\ Head(queue[r]) = queue[r][1]
  <2>1. Head(queue[r]) = queue[r][1] /\ 1 \in 1 .. Len(queue[r])
    BY <1>1, <1>2, TailLocks DEF ReplicaInv, Types
  <2> QED
    BY <1>1, <2>1 DEF ReplicaInv, LocksHeld
<1>4. /\ layers'[r] = <<d>> /\ remapping'[r] = FALSE /\ remaps'[r] = Tail(remaps[r])
      /\ promised'[r] = (IF Head(remaps[r]) > promised[r] THEN Head(remaps[r]) ELSE promised[r])
      /\ proc'[r] = proc[r]
  <2>1. /\ layers' = [layers EXCEPT ![r] = <<d>>]
        /\ remapping' = [remapping EXCEPT ![r] = FALSE]
        /\ remaps' = [remaps EXCEPT ![r] = Tail(@)]
        /\ promised' = [promised EXCEPT ![r] = IF Head(remaps[r]) > @ THEN Head(remaps[r]) ELSE @]
        /\ UNCHANGED proc
    BY DEF Gives, Give
  <2> QED
    BY <1>1, <2>1 DEF Typed
<1>5. /\ Head(remaps[r]) = remaps[r][1] /\ Head(remaps[r]) \in Nat
      /\ Len(remaps'[r]) = Len(remaps[r]) - 1 /\ Len(remaps[r]) \in Nat \ {0}
      /\ \A i \in 1 .. Len(remaps'[r]) : remaps'[r][i] = remaps[r][i + 1]
      /\ remaps'[r] = <<>> <=> Len(remaps[r]) = 1
  <2>1. remaps[r] \in Seq(Nat)
    BY <1>1 DEF Types
  <2> QED
    BY <1>3, <1>4, <2>1, HeadTail
<1>6. /\ layers'[r] # <<>> /\ layers'[r][1] = d
      /\ \A k \in 1 .. Len(layers'[r]) : layers'[r][k] = d
  BY <1>4, OneElement
<1>7. Quiet(r)' => Quiet(r) /\ remaps'[r] = <<>>
  BY <1>1, <1>2, <1>3, <1>4, <1>5 DEF Quiet, control
<1>8. remaps[r][1] <= own[r] /\ promised[r] <= own[r] /\ promised[r] \in Nat /\ own[r] \in Nat
  BY <1>1, <1>3 DEF ReplicaInv, NowGood, Types
<1>9. d.own <= own[r] /\ d.redis <= stored
  BY <1>2 DEF OwnGood, RedisGood
<1>10. Sure(r) => promised'[r] <= d.own
  BY <1>2, <1>3, <1>4, <1>5, <1>8 DEF OwnGood
<1>11. DownIsEmpty(r)' /\ LocksHeld(r)'
  <2>1. \A i \in 1 .. Len(queue'[r]) : queue'[r][i] # "remap"
    BY <1>1, <1>2, <1>3, TailLocks DEF ReplicaInv
  <2> QED
    BY <1>1, <1>3, <1>4, <2>1 DEF DownIsEmpty, LocksHeld, Free
<1>12. NowGood(r)'
  <2>1. ASSUME NEW i \in 1 .. Len(remaps'[r])
        PROVE  remaps'[r][i] <= own'[r]
    <3>1. i + 1 \in 1 .. Len(remaps[r])
      BY <1>5
    <3> QED
      BY <1>1, <1>5, <3>1 DEF ReplicaInv, NowGood
  <2>2. promised'[r] <= own'[r]
    BY <1>1, <1>4, <1>5, <1>8
  <2> QED
    BY <1>1, <1>2, <1>6, <1>9, <2>1, <2>2 DEF NowGood, control
<1>13. CacheGood(r)'
  <2>1. OwnGood(r, cache[r].own)'
    BY <1>1, <1>4, <1>6, <1>7, <1>9, <1>10 DEF OwnGood, Current
  <2>2. RedisGood(r, cache[r].redis)'
    BY <1>1, <1>2, <1>6, <1>7, <1>9 DEF RedisGood, Current, control
  <2> QED
    BY <2>1, <2>2 DEF CacheGood
<1>14. BuildGood(r)'
  BY <1>1 DEF BuildGood, Free
<1>15. RoutesGood(r)'
  <2>1. Quiet(r)' => ServesOnly(r, Current(r))'
    BY <1>1, <1>2, <1>6, <1>7 DEF ServesOnly, Current, control
  <2>2. Sure(r)' => \A k \in 1 .. Len(layers'[r]) : promised'[r] <= layers'[r][k].own
    BY <1>1, <1>6, <1>10
  <2>3. ServesOnly(r, cache[r])' /\ cache'[r] # None
    BY <1>1, <1>6 DEF ServesOnly
  <2> QED
    BY <2>1, <2>2, <2>3 DEF RoutesGood
<1> QED
  BY <1>1, <1>2, <1>11, <1>12, <1>13, <1>14, <1>15, OthersInv DEF ReplicaInv

\* Any other head: the remaps are as they were, and d is at most added to the routes.
LEMMA GiveOtherInv ==
    ASSUME DeployInv, NEW r \in Replica, NEW d \in Definition, Gives(r, d),
           Head(queue[r]) # "remap"
    PROVE  DeployInv'
<1>1. /\ Typed /\ ReplicaInv(r) /\ Types(r) /\ Typed' /\ proc[r] # "down"
      /\ cache'[r] = d /\ d # None /\ build'[r] = Free /\ queue'[r] = Tail(queue[r])
      /\ d.own \in Nat /\ d.redis \in Nat
      /\ chan'[r] = chan[r] /\ own'[r] = own[r] /\ excuse'[r] = excuse[r]
      /\ Sure(r)' <=> Sure(r)
      /\ Quiet(r) => d = Current(r)
      /\ \A q \in Replica \ {r} : Same(q)
  BY GivesFacts
<1>2. /\ queue[r] # <<>> /\ UNCHANGED control /\ cache[r] \in {None, d}
      /\ OwnGood(r, d.own) /\ RedisGood(r, d.redis)
  BY DEF Gives
<1>3. queue[r][1] \in {"start", "reader"} /\ Head(queue[r]) = queue[r][1]
  BY <1>1, <1>2, TailLocks DEF ReplicaInv
<1>4. /\ remapping'[r] = remapping[r] /\ remaps'[r] = remaps[r] /\ promised'[r] = promised[r]
      /\ proc'[r] = proc[r] \/ proc'[r] = "up"
      /\ (layers'[r] = layers[r] /\ proc'[r] = proc[r]) \/ layers'[r] = Append(layers[r], d)
  <2>1. CASE Head(queue[r]) = "start"
    <3>1. /\ layers' = [layers EXCEPT ![r] = Append(@, d)]
          /\ proc' = [proc EXCEPT ![r] = "up"]
          /\ UNCHANGED <<remaps, remapping, promised>>
      BY <2>1 DEF Gives, Give
    <3> QED
      BY <1>1, <3>1 DEF Typed
  <2>2. CASE Head(queue[r]) = "reader"
    <3>1. UNCHANGED <<layers, proc, remaps, remapping, promised>>
      BY <2>2 DEF Gives, Give
    <3> QED
      BY <3>1
  <2> QED
    BY <1>3, <2>1, <2>2
<1>5. /\ Len(layers[r]) \in Nat /\ (layers[r] = <<>> <=> Len(layers[r]) = 0)
      /\ \A k \in 1 .. Len(layers'[r]) :
            \/ k \in 1 .. Len(layers[r]) /\ layers'[r][k] = layers[r][k]
            \/ layers'[r][k] = d
      /\ layers[r] # <<>> => layers'[r][1] = layers[r][1]
      /\ layers[r] = <<>> /\ layers'[r] # <<>> => layers'[r][1] = d
  <2>1. layers[r] \in Seq(Definition)
    BY <1>1 DEF Types
  <2>2. /\ Len(Append(layers[r], d)) = Len(layers[r]) + 1
        /\ \A i \in 1 .. Len(layers[r]) : Append(layers[r], d)[i] = layers[r][i]
        /\ Append(layers[r], d)[Len(layers[r]) + 1] = d
        /\ Len(layers[r]) \in Nat /\ (layers[r] = <<>> <=> Len(layers[r]) = 0)
    BY <2>1, Appended
  <2>3. CASE layers'[r] = layers[r]
    BY <2>2, <2>3
  <2>4. CASE layers'[r] = Append(layers[r], d)
    <3>1. ASSUME NEW k \in 1 .. Len(layers'[r])
          PROVE  \/ k \in 1 .. Len(layers[r]) /\ layers'[r][k] = layers[r][k]
                 \/ layers'[r][k] = d
      BY <2>2, <2>4
    <3> QED
      BY <2>2, <2>4, <3>1
  <2> QED
    BY <1>4, <2>3, <2>4
<1>6. Quiet(r)' => Quiet(r)
  BY <1>1, <1>2, <1>4 DEF Quiet, control
<1>7. /\ d.own <= own[r] /\ d.redis <= stored
      /\ layers[r] # <<>> => layers[r][1].own <= d.own /\ layers[r][1].redis <= d.redis
      /\ Sure(r) => promised[r] <= d.own /\ (remapping[r] => remaps[r][1] <= d.own)
  BY <1>2 DEF OwnGood, RedisGood
<1>8. DownIsEmpty(r)' /\ LocksHeld(r)'
  <2>1. \A i \in 1 .. Len(queue'[r]) : queue'[r][i] = "remap" =>
            /\ remapping[r]
            /\ \A j \in 1 .. Len(queue'[r]) : queue'[r][j] = "remap" => i = j
    BY <1>1, <1>2, TailLocks DEF ReplicaInv
  <2>2. DownIsEmpty(r)'
    BY <1>1, <1>4 DEF ReplicaInv, DownIsEmpty
  <2>3. LocksHeld(r)'
    BY <1>1, <1>4, <2>1 DEF ReplicaInv, LocksHeld, Free
  <2> QED
    BY <2>2, <2>3
<1>9. layers'[r] # <<>> => layers'[r][1].own <= d.own /\ layers'[r][1].redis <= d.redis
  BY <1>1, <1>5, <1>7
<1>10. NowGood(r)'
  <2>1. layers[r] # <<>> => layers[r][1].own <= own[r] /\ layers[r][1].redis <= stored
    BY <1>1 DEF ReplicaInv, NowGood
  <2>2. layers'[r] # <<>> => layers'[r][1].own <= own[r] /\ layers'[r][1].redis <= stored
    BY <1>5, <1>7, <2>1
  <2> QED
    BY <1>1, <1>2, <1>4, <2>2 DEF ReplicaInv, NowGood, control
<1>11. CacheGood(r)'
  <2>1. OwnGood(r, cache[r].own)'
    BY <1>1, <1>4, <1>6, <1>7, <1>9 DEF OwnGood, Current
  <2>2. RedisGood(r, cache[r].redis)'
    BY <1>1, <1>2, <1>6, <1>7, <1>9 DEF RedisGood, Current, control
  <2> QED
    BY <2>1, <2>2 DEF CacheGood
<1>12. BuildGood(r)'
  BY <1>1 DEF BuildGood, Free
<1>13. RoutesGood(r)'
  <2>1. Quiet(r)' /\ remaps'[r] = <<>> => ServesOnly(r, Current(r))'
    <3> SUFFICES ASSUME Quiet(r)', remaps'[r] = <<>>
                 PROVE  ServesOnly(r, Current(r))'
      OBVIOUS
    <3>1. d = Current(r) /\ ServesOnly(r, Current(r)) /\ Current(r)' = Current(r)
      BY <1>1, <1>2, <1>4, <1>6 DEF ReplicaInv, RoutesGood, Current, control
    <3> QED
      BY <1>5, <3>1 DEF ServesOnly
  <2>2. Sure(r)' /\ ~remapping'[r] =>
            \A k \in 1 .. Len(layers'[r]) : promised'[r] <= layers'[r][k].own
    BY <1>1, <1>4, <1>5, <1>7 DEF ReplicaInv, RoutesGood
  <2>3. remaps'[r] = <<>> /\ "failed" \notin excuse'[r] => ServesOnly(r, cache[r])'
    <3> SUFFICES ASSUME remaps'[r] = <<>>, "failed" \notin excuse'[r]
                 PROVE  ServesOnly(r, cache[r])'
      OBVIOUS
    <3>1. /\ cache[r] = None => layers[r] = <<>>
          /\ cache[r] # None => ServesOnly(r, cache[r])
      BY <1>1, <1>4 DEF ReplicaInv, RoutesGood
    <3>2. \A k \in 1 .. Len(layers[r]) : layers[r][k] = d
      BY <1>2, <1>5, <3>1 DEF ServesOnly
    <3> QED
      BY <1>1, <1>5, <3>2 DEF ServesOnly
  <2> QED
    BY <1>1, <2>1, <2>2, <2>3 DEF RoutesGood
<1> QED
  BY <1>1, <1>2, <1>8, <1>10, <1>11, <1>12, <1>13, OthersInv DEF ReplicaInv

LEMMA GivesInv ==
    ASSUME DeployInv, NEW r \in Replica, \E d \in Definition : Gives(r, d)
    PROVE  DeployInv'
BY GiveRemapInv, GiveOtherInv

LEMMA ServeGives ==
    ASSUME DeployInv, NEW r \in Replica, Serve(r)
    PROVE  \E d \in Definition : Gives(r, d)
<1>1. Typed /\ ReplicaInv(r) /\ cache[r] # None /\ build[r] = Free
  BY DEF DeployInv, Serve
<1>2. cache[r] \in Definition
  BY <1>1 DEF Typed
<1>3. cache' = [cache EXCEPT ![r] = cache[r]] /\ build' = [build EXCEPT ![r] = Free]
  BY <1>1 DEF Serve, Typed
<1>4. Gives(r, cache[r])
  BY <1>1, <1>3 DEF Gives, Serve, ReplicaInv, CacheGood
<1> QED
  BY <1>2, <1>4

LEMMA BuildDoneGives ==
    ASSUME DeployInv, NEW r \in Replica, BuildDone(r)
    PROVE  \E d \in Definition : Gives(r, d)
<1> DEFINE d == [own |-> build[r].own, redis |-> build[r].redis]
<1>1. Typed /\ ReplicaInv(r) /\ Types(r) /\ build[r].at = "reply"
  BY ReplicaTypes DEF DeployInv, BuildDone
<1>2. d \in Definition
  BY <1>1 DEF Types, Definition
<1>3. queue[r] # <<>> /\ cache[r] = None
  BY <1>1 DEF ReplicaInv, LocksHeld
<1>4. OwnGood(r, d.own) /\ RedisGood(r, d.redis)
  BY <1>1 DEF ReplicaInv, BuildGood
<1>5. Gives(r, d)
  BY <1>3, <1>4 DEF Gives, BuildDone, Finish
<1> QED
  BY <1>2, <1>5

\* Without Redis a build takes the posted definition and is done with it.
LEMMA BuildTakeGives ==
    ASSUME DeployInv, NEW r \in Replica, BuildTake(r), ~redis
    PROVE  \E d \in Definition : Gives(r, d)
<1> DEFINE d == [own |-> own[r], redis |-> 0]
<1>1. Typed /\ ReplicaInv(r) /\ Types(r) /\ build[r].at = "files" /\ stored = 0
  BY ReplicaTypes DEF DeployInv, BuildTake, WithoutRedis
<1>2. d \in Definition
  BY <1>1 DEF Types, Definition
<1>3. queue[r] # <<>> /\ cache[r] = None
  BY <1>1 DEF ReplicaInv, LocksHeld
<1>4. OwnGood(r, d.own)
  <2>1. /\ layers[r] # <<>> => layers[r][1].own <= own[r]
        /\ promised[r] <= own[r]
        /\ remapping[r] => remaps[r][1] <= own[r]
    BY <1>1 DEF ReplicaInv, NowGood, LocksHeld, Types
  <2>2. own[r] <= own[r]
    BY <1>1 DEF Types
  <2> QED
    BY <2>1, <2>2 DEF OwnGood
<1>5. RedisGood(r, d.redis)
  BY <1>1 DEF RedisGood, ReplicaInv, NowGood
<1>6. Gives(r, d)
  BY <1>3, <1>4, <1>5 DEF Gives, BuildTake, Finish
<1> QED
  BY <1>2, <1>6

-----------------------------------------------------------------------------
(* Failures.                                                               *)

LEMMA BuildFailsInv ==
    ASSUME DeployInv, NEW r \in Replica, BuildFails(r)
    PROVE  DeployInv'
<1>1. /\ Typed /\ ReplicaInv(r) /\ Types(r) /\ build[r].at \in {"get", "reply"}
      /\ UNCHANGED control /\ used' \in [Bounded -> Nat]
  BY ReplicaTypes, SpentType DEF DeployInv, BuildFails, Fault, Bounded
<1>2. queue[r] # <<>> /\ cache[r] = None /\ redis /\ queue[r] \in Seq({"start", "remap", "reader"})
  BY <1>1 DEF ReplicaInv, LocksHeld, Types
<1>3. proc[r] # "down"
  BY <1>1, <1>2 DEF ReplicaInv, DownIsEmpty
<1>4. Head(queue[r]) = queue[r][1] /\ 1 \in 1 .. Len(queue[r])
  BY <1>2, HeadTail
<1>5. CASE Gone(r)
  BY <1>1, <1>5, GoneInv
<1>6. CASE /\ Head(queue[r]) = "remap"
           /\ build' = [build EXCEPT ![r] = Free]
           /\ queue' = [queue EXCEPT ![r][1] = "reader"]
           /\ remapping' = [remapping EXCEPT ![r] = FALSE]
           /\ remaps' = [remaps EXCEPT ![r] = Tail(@)]
           /\ excuse' = [excuse EXCEPT ![r] = @ \cup {"failed"}]
           /\ UNCHANGED <<chan, proc, own, cache, layers, promised>>
  <2>1. remapping[r] /\ remaps[r] # <<>> /\ remaps[r] \in Seq(Nat)
    BY <1>1, <1>4, <1>6 DEF ReplicaInv, LocksHeld, Types
  <2>2. /\ Tail(remaps[r]) \in Seq(Nat) /\ Len(Tail(remaps[r])) = Len(remaps[r]) - 1
        /\ Len(remaps[r]) \in Nat \ {0}
        /\ \A i \in 1 .. Len(Tail(remaps[r])) : Tail(remaps[r])[i] = remaps[r][i + 1]
    BY <2>1, HeadTail
  <2>3. /\ queue'[r] = [queue[r] EXCEPT ![1] = "reader"]
        /\ queue'[r] \in Seq({"start", "remap", "reader"}) /\ Len(queue'[r]) = Len(queue[r])
        /\ \A i \in 1 .. Len(queue[r]) : queue'[r][i] = IF i = 1 THEN "reader" ELSE queue[r][i]
    <3>1. queue'[r] = [queue[r] EXCEPT ![1] = "reader"]
      BY <1>1, <1>6 DEF Typed
    <3> QED
      BY <1>2, <1>4, <3>1, ExceptSeq
  <2>4. /\ build'[r] = Free /\ remapping'[r] = FALSE /\ remaps'[r] = Tail(remaps[r])
        /\ "failed" \in excuse'[r]
    BY <1>1, <1>6 DEF Typed
  <2>5. Typed'
    <3>1. queue' \in [Replica -> Seq({"start", "remap", "reader"})]
      BY <1>1, <1>6, <2>3 DEF Typed
    <3>2. remaps' \in [Replica -> Seq(Nat)]
      BY <1>1, <1>6, <2>2 DEF Typed
    <3>3. build' \in [Replica -> [at : {"free", "files", "get", "reply"}, own : Nat, redis : Nat]]
      BY <1>1, <1>6 DEF Typed, Free
    <3> QED
      BY <1>1, <1>6, <3>1, <3>2, <3>3 DEF Typed, control
  <2>6. ~Quiet(r)' /\ ~Sure(r)'
    BY <1>1, <1>2, <2>4 DEF Quiet, Sure, control
  <2>7. \A i \in 1 .. Len(queue'[r]) : queue'[r][i] # "remap"
    BY <1>1, <1>4, <1>6, <2>3 DEF ReplicaInv, LocksHeld
  <2>8. DownIsEmpty(r)' /\ LocksHeld(r)'
    BY <1>1, <1>2, <1>3, <1>6, <2>4, <2>7 DEF DownIsEmpty, LocksHeld, Free, control
  <2>9. NowGood(r)'
    <3>1. ASSUME NEW i \in 1 .. Len(remaps'[r])
          PROVE  remaps'[r][i] <= own[r]
      <4>1. i + 1 \in 1 .. Len(remaps[r])
        BY <2>2, <2>4
      <4> QED
        BY <1>1, <2>2, <2>4, <4>1 DEF ReplicaInv, NowGood
    <3> QED
      BY <1>1, <1>6, <3>1 DEF ReplicaInv, NowGood, control
  <2>10. CacheGood(r)' /\ BuildGood(r)' /\ RoutesGood(r)'
    BY <1>2, <1>6, <2>4, <2>6 DEF CacheGood, BuildGood, RoutesGood, Free
  <2>11. \A q \in Replica \ {r} : Same(q)
    BY <1>1, <1>6 DEF Same, Typed
  <2> QED
    BY <1>1, <2>5, <2>8, <2>9, <2>10, <2>11, OthersInv DEF ReplicaInv
<1>7. CASE /\ Head(queue[r]) = "reader"
           /\ build' = [build EXCEPT ![r] = Free]
           /\ queue' = [queue EXCEPT ![r] = Tail(@)]
           /\ UNCHANGED <<chan, proc, own, cache, serving>>
  <2>1. Tail(queue[r]) \in Seq({"start", "remap", "reader"}) /\ queue'[r] = Tail(queue[r]) /\ build'[r] = Free
    BY <1>1, <1>2, <1>7, HeadTail DEF Typed
  <2>2. UNCHANGED <<control, chan, proc, own, cache, remaps, remapping, layers, excuse, promised>>
    BY <1>1, <1>7 DEF serving
  <2>3. Typed'
    <3>1. queue' \in [Replica -> Seq({"start", "remap", "reader"})]
      BY <1>1, <1>7, <2>1 DEF Typed
    <3>2. build' \in [Replica -> [at : {"free", "files", "get", "reply"}, own : Nat, redis : Nat]]
      BY <1>1, <1>7 DEF Typed, Free
    <3> QED
      BY <1>1, <2>2, <3>1, <3>2 DEF Typed, control
  <2>4. \A i \in 1 .. Len(queue'[r]) : queue'[r][i] = "remap" =>
            /\ remapping[r]
            /\ \A j \in 1 .. Len(queue'[r]) : queue'[r][j] = "remap" => i = j
    BY <1>1, <1>2, <2>1, TailLocks DEF ReplicaInv
  <2>5. DownIsEmpty(r)' /\ LocksHeld(r)' /\ NowGood(r)'
    BY <1>1, <1>3, <2>1, <2>2, <2>4 DEF ReplicaInv, DownIsEmpty, LocksHeld, NowGood, Free, control
  <2>6. Quiet(r)' = Quiet(r) /\ Sure(r)' = Sure(r)
    BY <2>2 DEF Quiet, Sure, control
  <2>7. CacheGood(r)' /\ BuildGood(r)'
    BY <1>2, <2>1, <2>2 DEF CacheGood, BuildGood, Free
  <2>8. RoutesGood(r)'
    BY <1>1, <2>2, <2>6 DEF ReplicaInv, RoutesGood, ServesOnly, Current, control
  <2>9. \A q \in Replica \ {r} : Same(q)
    BY <1>1, <1>7, <2>2 DEF Same, Typed
  <2> QED
    BY <1>1, <2>3, <2>5, <2>7, <2>8, <2>9, OthersInv DEF ReplicaInv
<1> QED
  BY <1>5, <1>6, <1>7 DEF BuildFails

-----------------------------------------------------------------------------
(* Control.                                                                *)

\* A deployment that is stored, announced or lost: no replica is settled then.
LEMMA ControlInv ==
    ASSUME DeployInv, Typed', WithoutRedis', stored <= stored',
           UNCHANGED <<redis, proc, own, loads, remaps, remapping, layers, promised>>,
           \A r \in Replica :
               /\ ~Quiet(r)' /\ (Sure(r)' => Sure(r)) /\ excuse[r] \subseteq excuse'[r]
               /\ proc[r] = "down" => chan'[r] = 0
    PROVE  DeployInv'
<1> SUFFICES ASSUME NEW r \in Replica
             PROVE  ReplicaInv(r)'
  BY DEF DeployInv
<1>1. /\ ReplicaInv(r) /\ Types(r) /\ stored \in Nat /\ stored' \in Nat
      /\ ~Quiet(r)' /\ (Sure(r)' => Sure(r)) /\ excuse[r] \subseteq excuse'[r]
      /\ proc[r] = "down" => chan'[r] = 0
  BY ReplicaTypes DEF DeployInv, Typed
<1>2. UNCHANGED <<redis, proc, own, cache, queue, build, remaps, remapping, layers, promised>>
  BY DEF loads
<1>3. layers[r] # <<>> => layers[r][1].redis \in Nat
  BY <1>1 DEF Types, Definition
<1>4. DownIsEmpty(r)' /\ LocksHeld(r)'
  BY <1>1, <1>2 DEF ReplicaInv, DownIsEmpty, LocksHeld
<1>5. NowGood(r)'
  BY <1>1, <1>2, <1>3 DEF ReplicaInv, NowGood
<1>6. cache[r] # None => OwnGood(r, cache[r].own)' /\ RedisGood(r, cache[r].redis)'
  <2> SUFFICES ASSUME cache[r] # None
               PROVE  OwnGood(r, cache[r].own)' /\ RedisGood(r, cache[r].redis)'
    OBVIOUS
  <2>1. OwnGood(r, cache[r].own) /\ RedisGood(r, cache[r].redis) /\ cache[r].redis \in Nat
    BY <1>1 DEF ReplicaInv, CacheGood, Types, Definition
  <2> QED
    BY <1>1, <1>2, <2>1 DEF OwnGood, RedisGood
<1>7. CacheGood(r)'
  BY <1>2, <1>6 DEF CacheGood
<1>8. BuildGood(r)'
  <2>1. build[r].redis \in Nat
    BY <1>1 DEF Types
  <2> QED
    BY <1>1, <1>2, <2>1 DEF ReplicaInv, BuildGood, OwnGood, RedisGood
<1>9. RoutesGood(r)'
  BY <1>1, <1>2 DEF ReplicaInv, RoutesGood, ServesOnly
<1> QED
  BY <1>4, <1>5, <1>7, <1>8, <1>9 DEF ReplicaInv

LEMMA PutDeploymentInv ==
    ASSUME DeployInv, PutDeployment
    PROVE  DeployInv'
<1>1. Typed /\ stored \in Nat /\ stored' = stored + 1 /\ unsent' = unsent \cup {stored'} /\ redis
  BY DEF DeployInv, Typed, PutDeployment
<1>2. UNCHANGED <<redis, chan, proc, own, loads, remaps, remapping, layers, promised, excuse>>
  BY DEF PutDeployment, serving
<1>3. used' \in [Bounded -> Nat]
  BY <1>1, SpentType DEF PutDeployment, Bounded
<1>4. Typed'
  BY <1>1, <1>2, <1>3 DEF Typed, loads
<1>5. WithoutRedis' /\ stored <= stored'
  BY <1>1, <1>2 DEF WithoutRedis
<1>6. ASSUME NEW r \in Replica
      PROVE  /\ ~Quiet(r)' /\ (Sure(r)' => Sure(r)) /\ excuse[r] \subseteq excuse'[r]
             /\ proc[r] = "down" => chan'[r] = 0
  BY <1>1, <1>2 DEF Quiet, Sure, DeployInv, ReplicaInv, DownIsEmpty
<1> QED
  BY <1>2, <1>4, <1>5, <1>6, ControlInv

LEMMA PublishInv ==
    ASSUME DeployInv, NEW v, NEW lost \in SUBSET Replica, Publish(v, lost)
    PROVE  DeployInv'
<1>1. Typed /\ v \in unsent /\ redis
  BY DEF DeployInv, WithoutRedis, Publish
<1>2. UNCHANGED <<redis, stored, proc, own, loads, remaps, remapping, layers, promised>>
  BY DEF Publish
<1>3. used' \in [Bounded -> Nat]
  BY <1>1, SpentType DEF Publish, Fault, Bounded, Typed
<1>4. /\ unsent' = unsent \ {v}
      /\ chan' = [r \in Replica |-> IF proc[r] # "down" /\ r \notin lost THEN chan[r] + 1 ELSE chan[r]]
      /\ excuse' = [r \in Replica |-> IF r \in lost THEN excuse[r] \cup {"missed"} ELSE excuse[r]]
  BY DEF Publish
<1>5. Typed'
  BY <1>1, <1>2, <1>3, <1>4 DEF Typed, loads
<1>6. WithoutRedis' /\ stored <= stored'
  BY <1>1, <1>2 DEF WithoutRedis, Typed
<1>7. ASSUME NEW r \in Replica
      PROVE  /\ ~Quiet(r)' /\ (Sure(r)' => Sure(r)) /\ excuse[r] \subseteq excuse'[r]
             /\ proc[r] = "down" => chan'[r] = 0
  <2>1. chan[r] \in Nat /\ (proc[r] = "down" => chan[r] = 0)
    BY <1>1 DEF Typed, DeployInv, ReplicaInv, DownIsEmpty
  <2>2. excuse[r] \subseteq excuse'[r] /\ (r \in lost => excuse'[r] # {})
    BY <1>4
  <2>3. proc[r] # "down" /\ r \notin lost => chan'[r] # 0
    BY <1>4, <2>1
  <2> QED
    BY <1>2, <1>4, <2>1, <2>2, <2>3 DEF Quiet, Sure
<1> QED
  BY <1>2, <1>5, <1>6, <1>7, ControlInv

LEMMA ControlDiesInv ==
    ASSUME DeployInv, NEW v, ControlDies(v)
    PROVE  DeployInv'
<1>1. Typed /\ v \in unsent /\ redis
  BY DEF DeployInv, WithoutRedis, ControlDies
<1>2. UNCHANGED <<redis, stored, chan, proc, own, loads, remaps, remapping, layers, promised>>
  BY DEF ControlDies
<1>3. used' \in [Bounded -> Nat]
  BY <1>1, SpentType DEF ControlDies, Fault, Bounded
<1>4. /\ unsent' = unsent \ {v}
      /\ excuse' = [r \in Replica |-> excuse[r] \cup {"missed"}]
  BY DEF ControlDies
<1>5. Typed'
  BY <1>1, <1>2, <1>3, <1>4 DEF Typed, loads
<1>6. WithoutRedis' /\ stored <= stored'
  BY <1>1, <1>2 DEF WithoutRedis, Typed
<1>7. ASSUME NEW r \in Replica
      PROVE  /\ ~Quiet(r)' /\ (Sure(r)' => Sure(r)) /\ excuse[r] \subseteq excuse'[r]
             /\ proc[r] = "down" => chan'[r] = 0
  BY <1>1, <1>2, <1>4 DEF Quiet, Sure, DeployInv, ReplicaInv, DownIsEmpty
<1> QED
  BY <1>2, <1>5, <1>6, <1>7, ControlInv

-----------------------------------------------------------------------------
(* The invariant.                                                          *)

LEMMA InitDeployInv == Init => DeployInv
<1> SUFFICES ASSUME Init
             PROVE  DeployInv
  OBVIOUS
<1>1. Typed /\ WithoutRedis
  BY InitType DEF Init, WithoutRedis
<1>2. ASSUME NEW r \in Replica
      PROVE  ReplicaInv(r)
  <2>1. /\ chan[r] = 0 /\ proc[r] = "down" /\ own[r] = 0 /\ cache[r] = None
        /\ queue[r] = <<>> /\ build[r] = Free /\ remaps[r] = <<>> /\ remapping[r] = FALSE
        /\ layers[r] = <<>> /\ promised[r] = 0 /\ stored = 0
    BY DEF Init
  <2>2. \A i \in 1 .. Len(<<>>) : FALSE
    OBVIOUS
  <2>3. DownIsEmpty(r) /\ LocksHeld(r) /\ NowGood(r)
    BY <2>1, <2>2 DEF DownIsEmpty, LocksHeld, NowGood, Free
  <2>4. CacheGood(r) /\ BuildGood(r) /\ RoutesGood(r)
    BY <2>1, <2>2 DEF CacheGood, BuildGood, RoutesGood, Quiet, Free
  <2> QED
    BY <2>3, <2>4 DEF ReplicaInv
<1> QED
  BY <1>1, <1>2 DEF DeployInv

LEMMA StutterInv ==
    ASSUME DeployInv, UNCHANGED vars
    PROVE  DeployInv'
<1>1. UNCHANGED control /\ Typed'
  BY DEF DeployInv, Typed, vars, control, loads, serving
<1>2. \A q \in Replica : Same(q)
  BY DEF Same, vars, loads, serving
<1>3. \A q \in Replica : ReplicaInv(q)'
  BY <1>1, <1>2, SameInv DEF DeployInv
<1> QED
  BY <1>1, <1>3 DEF DeployInv, WithoutRedis, control

LEMMA LoadStepInv ==
    ASSUME DeployInv, NEW r \in Replica, LoadStep(r)
    PROVE  DeployInv'
<1>1. CASE Serve(r)
  BY <1>1, ServeGives, GivesInv
<1>2. CASE BuildStart(r)
  BY <1>2, BuildStartInv
<1>3. CASE BuildTake(r) /\ redis
  BY <1>3, BuildTakeInv
<1>4. CASE BuildTake(r) /\ ~redis
  BY <1>4, BuildTakeGives, GivesInv
<1>5. CASE RedisServes(r)
  BY <1>5, RedisServesInv
<1>6. CASE BuildDone(r)
  BY <1>6, BuildDoneGives, GivesInv
<1> QED
  BY <1>1, <1>2, <1>3, <1>4, <1>5, <1>6 DEF LoadStep

LEMMA NextDeployInv ==
    ASSUME DeployInv, [Next]_vars
    PROVE  DeployInv'
<1>1. CASE PutDeployment
  BY <1>1, PutDeploymentInv
<1>2. ASSUME NEW v \in unsent, ControlDies(v)
      PROVE  DeployInv'
  BY <1>2, ControlDiesInv
<1>3. ASSUME NEW v \in unsent, NEW lost \in SUBSET Replica, Publish(v, lost)
      PROVE  DeployInv'
  BY <1>3, PublishInv
<1>4. ASSUME NEW r \in Replica, Start(r) \/ Crash(r) \/ BuildFails(r)
      PROVE  DeployInv'
  BY <1>4, StartInv, CrashInv, BuildFailsInv
<1>5. ASSUME NEW r \in Replica, PostDeploy(r) \/ PostRemap(r) \/ Read(r)
      PROVE  DeployInv'
  BY <1>5, PostDeployInv, PostRemapInv, ReadInv
<1>6. ASSUME NEW r \in Replica, Receive(r) \/ RemapBegin(r) \/ LoadStep(r)
      PROVE  DeployInv'
  BY <1>6, ReceiveInv, RemapBeginInv, LoadStepInv
<1>7. CASE UNCHANGED vars
  BY <1>7, StutterInv
<1> QED
  BY <1>1, <1>2, <1>3, <1>4, <1>5, <1>6, <1>7 DEF Next

\* DeployInv holds of every reachable state, whatever the number of replicas, deployments,
\* posts and faults: of the cache, the build under way and the remaps that wait.
THEOREM InvariantHolds == Spec => []DeployInv
BY InitDeployInv, NextDeployInv, PTL DEF Spec

-----------------------------------------------------------------------------
(* What follows.                                                           *)

\* Every variable of DeployReload keeps its type, and one remap and one build at a time are
\* under way at a replica.
THEOREM TypeInvariant == Spec => []TypeOK
<1>1. DeployInv => TypeOK
  BY DEF DeployInv, ReplicaInv, TypeOK
<1> QED
  BY <1>1, InvariantHolds, PTL

\* With every message out and in, and no remap overtaken, failed or missed, a running
\* replica serves the last deployment and the last posted definition and no other.
THEOREM SettledIsLatest == Spec => []SettledServesLatest
<1>1. DeployInv => SettledServesLatest
  BY DEF DeployInv, ReplicaInv, RoutesGood, Quiet, Settled, SettledServesLatest
<1> QED
  BY <1>1, InvariantHolds, PTL

\* The mocks a settled replica lists, those of its cached definitions, are the ones its
\* routes serve, unless its last remap failed.
THEOREM ListedAndServed == Spec => []ListedIsServed
<1>1. DeployInv => ListedIsServed
  BY DEF DeployInv, ReplicaInv, RoutesGood, Settled, ListedIsServed
<1> QED
  BY <1>1, InvariantHolds, PTL

\* POST /__mocko__/deploy answers 204 only once routes of that definition, or of a later
\* one, are in place; with Redis, unless an older build overtook the remap.
THEOREM AnsweredAndServed == Spec => []AnsweredIsServed
<1>1. ASSUME DeployInv, NEW r \in Replica, proc[r] = "up", ~remapping[r],
             redis => excuse[r] = {}, NEW k \in 1 .. Len(layers[r])
      PROVE  layers[r][k].own >= promised[r]
  <2>1. promised[r] <= layers[r][k].own
    BY <1>1 DEF DeployInv, ReplicaInv, RoutesGood, Sure
  <2>2. promised[r] \in Nat /\ layers[r][k].own \in Nat
    BY <1>1, ReplicaTypes DEF DeployInv, Types, Definition
  <2> QED
    BY <2>1, <2>2
<1>2. DeployInv => AnsweredIsServed
  BY <1>1 DEF AnsweredIsServed
<1> QED
  BY <1>2, InvariantHolds, PTL

-----------------------------------------------------------------------------
(* No replica goes back.                                                   *)

\* What NeverGoesBack says of one replica in one step.
Forward(q) ==
    proc[q] # "down" /\ proc'[q] # "down" /\ layers[q] # <<>> /\ layers'[q] # <<>>
        => /\ layers[q][1].redis <= layers'[q][1].redis
           /\ layers[q][1].own <= layers'[q][1].own

LEMMA SameForward ==
    ASSUME DeployInv, NEW q \in Replica, layers'[q] = layers[q]
    PROVE  Forward(q)
<1>1. layers[q] # <<>> => layers[q][1] \in Definition
  BY ReplicaTypes DEF DeployInv, Types
<1>2. layers[q] # <<>> => layers[q][1].redis \in Nat /\ layers[q][1].own \in Nat
  BY <1>1 DEF Definition
<1> QED
  BY <1>2 DEF Forward

\* Definitions given out are no older than those the routes came from: OwnGood, RedisGood.
LEMMA GivesForward ==
    ASSUME DeployInv, NEW r \in Replica, NEW d \in Definition, Gives(r, d), NEW q \in Replica
    PROVE  Forward(q)
<1>1. CASE q # r
  BY <1>1, GivesFacts, SameForward DEF Same
<1>2. CASE q = r
  <2>1. /\ Typed /\ Types(r) /\ queue[r] # <<>> /\ Give(r, d)
        /\ layers[r] # <<>> => layers[r][1].own <= d.own /\ layers[r][1].redis <= d.redis
    BY GivesFacts DEF Gives, OwnGood, RedisGood
  <2>2. Head(queue[r]) \in {"start", "remap", "reader"}
    BY <2>1, HeadTail DEF Types
  <2>3. CASE Head(queue[r]) = "remap"
    <3>1. layers'[r] = <<d>>
      BY <2>1, <2>3 DEF Give, Typed
    <3> QED
      BY <1>2, <2>1, <3>1, OneElement DEF Forward
  <2>4. CASE Head(queue[r]) = "start"
    <3>1. layers'[r] = Append(layers[r], d) /\ layers[r] \in Seq(Definition)
      BY <2>1, <2>4 DEF Give, Typed
    <3>2. layers[r] # <<>> => layers'[r][1] = layers[r][1] /\ layers[r][1] \in Definition
      BY <2>1, <3>1, Appended DEF Types
    <3>3. layers[r] # <<>> => layers[r][1].redis \in Nat /\ layers[r][1].own \in Nat
      BY <3>2 DEF Definition
    <3> QED
      BY <1>2, <3>2, <3>3 DEF Forward
  <2>5. CASE Head(queue[r]) = "reader"
    <3>1. layers'[r] = layers[r]
      BY <2>1, <2>5 DEF Give
    <3> QED
      BY <1>2, <3>1, SameForward
  <2> QED
    BY <2>2, <2>3, <2>4, <2>5
<1> QED
  BY <1>1, <1>2

LEMMA GoneForward ==
    ASSUME DeployInv, NEW r \in Replica, Gone(r), NEW q \in Replica
    PROVE  Forward(q)
<1>1. proc'[r] = "down" /\ (q # r => layers'[q] = layers[q])
  BY DEF DeployInv, Typed, Gone
<1> QED
  BY <1>1, SameForward DEF Forward

LEMMA NextForward ==
    ASSUME DeployInv, [Next]_vars, NEW q \in Replica
    PROVE  Forward(q)
<1>1. CASE UNCHANGED layers
  BY <1>1, SameForward
<1>2. CASE \E r \in Replica : Serve(r) \/ BuildDone(r) \/ (BuildTake(r) /\ ~redis)
  BY <1>2, ServeGives, BuildDoneGives, BuildTakeGives, GivesForward
<1>3. CASE \E r \in Replica : Gone(r)
  BY <1>3, GoneForward
<1>4. PutDeployment => UNCHANGED layers
  BY DEF PutDeployment, serving
<1>5. ASSUME NEW v \in unsent, ControlDies(v) \/ \E lost \in SUBSET Replica : Publish(v, lost)
      PROVE  UNCHANGED layers
  BY <1>5 DEF ControlDies, Publish
<1>6. ASSUME NEW r \in Replica, Start(r) \/ Crash(r) \/ BuildFails(r)
      PROVE  UNCHANGED layers \/ Gone(r)
  BY <1>6 DEF Start, Crash, BuildFails, serving
<1>7. ASSUME NEW r \in Replica, PostDeploy(r) \/ PostRemap(r) \/ Read(r)
      PROVE  UNCHANGED layers
  BY <1>7 DEF PostDeploy, PostRemap, Read, serving
<1>8. ASSUME NEW r \in Replica, Receive(r) \/ RemapBegin(r)
      PROVE  UNCHANGED layers
  BY <1>8 DEF Receive, RemapBegin
<1>9. ASSUME NEW r \in Replica, LoadStep(r)
      PROVE  UNCHANGED layers \/ Serve(r) \/ BuildDone(r) \/ (BuildTake(r) /\ ~redis)
  BY <1>9 DEF LoadStep, BuildStart, BuildTake, RedisServes, serving
<1>10. UNCHANGED vars => UNCHANGED layers
  BY DEF vars, serving
<1> QED
  BY <1>1, <1>2, <1>3, <1>4, <1>5, <1>6, <1>7, <1>8, <1>9, <1>10 DEF Next

\* As long as its process lives, a replica never serves an older deployment, nor an older
\* posted definition, than the one it served before.
THEOREM NoReplicaGoesBack == Spec => NeverGoesBack
<1>1. DeployInv /\ [Next]_vars =>
          [\A r \in Replica :
              proc[r] # "down" /\ proc'[r] # "down" /\ layers[r] # <<>> /\ layers'[r] # <<>>
                  => /\ layers[r][1].redis <= layers'[r][1].redis
                     /\ layers[r][1].own <= layers'[r][1].own]_vars
  BY NextForward DEF Forward
<1> QED
  BY <1>1, InvariantHolds, PTL DEF Spec, NeverGoesBack

=============================================================================
