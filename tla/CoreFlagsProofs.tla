--------------------------- MODULE CoreFlagsProofs ---------------------------
(***************************************************************************)
(* CoreFlags implements FlagStore, for any keys, values, clients, listings *)
(* and bounds.  An expired entry is Absent to whoever looks (Look), so     *)
(* removing it is a stutter; the clock is what makes a flag disappear.     *)
(* And its listings tell what they promise: FlagsInv is the inductive      *)
(* invariant, about what SCAN has returned, counted and still to return.   *)
(***************************************************************************)
EXTENDS CoreFlags, FiniteSetTheorems, TLAPS

\* What the proofs need of CoreFlagsAssumption.
LEMMA Given ==
    /\ Lifetimes \subseteq Nat \ {0} /\ Limit \in Nat \ {0}
    /\ Search \subseteq SUBSET Key /\ None \notin Value \cup Key
BY CoreFlagsAssumption, Zenon

LEMMA GivenLifetimes == \A ttl \in Lifetimes \cup {0} : ttl \in Nat
BY Given

LEMMA InitType == Init => TypeOK
BY Given DEF Init, TypeOK, Entry, Absent

\* What a look finds has a type, and is live or Absent.
LEMMA LookType ==
    ASSUME TypeOK, NEW k \in Key
    PROVE  /\ Look(k) \in Entry
           /\ Look(k).until \in Nat
           /\ Look(k).value \in Value \cup {None}
           /\ Look(k) = Absent <=> ~Live(k)
           /\ Look(k).until = 0 \/ Look(k).until > now
<1>1. flags[k] \in Entry /\ Absent \in Entry /\ now \in Nat
  BY DEF TypeOK, Entry
<1>2. CASE Live(k)
  BY <1>1, <1>2 DEF Look, Live, Entry, Absent
<1>3. CASE ~Live(k)
  BY <1>1, <1>3 DEF Look, Entry, Absent
<1> QED
  BY <1>2, <1>3

LEMMA StepType == TypeOK /\ [Next]_vars => TypeOK'
<1> SUFFICES ASSUME TypeOK, [Next]_vars
             PROVE  TypeOK'
  OBVIOUS
<1> USE DEF TypeOK
<1>0. Absent \in Entry
  BY DEF Entry
<1>1. ASSUME NEW c \in Client, NEW k \in Key, NEW v \in Value, NEW ttl \in Lifetimes \cup {0},
             Set(c, k, v, ttl) \/ SetLost(c, k, v, ttl)
      PROVE  TypeOK'
  <2>1. now + ttl \in Nat /\ Look(k).until \in Nat
    BY GivenLifetimes, LookType
  <2>2. [value |-> v, until |-> Expiration(k, ttl)] \in Entry
    BY <2>1 DEF Expiration, Entry
  <2> QED
    BY <1>1, <2>2 DEF Set, SetLost, Write
<1>2. ASSUME NEW c \in Client, SetAnswer(c) \/ Fails(c)
      PROVE  TypeOK'
  BY <1>2 DEF SetAnswer, Fails
<1>3. ASSUME NEW c \in Client, NEW k \in Key, Get(c, k)
      PROVE  TypeOK'
  BY <1>3, LookType DEF Get
<1>4. ASSUME NEW c \in Client, NEW k \in Key, Delete(c, k) \/ DeleteLost(c, k)
      PROVE  TypeOK'
  BY <1>0, <1>4 DEF Delete, DeleteLost, Remove
<1>5. ASSUME NEW l \in Lister, NEW p \in Prefix, NEW search \in Search, ListMemory(l, p, search)
      PROVE  TypeOK'
  <2>1. \A k \in Key : Look(k) \in Entry /\ flags[k] \in Entry
    BY LookType
  <2> QED
    BY <1>5, <2>1 DEF ListMemory
<1>6. ASSUME NEW l \in Lister,
             \/ \E p \in Prefix, search \in Search : ListStart(l, p, search)
             \/ \E k \in Key : ListKey(l, k)
             \/ ListEnd(l)
      PROVE  TypeOK'
  BY <1>6 DEF ListStart, ListKey, ListEnd
<1>7. ASSUME NEW k \in Key, Evict(k)
      PROVE  TypeOK'
  BY <1>7, LookType DEF Evict
<1>8. CASE Tick
  BY <1>8 DEF Tick
<1>9. CASE Restart
  BY <1>0, <1>9 DEF Restart
<1>10. CASE UNCHANGED vars
  BY <1>10 DEF vars
<1> QED
  BY <1>1, <1>2, <1>3, <1>4, <1>5, <1>6, <1>7, <1>8, <1>9, <1>10 DEF Next

\* TypeOK: a flag is a value with an end that is a number, or nothing at all, and an
\* entry that was removed leaves no end behind (set(), del(), getLive()).
THEOREM TypeInvariant == Spec => []TypeOK
<1> QED
  BY InitType, StepType, PTL DEF Spec

-----------------------------------------------------------------------------
(* What everybody sees.                                                    *)

Shown == [k \in Key |-> Look(k)]

\* What is seen of k depends on its entry and the clock only.
LEMMA SameLook ==
    ASSUME NEW k \in Key, flags'[k] = flags[k], now' = now
    PROVE  Look(k)' = Look(k)
BY DEF Look, Live

\* An entry replaced by what a look finds shows the same.
LEMMA LookTwice ==
    ASSUME NEW k \in Key, flags'[k] = Look(k), now' = now
    PROVE  Look(k)' = Look(k)
BY DEF Look, Live, Absent

\* An entry that was removed is Absent.
LEMMA LookRemoved ==
    ASSUME NEW k \in Key, flags'[k] = Absent
    PROVE  Look(k)' = Absent
BY DEF Look, Live, Absent

LEMMA ShownSame ==
    ASSUME \A k \in Key : Look(k)' = Look(k)
    PROVE  Shown' = Shown
BY DEF Shown

LEMMA ShownEntry ==
    ASSUME NEW k \in Key, NEW e, Look(k)' = e, \A j \in Key \ {k} : Look(j)' = Look(j)
    PROVE  Shown' = [Shown EXCEPT ![k] = e]
<1>1. \A j \in Key : Shown'[j] = [Shown EXCEPT ![k] = e][j]
  BY DEF Shown
<1> QED
  BY <1>1 DEF Shown

LEMMA InitShown == Init => Store!Init
<1> SUFFICES ASSUME Init PROVE Store!Init
  OBVIOUS
<1>1. \A k \in Key : Look(k) = Store!Absent
  BY DEF Init, Look, Absent, Store!Absent
<1> QED
  BY <1>1 DEF Init, Store!Init

\* A write shows at once and as a whole, with the end FlagStore gives it.
LEMMA WriteShown ==
    ASSUME TypeOK, NEW k \in Key, NEW v \in Value, NEW ttl \in Lifetimes \cup {0},
           Write(k, v, ttl), now' = now
    PROVE  Shown' = Store!Written(k, v, ttl)
<1> DEFINE e == [value |-> v, until |-> Expiration(k, ttl)]
<1>1. now \in Nat /\ ttl \in Nat /\ v # None
  BY Given, GivenLifetimes DEF TypeOK
<1>2. Expiration(k, ttl) \in Nat /\ (Expiration(k, ttl) = 0 \/ Expiration(k, ttl) > now)
  BY <1>1, LookType DEF Expiration
<1>3. flags'[k] = e /\ \A j \in Key \ {k} : flags'[j] = flags[j]
  BY DEF Write, TypeOK
<1>4. Look(k)' = e
  BY <1>1, <1>2, <1>3 DEF Look, Live
<1>5. \A j \in Key \ {k} : Look(j)' = Look(j)
  BY <1>3, SameLook
<1>6. Shown' = [Shown EXCEPT ![k] = e]
  BY <1>4, <1>5, ShownEntry
<1>7. e = [value |-> v, until |-> IF ttl > 0 THEN now + ttl ELSE Shown[k].until]
  BY DEF Expiration, Shown
<1> QED
  BY <1>6, <1>7 DEF Store!Written, Shown

LEMMA RemoveShown ==
    ASSUME TypeOK, NEW k \in Key, Remove(k), now' = now
    PROVE  Shown' = Store!Removed(k)
<1>1. flags'[k] = Absent /\ \A j \in Key \ {k} : flags'[j] = flags[j]
  BY DEF Remove, TypeOK
<1>2. Look(k)' = Absent
  BY <1>1, LookRemoved
<1>3. \A j \in Key \ {k} : Look(j)' = Look(j)
  BY <1>1, SameLook
<1>4. Shown' = [Shown EXCEPT ![k] = Absent]
  BY <1>2, <1>3, ShownEntry
<1> QED
  BY <1>4 DEF Store!Removed, Store!Absent, Absent, Shown

LEMMA SetShown ==
    ASSUME TypeOK, NEW c \in Client, NEW k \in Key, NEW v \in Value,
           NEW ttl \in Lifetimes \cup {0}, Set(c, k, v, ttl)
    PROVE  Store!Set(c, k, v, ttl)
<1>1. Write(k, v, ttl) /\ now' = now /\ redis' = redis /\ wrote[c] = None
  BY DEF Set
<1>2. Shown' = Store!Written(k, v, ttl)
  BY <1>1, WriteShown
<1>3. \/ wrote' = [wrote EXCEPT ![c] = k] /\ UNCHANGED said
      \/ said' = "ok" /\ UNCHANGED wrote
  BY DEF Set
<1> QED
  BY <1>1, <1>2, <1>3 DEF Store!Set, Shown

\* A command that took effect shows, however it was answered.
LEMMA LostShown ==
    ASSUME TypeOK, NEW c \in Client, NEW k \in Key,
           \/ DeleteLost(c, k)
           \/ \E v \in Value, ttl \in Lifetimes \cup {0} : SetLost(c, k, v, ttl)
    PROVE  Store!Lost
<1>1. /\ redis /\ redis' = redis /\ wrote[c] = None /\ wrote' = wrote
      /\ said' = "failed" /\ now' = now
  BY DEF DeleteLost, SetLost
<1>2. \/ Shown' = Store!Removed(k)
      \/ \E v \in Value, ttl \in Lifetimes \cup {0} : Shown' = Store!Written(k, v, ttl)
  BY <1>1, RemoveShown, WriteShown DEF DeleteLost, SetLost
<1> QED
  BY <1>1, <1>2 DEF Store!Lost, Shown

LEMMA FailsShown ==
    ASSUME TypeOK, NEW c \in Client, Fails(c)
    PROVE  Store!Fails(c)
<1>1. Shown' = Shown
  BY SameLook, ShownSame DEF Fails
<1> QED
  BY <1>1 DEF Fails, Store!Fails, Shown

LEMMA AnswerShown ==
    ASSUME TypeOK, NEW c \in Client, SetAnswer(c)
    PROVE  Store!Answer(c)
<1>1. wrote[c] \in Key
  BY DEF TypeOK, SetAnswer
<1>2. Shown[wrote[c]] = Store!Absent <=> ~Live(wrote[c])
  BY <1>1, LookType DEF Shown, Absent, Store!Absent
<1>3. Shown' = Shown
  BY SameLook, ShownSame DEF SetAnswer
<1> QED
  BY <1>2, <1>3 DEF SetAnswer, Store!Answer, Shown

LEMMA GetShown ==
    ASSUME TypeOK, NEW c \in Client, NEW k \in Key, Get(c, k)
    PROVE  Store!Get(c, k)
<1>1. flags'[k] = Look(k) /\ (\A j \in Key \ {k} : flags'[j] = flags[j]) /\ now' = now
  BY DEF Get, TypeOK
<1>2. \A j \in Key : Look(j)' = Look(j)
  BY <1>1, SameLook, LookTwice
<1>3. Shown' = Shown
  BY <1>2, ShownSame
<1>4. said' = Shown[k].value
  BY DEF Get, Shown
<1> QED
  BY <1>3, <1>4 DEF Get, Store!Get, Shown

LEMMA DeleteShown ==
    ASSUME TypeOK, NEW c \in Client, NEW k \in Key, Delete(c, k)
    PROVE  Store!Delete(c, k)
<1>1. Shown' = Store!Removed(k)
  BY RemoveShown DEF Delete
<1> QED
  BY <1>1 DEF Delete, Store!Delete, Shown

LEMMA TickShown ==
    ASSUME TypeOK, Tick
    PROVE  Store!Tick
<1>1. now \in Nat /\ now' = now + 1 /\ flags' = flags
  BY DEF TypeOK, Tick
<1>2. ASSUME NEW k \in Key
      PROVE  Look(k)' = IF Look(k).until = now' THEN Absent ELSE Look(k)
  <2>1. flags[k] \in Entry
    BY DEF TypeOK
  <2>2. CASE Live(k)
    <3>1. flags[k].until \in Nat
      BY <2>1 DEF Entry, Absent
    <3>2. Live(k)' <=> flags[k].until # now'
      BY <1>1, <2>2, <3>1 DEF Live
    <3> QED
      BY <1>1, <2>2, <3>2 DEF Look
  <2>3. CASE ~Live(k)
    <3>1. flags[k].until \in Nat
      BY <2>1 DEF Entry, Absent
    <3>2. ~Live(k)'
      BY <1>1, <2>3, <3>1 DEF Live
    <3>3. Look(k) = Absent /\ Look(k)' = Absent
      BY <2>3, <3>2 DEF Look
    <3> QED
      BY <3>3
  <2> QED
    BY <2>2, <2>3
<1>3. Shown' = [k \in Key |-> IF Shown[k].until = now' THEN Absent ELSE Shown[k]]
  BY <1>2 DEF Shown
<1> QED
  BY <1>1, <1>3 DEF Tick, Store!Tick, Store!Absent, Absent, Shown

LEMMA RestartShown ==
    ASSUME TypeOK, Restart
    PROVE  Store!Restart
<1>1. now' = now /\ UNCHANGED <<redis, said>> /\ wrote' = [c \in Client |-> None]
  BY DEF Restart
<1>2. CASE redis
  <2>1. Shown' = Shown
    BY <1>1, <1>2, SameLook, ShownSame DEF Restart
  <2> QED
    BY <1>1, <1>2, <2>1 DEF Store!Restart, Shown
<1>3. CASE ~redis
  <2>1. \A k \in Key : Look(k)' = Absent
    BY <1>3, LookRemoved DEF Restart
  <2>2. Shown' = [k \in Key |-> Absent]
    BY <2>1 DEF Shown
  <2> QED
    BY <1>1, <1>3, <2>2 DEF Store!Restart, Store!Absent, Absent, Shown
<1> QED
  BY <1>2, <1>3

\* Listing and removing what has expired show nothing.
LEMMA StutterShown ==
    ASSUME TypeOK, UNCHANGED <<redis, now, wrote, said>>,
           \A k \in Key : flags'[k] = flags[k] \/ flags'[k] = Look(k)
    PROVE  UNCHANGED Store!vars
<1>1. Shown' = Shown
  BY SameLook, LookTwice, ShownSame
<1> QED
  BY <1>1 DEF Store!vars, Shown

LEMMA ListShown ==
    ASSUME TypeOK, NEW l \in Lister,
           \/ \E p \in Prefix, search \in Search : ListMemory(l, p, search) \/ ListStart(l, p, search)
           \/ \E k \in Key : ListKey(l, k)
           \/ ListEnd(l)
    PROVE  UNCHANGED Store!vars
<1>1. CASE \E p \in Prefix, search \in Search : ListMemory(l, p, search)
  <2>1. \A k \in Key : flags'[k] = flags[k] \/ flags'[k] = Look(k)
    BY <1>1 DEF ListMemory
  <2> QED
    BY <1>1, <2>1, StutterShown DEF ListMemory
<1>2. CASE flags' = flags /\ UNCHANGED <<redis, now, wrote, said>>
  BY <1>2, StutterShown
<1> QED
  BY <1>1, <1>2 DEF ListStart, ListKey, ListEnd

LEMMA StepShown == TypeOK /\ [Next]_vars => [Store!Next]_(Store!vars)
<1> SUFFICES ASSUME TypeOK, [Next]_vars
             PROVE  Store!Next \/ UNCHANGED Store!vars
  OBVIOUS
<1>1. CASE \E c \in Client, k \in Key, v \in Value, ttl \in Lifetimes \cup {0} : Set(c, k, v, ttl)
  BY <1>1, SetShown DEF Store!Next
<1>9. CASE \E c \in Client, k \in Key :
             \/ DeleteLost(c, k)
             \/ \E v \in Value, ttl \in Lifetimes \cup {0} : SetLost(c, k, v, ttl)
  BY <1>9, LostShown DEF Store!Next
<1>2. CASE \E c \in Client, k \in Key : Get(c, k) \/ Delete(c, k)
  BY <1>2, GetShown, DeleteShown DEF Store!Next
<1>3. CASE \E c \in Client : SetAnswer(c) \/ Fails(c)
  BY <1>3, AnswerShown, FailsShown DEF Store!Next
<1>4. CASE \E l \in Lister :
             \/ \E p \in Prefix, search \in Search : ListMemory(l, p, search) \/ ListStart(l, p, search)
             \/ \E k \in Key : ListKey(l, k)
             \/ ListEnd(l)
  BY <1>4, ListShown
<1>5. CASE \E k \in Key : Evict(k)
  <2>1. \A k \in Key : flags'[k] = flags[k] \/ flags'[k] = Look(k)
    BY <1>5 DEF Evict, TypeOK
  <2> QED
    BY <1>5, <2>1, StutterShown DEF Evict
<1>6. CASE Tick
  BY <1>6, TickShown DEF Store!Next
<1>7. CASE Restart
  BY <1>7, RestartShown DEF Store!Next
<1>8. CASE UNCHANGED vars
  BY <1>8, StutterShown DEF vars
<1> QED
  BY <1>1, <1>2, <1>3, <1>4, <1>5, <1>6, <1>7, <1>8, <1>9 DEF Next

\* ImplementsFlagStore: whichever repository keeps the flags, however late an expired entry
\* is removed, and whatever commands of Redis fail or lose their reply, clients see what
\* FlagStore promises.
THEOREM FlagStoreImplemented == Spec => ImplementsFlagStore
<1>1. TypeOK /\ [Next]_vars => [Store!Next]_(Store!vars)
  BY StepShown
<1> QED
  BY InitShown, <1>1, TypeInvariant, PTL DEF Spec, Store!Spec, ImplementsFlagStore

-----------------------------------------------------------------------------
(* Counting looks.                                                         *)

\* The looks at keys, the first of each key numbered 1.
LooksOf(seen, keys) == UNION {{k} \X (1 .. seen[k]) : k \in keys}

Counts == [Key -> Nat]
Counted(seen) == {k \in Key : seen[k] > 0}

LEMMA LookOf ==
    ASSUME NEW seen \in Counts, NEW keys \in SUBSET Key, NEW o
    PROVE  o \in LooksOf(seen, keys) <=>
             \E k \in keys, n \in Nat : 1 <= n /\ n <= seen[k] /\ o = <<k, n>>
<1>1. \A k \in keys : seen[k] \in Nat
  BY DEF Counts
<1> QED
  BY <1>1 DEF LooksOf

LEMMA LooksFinite ==
    ASSUME NEW seen \in Counts, NEW keys \in SUBSET Key, IsFiniteSet(keys)
    PROVE  IsFiniteSet(LooksOf(seen, keys)) /\ Looks(seen, keys) \in Nat
<1> DEFINE f == [k \in keys |-> {k} \X (1 .. seen[k])]
           T == {{k} \X (1 .. seen[k]) : k \in keys}
<1>1. f \in Surjection(keys, T)
  BY DEF Surjection
<1>2. IsFiniteSet(T)
  BY <1>1, FS_Surjection
<1>3. ASSUME NEW t \in T PROVE IsFiniteSet(t)
  <2>1. PICK k \in keys : t = {k} \X (1 .. seen[k])
    OBVIOUS
  <2>2. seen[k] \in Nat
    BY DEF Counts
  <2>3. IsFiniteSet({k}) /\ IsFiniteSet(1 .. seen[k])
    <3>1. IsFiniteSet({k})
      BY FS_Singleton
    <3>2. 1 \in Int /\ seen[k] \in Int
      BY <2>2
    <3> QED
      BY <3>1, <3>2, FS_Interval
  <2> QED
    BY <2>1, <2>3, FS_Product
<1>4. IsFiniteSet(UNION T)
  <2> HIDE DEF T
  <2> QED
    BY <1>2, <1>3, FS_UNION
<1> QED
  BY <1>4, FS_CardinalityType DEF LooksOf, Looks

\* One more look at a key of keys is one more look, and one at another key is none.
LEMMA LookAgain ==
    ASSUME NEW seen \in Counts, NEW keys \in SUBSET Key, IsFiniteSet(keys), NEW k \in Key
    PROVE  LET next == [seen EXCEPT ![k] = @ + 1] IN
           Looks(next, keys) = Looks(seen, keys) + (IF k \in keys THEN 1 ELSE 0)
<1> DEFINE next == [seen EXCEPT ![k] = @ + 1]
           o == <<k, seen[k] + 1>>
<1>1. \A j \in Key : seen[j] \in Nat /\ next[j] = IF j = k THEN seen[k] + 1 ELSE seen[j]
  BY DEF Counts
<1>0. next \in Counts
  BY DEF Counts
<1> HIDE DEF next
<1>2. IsFiniteSet(LooksOf(seen, keys)) /\ Looks(seen, keys) = Cardinality(LooksOf(seen, keys))
  BY LooksFinite DEF Looks, LooksOf
<1>3. Looks(next, keys) = Cardinality(LooksOf(next, keys))
  BY DEF Looks, LooksOf
<1>4. CASE k \in keys
  <2>1. o \notin LooksOf(seen, keys)
    BY <1>1, LookOf
  <2>2. LooksOf(next, keys) = LooksOf(seen, keys) \cup {o}
    <3>1. ASSUME NEW q \in LooksOf(next, keys) PROVE q \in LooksOf(seen, keys) \cup {o}
      <4>1. PICK j \in keys, n \in Nat : 1 <= n /\ n <= next[j] /\ q = <<j, n>>
        BY <1>0, <3>1, LookOf
      <4>2. (j = k /\ n = seen[k] + 1) \/ n <= seen[j]
        BY <1>1, <4>1
      <4> QED
        BY <4>1, <4>2, LookOf
    <3>2. ASSUME NEW q \in LooksOf(seen, keys) PROVE q \in LooksOf(next, keys)
      <4>1. PICK j \in keys, n \in Nat : 1 <= n /\ n <= seen[j] /\ q = <<j, n>>
        BY <3>2, LookOf
      <4>2. n <= next[j]
        BY <1>1, <4>1
      <4> QED
        BY <1>0, <4>1, <4>2, LookOf
    <3>3. o \in LooksOf(next, keys)
      <4>1. seen[k] + 1 \in Nat /\ 1 <= seen[k] + 1 /\ seen[k] + 1 <= next[k]
        BY <1>1
      <4> QED
        BY <1>0, <1>4, <4>1, LookOf
    <3> QED
      BY <3>1, <3>2, <3>3
  <2>3. Cardinality(LooksOf(seen, keys) \cup {o}) = Cardinality(LooksOf(seen, keys)) + 1
    <3> HIDE DEF o
    <3> QED
      BY <1>2, <2>1, FS_AddElement
  <2> QED
    BY <1>2, <1>3, <1>4, <2>2, <2>3 DEF next
<1>5. CASE k \notin keys
  <2>1. \A j \in keys : next[j] = seen[j]
    BY <1>1, <1>5
  <2>2. LooksOf(next, keys) = LooksOf(seen, keys)
    BY <2>1 DEF LooksOf
  <2>3. Looks(seen, keys) \in Nat
    BY LooksFinite
  <2> QED
    BY <1>2, <1>3, <1>5, <2>2, <2>3 DEF next
<1> QED
  BY <1>4, <1>5

\* A key that nobody looked at has no looks.
LEMMA LooksUnseen ==
    ASSUME NEW seen \in Counts, NEW keys \in SUBSET Key, NEW k \in Key, seen[k] = 0
    PROVE  Looks(seen, keys \cup {k}) = Looks(seen, keys)
<1>1. LooksOf(seen, keys \cup {k}) = LooksOf(seen, keys)
  <2>1. ASSUME NEW q \in LooksOf(seen, keys \cup {k}) PROVE q \in LooksOf(seen, keys)
    <3>1. PICK j \in keys \cup {k}, n \in Nat : 1 <= n /\ n <= seen[j] /\ q = <<j, n>>
      BY <2>1, LookOf
    <3>2. j # k
      BY <3>1
    <3> QED
      BY <3>1, <3>2, LookOf
  <2>2. ASSUME NEW q \in LooksOf(seen, keys) PROVE q \in LooksOf(seen, keys \cup {k})
    BY <2>2, LookOf
  <2> QED
    BY <2>1, <2>2
<1> QED
  BY <1>1 DEF Looks, LooksOf

\* Keys that were looked at have at least a look each, and no more where no key has more.
LEMMA LooksBound ==
    ASSUME NEW seen \in Counts, NEW keys \in SUBSET Counted(seen), IsFiniteSet(keys)
    PROVE  /\ Looks(seen, keys) \in Nat /\ Cardinality(keys) \in Nat
           /\ Looks(seen, keys) >= Cardinality(keys)
           /\ (\A k \in keys : seen[k] = 1) => Looks(seen, keys) = Cardinality(keys)
<1> DEFINE f == [k \in keys |-> <<k, 1>>]
           T == LooksOf(seen, keys)
<1>1. \A k \in keys : k \in Key /\ seen[k] \in Nat /\ seen[k] > 0
  BY DEF Counted, Counts
<1>2. IsFiniteSet(T) /\ Looks(seen, keys) = Cardinality(T) /\ Looks(seen, keys) \in Nat
  <2>1. keys \in SUBSET Key
    BY <1>1
  <2> QED
    BY <2>1, LooksFinite DEF Looks, LooksOf
<1>3. f \in Injection(keys, T)
  <2>1. keys \in SUBSET Key /\ \A k \in keys : 1 <= seen[k]
    BY <1>1
  <2>2. \A k \in keys : <<k, 1>> \in T
    BY <2>1, LookOf
  <2> HIDE DEF T
  <2> QED
    BY <2>2 DEF Injection, IsInjective
<1>4. Cardinality(keys) <= Cardinality(T) /\ (Cardinality(keys) = Cardinality(T) <=> f \in Surjection(keys, T))
  <2> HIDE DEF T, f
  <2> QED
    BY <1>2, <1>3, FS_Injection
<1>5. Cardinality(keys) \in Nat
  BY FS_CardinalityType
<1>6. ASSUME \A k \in keys : seen[k] = 1 PROVE f \in Surjection(keys, T)
  <2>0. keys \in SUBSET Key
    BY <1>1
  <2>1. ASSUME NEW q \in T PROVE \E k \in keys : f[k] = q
    <3>1. PICK k \in keys, n \in Nat : 1 <= n /\ n <= seen[k] /\ q = <<k, n>>
      BY <2>0, <2>1, LookOf
    <3>2. n = 1
      BY <1>6, <3>1
    <3> QED
      BY <3>1, <3>2
  <2>2. f \in [keys -> T]
    BY <1>3 DEF Injection
  <2> QED
    BY <2>1, <2>2 DEF Surjection
<1> QED
  BY <1>2, <1>4, <1>5, <1>6

-----------------------------------------------------------------------------
(* Listing.                                                                *)

\* How long the list is that the loop makes.
Length(seen, p, search) ==
    Cardinality(Groups(seen, p, search)) + Looks(seen, Flags(seen, p, search))

ListRecord ==
    [pc : {"idle", "scan", "told"}, prefix : Prefix \cup {<<>>}, search : SUBSET Key,
     left : SUBSET Key, seen : Counts, stay : SUBSET Key]

\* SCAN still has to return what was there all the time and was not looked at, and the
\* list is not full.
Scanning(r) ==
    /\ redis
    /\ r.stay \subseteq r.left \cup Counted(r.seen)
    /\ ~Full(r.seen, r.prefix, r.search)

\* What ListTells says of one listing.
Tells(r) ==
    LET told == Flags(r.seen, r.prefix, r.search)
        groups == Groups(r.seen, r.prefix, r.search)
        named(name) == {k \in r.stay : Section(k, r.prefix) = name}
    IN  /\ ~Full(r.seen, r.prefix, r.search) =>
            \A k \in r.stay :
                LET name == Section(k, r.prefix) IN
                /\ k \in r.search => k \in told \/ name \in groups
                /\ Total(r.seen, r.prefix, name) >= Cardinality(named(name))
                /\ ~redis => Total(r.seen, r.prefix, name) = Cardinality(named(name))
        /\ Cardinality(groups) + Looks(r.seen, told) <= Limit

ListOK(r) ==
    /\ r \in ListRecord /\ IsFiniteSet(Counted(r.seen))
    /\ r.pc = "scan" => Scanning(r)
    /\ r.pc = "told" => Tells(r)

\* There are finitely many entries, so there is an end to them.
FlagsInv ==
    /\ IsFiniteSet({k \in Key : flags[k].value # None})
    /\ list \in [Lister -> ListRecord]
    /\ \A l \in Lister : ListOK(list[l])

LEMMA LengthType ==
    ASSUME NEW seen \in Counts, IsFiniteSet(Counted(seen)), NEW p, NEW search \in SUBSET Key
    PROVE  /\ IsFiniteSet(Flags(seen, p, search)) /\ IsFiniteSet(Groups(seen, p, search))
           /\ Flags(seen, p, search) \in SUBSET Counted(seen)
           /\ Looks(seen, Flags(seen, p, search)) \in Nat
           /\ Cardinality(Groups(seen, p, search)) \in Nat
           /\ Length(seen, p, search) \in Nat
           /\ Full(seen, p, search) <=> Length(seen, p, search) >= Limit
<1> DEFINE deep == {j \in search : seen[j] > 0 /\ ~Flat(j, p)}
           f == [k \in deep |-> Section(k, p)]
           groups == Groups(seen, p, search)
           told == Flags(seen, p, search)
<1>1. deep \in SUBSET Counted(seen) /\ told \in SUBSET Counted(seen)
  BY DEF Counted, Flags
<1>2. IsFiniteSet(deep) /\ IsFiniteSet(told)
  <2> HIDE DEF deep, told
  <2> QED
    BY <1>1, FS_Subset
<1>3. f \in Surjection(deep, groups)
  BY DEF Surjection, Groups
<1>4. IsFiniteSet(groups)
  <2> HIDE DEF deep, groups, f
  <2> QED
    BY <1>2, <1>3, FS_Surjection
<1>5. Cardinality(groups) \in Nat
  BY <1>4, FS_CardinalityType
<1>6. Looks(seen, told) \in Nat
  <2> HIDE DEF told
  <2>1. told \in SUBSET Key
    BY <1>1 DEF Counted
  <2> QED
    BY <1>2, <2>1, LooksFinite
<1> QED
  BY <1>1, <1>2, <1>4, <1>5, <1>6 DEF Length, Full

\* One look makes the list longer by one at the most.
LEMMA OneLonger ==
    ASSUME NEW seen \in Counts, IsFiniteSet(Counted(seen)), NEW k \in Key, NEW p,
           NEW search \in SUBSET Key
    PROVE  LET next == [seen EXCEPT ![k] = @ + 1] IN
           /\ next \in Counts /\ Counted(next) = Counted(seen) \cup {k}
           /\ IsFiniteSet(Counted(next))
           /\ Length(next, p, search) <= Length(seen, p, search) + 1
<1> DEFINE next == [seen EXCEPT ![k] = @ + 1]
           groups == Groups(seen, p, search)
           told == Flags(seen, p, search)
<1>1. \A j \in Key : seen[j] \in Nat /\ next[j] = IF j = k THEN seen[k] + 1 ELSE seen[j]
  BY DEF Counts
<1>2. next \in Counts
  BY DEF Counts
<1> HIDE DEF next
<1>3. Counted(next) = Counted(seen) \cup {k}
  BY <1>1 DEF Counted
<1>4. IsFiniteSet(Counted(next))
  BY <1>3, FS_AddElement
<1>5. IsFiniteSet(told) /\ told \in SUBSET Key /\ Looks(seen, told) \in Nat
        /\ IsFiniteSet(groups) /\ Cardinality(groups) \in Nat
  BY LengthType DEF Counted
<1>6. Length(seen, p, search) = Cardinality(groups) + Looks(seen, told)
  BY DEF Length
<1>7. CASE k \in search /\ Flat(k, p)
  <2>1. Groups(next, p, search) = groups
    <3>1. {j \in search : next[j] > 0 /\ ~Flat(j, p)} = {j \in search : seen[j] > 0 /\ ~Flat(j, p)}
      BY <1>1, <1>7
    <3> QED
      BY <3>1 DEF Groups
  <2>2. Flags(next, p, search) = told \cup {k}
    BY <1>1, <1>7 DEF Flags
  <2>3. Looks(next, told \cup {k}) = Looks(seen, told \cup {k}) + 1
    <3>1. IsFiniteSet(told \cup {k}) /\ told \cup {k} \in SUBSET Key /\ k \in told \cup {k}
      BY <1>5, FS_AddElement
    <3> HIDE DEF told
    <3> QED
      BY <3>1, LookAgain DEF next
  <2>4. Looks(seen, told \cup {k}) = Looks(seen, told)
    <3>1. CASE k \in told
      <4>1. told \cup {k} = told
        BY <3>1
      <4> QED
        BY <4>1
    <3>2. CASE k \notin told
      <4>1. seen[k] = 0
        BY <1>1, <1>7, <3>2 DEF Flags
      <4> QED
        BY <1>5, <4>1, LooksUnseen
    <3> QED
      BY <3>1, <3>2
  <2>5. Length(next, p, search) = Cardinality(groups) + Looks(seen, told) + 1
    BY <1>5, <2>1, <2>2, <2>3, <2>4 DEF Length
  <2>6. Length(next, p, search) <= Length(seen, p, search) + 1
    BY <1>5, <1>6, <2>5
  <2> QED
    BY <1>2, <1>3, <1>4, <2>6 DEF next
<1>8. CASE ~(k \in search /\ Flat(k, p))
  <2>1. Flags(next, p, search) = told
    BY <1>1, <1>8 DEF Flags
  <2>2. Looks(next, told) = Looks(seen, told)
    <3>1. k \notin told
      BY <1>8 DEF Flags
    <3> HIDE DEF told
    <3> QED
      BY <1>5, <3>1, LookAgain DEF next
  <2>3. Cardinality(Groups(next, p, search)) <= Cardinality(groups) + 1
    <3>1. Groups(next, p, search) \in SUBSET (groups \cup {Section(k, p)})
      BY <1>1 DEF Groups
    <3>2. /\ IsFiniteSet(groups \cup {Section(k, p)})
          /\ Cardinality(groups \cup {Section(k, p)}) =
               IF Section(k, p) \in groups THEN Cardinality(groups) ELSE Cardinality(groups) + 1
      BY <1>5, FS_AddElement
    <3>3. /\ Cardinality(Groups(next, p, search)) <= Cardinality(groups \cup {Section(k, p)})
          /\ IsFiniteSet(Groups(next, p, search))
      BY <3>1, <3>2, FS_Subset
    <3>4. Cardinality(Groups(next, p, search)) \in Nat
      BY <3>3, FS_CardinalityType
    <3> QED
      BY <1>5, <3>2, <3>3, <3>4
  <2>4. Cardinality(Groups(next, p, search)) \in Nat
    BY <1>2, <1>4, LengthType
  <2>5. Length(next, p, search) = Cardinality(Groups(next, p, search)) + Looks(seen, told)
    BY <2>1, <2>2 DEF Length
  <2>6. Length(next, p, search) <= Length(seen, p, search) + 1
    BY <1>5, <1>6, <2>3, <2>4, <2>5
  <2> QED
    BY <1>2, <1>3, <1>4, <2>6 DEF next
<1> QED
  BY <1>7, <1>8

\* Keys that were all looked at are told and counted; once each, where each was looked at once.
LEMMA AllTold ==
    ASSUME NEW seen \in Counts, IsFiniteSet(Counted(seen)), NEW p, NEW search \in SUBSET Key,
           NEW stay \in SUBSET Counted(seen), NEW k \in stay
    PROVE  LET name == Section(k, p)
               named == {j \in stay : Section(j, p) = name}
           IN  /\ k \in search => k \in Flags(seen, p, search) \/ name \in Groups(seen, p, search)
               /\ Total(seen, p, name) >= Cardinality(named)
               /\ stay = Counted(seen) /\ (\A j \in stay : seen[j] = 1) =>
                    Total(seen, p, name) = Cardinality(named)
<1> DEFINE name == Section(k, p)
           named == {j \in stay : Section(j, p) = name}
           total == {j \in Key : seen[j] > 0 /\ Section(j, p) = name}
<1>1. k \in Key /\ seen[k] > 0
  BY DEF Counted
<1>2. k \in search => k \in Flags(seen, p, search) \/ name \in Groups(seen, p, search)
  BY <1>1 DEF Flags, Groups
<1>3. total \in SUBSET Counted(seen) /\ named \in SUBSET total
  BY DEF Counted
<1>4. Total(seen, p, name) = Looks(seen, total)
  BY DEF Total
<1>5. stay = Counted(seen) => total = named
  BY DEF Counted
<1>6. (\A j \in stay : seen[j] = 1) => \A j \in named : seen[j] = 1
  OBVIOUS
<1> HIDE DEF total, named, name
<1>7. IsFiniteSet(total) /\ IsFiniteSet(named) /\ Cardinality(named) <= Cardinality(total)
  BY <1>3, FS_Subset
<1>8. /\ Looks(seen, total) \in Nat /\ Cardinality(total) \in Nat
      /\ Looks(seen, total) >= Cardinality(total)
      /\ (\A j \in total : seen[j] = 1) => Looks(seen, total) = Cardinality(total)
  BY <1>3, <1>7, LooksBound
<1>9. Cardinality(named) \in Nat
  BY <1>7, FS_CardinalityType
<1>10. Total(seen, p, name) >= Cardinality(named)
  BY <1>4, <1>7, <1>8, <1>9
<1>11. stay = Counted(seen) /\ (\A j \in stay : seen[j] = 1) => Total(seen, p, name) = Cardinality(named)
  BY <1>4, <1>5, <1>6, <1>8
<1> QED
  BY <1>2, <1>10, <1>11 DEF named, name

LEMMA ListNext ==
    ASSUME redis' = redis, NEW l \in Lister, NEW r, list'[l] = r, ListOK(r)
    PROVE  ListOK(list[l])'
<1>1. Scanning(r) => Scanning(list[l])'
  BY DEF Scanning
<1>2. Tells(r) => Tells(list[l])'
  BY DEF Tells
<1> QED
  BY <1>1, <1>2 DEF ListOK

\* One listing moves on, the others stay as they were.
LEMMA OneListing ==
    ASSUME FlagsInv, redis' = redis, NEW l \in Lister, NEW r, ListOK(r),
           list' = [list EXCEPT ![l] = r]
    PROVE  /\ list' \in [Lister -> ListRecord]
           /\ \A m \in Lister : ListOK(list[m])'
<1>1. r \in ListRecord
  BY DEF ListOK
<1>2. list' \in [Lister -> ListRecord]
  BY <1>1 DEF FlagsInv
<1>3. ASSUME NEW m \in Lister PROVE ListOK(list[m])'
  <2>1. CASE m = l
    <3>1. list'[m] = r
      BY <2>1 DEF FlagsInv
    <3> QED
      BY <3>1, ListNext
  <2>2. CASE m # l
    <3>1. list'[m] = list[m] /\ ListOK(list[m])
      BY <2>2 DEF FlagsInv
    <3> QED
      BY <3>1, ListNext
  <2> QED
    BY <2>1, <2>2
<1> QED
  BY <1>2, <1>3

LEMMA ListsSame ==
    ASSUME FlagsInv, redis' = redis, list' = list
    PROVE  /\ list' \in [Lister -> ListRecord]
           /\ \A m \in Lister : ListOK(list[m])'
<1>1. ASSUME NEW m \in Lister PROVE ListOK(list[m])'
  <2>1. list'[m] = list[m] /\ ListOK(list[m])
    BY DEF FlagsInv
  <2> QED
    BY <2>1, ListNext
<1> QED
  BY <1>1 DEF FlagsInv

\* A key that is gone is no longer waited for.
LEMMA WatchedOK ==
    ASSUME FlagsInv, redis' = redis, NEW live, list' = Watched(live)
    PROVE  /\ list' \in [Lister -> ListRecord]
           /\ \A m \in Lister : ListOK(list[m])'
<1>1. ASSUME NEW m \in Lister PROVE list'[m] \in ListRecord /\ ListOK(list[m])'
  <2> DEFINE old == list[m]
             r == [old EXCEPT !.left = @ \cap live, !.stay = @ \cap live]
  <2>1. old \in ListRecord /\ ListOK(old)
    BY DEF FlagsInv
  <2>2. CASE old.pc = "scan"
    <3>1. list'[m] = r
      BY <2>2 DEF Watched
    <3> HIDE DEF old
    <3>2. /\ r \in ListRecord /\ r.pc = "scan" /\ r.seen = old.seen
          /\ r.left = old.left \cap live /\ r.stay = old.stay \cap live
          /\ r.prefix = old.prefix /\ r.search = old.search
      BY <2>1, <2>2 DEF ListRecord
    <3> HIDE DEF r
    <3>3. ListOK(r)
      BY <2>1, <2>2, <3>2 DEF ListOK, Scanning
    <3> QED
      BY <3>1, <3>2, <3>3, ListNext
  <2>3. CASE old.pc # "scan"
    <3>1. list'[m] = old
      BY <2>3 DEF Watched
    <3> QED
      BY <2>1, <3>1, ListNext
  <2> QED
    BY <2>2, <2>3
<1>2. list' = [m \in Lister |-> list'[m]]
  BY DEF Watched
<1> QED
  BY <1>1, <1>2

LEMMA ValuedFinite ==
    ASSUME FlagsInv, NEW x, \A k \in Key \ {x} : flags'[k].value # None => flags[k].value # None
    PROVE  IsFiniteSet({k \in Key : flags[k].value # None})'
<1> DEFINE S == {k \in Key : flags[k].value # None}
           T == {k \in Key : flags'[k].value # None}
<1>1. T \in SUBSET (S \cup {x})
  OBVIOUS
<1>2. IsFiniteSet(S)
  BY DEF FlagsInv
<1> HIDE DEF S, T
<1>3. IsFiniteSet(T)
  BY <1>1, <1>2, FS_AddElement, FS_Subset
<1> QED
  BY <1>3 DEF T

LEMMA NothingSeen ==
    /\ NoList.seen \in Counts /\ Counted(NoList.seen) = {} /\ IsFiniteSet(Counted(NoList.seen))
    /\ \A p : \A search \in SUBSET Key :
         Length(NoList.seen, p, search) = 0 /\ ~Full(NoList.seen, p, search)
<1> DEFINE zero == NoList.seen
<1>1. zero = [k \in Key |-> 0]
  BY DEF NoList
<1> HIDE DEF zero
<1>2. zero \in Counts /\ Counted(zero) = {}
  BY <1>1 DEF Counts, Counted
<1>3. IsFiniteSet(Counted(zero))
  BY <1>2, FS_EmptySet
<1>4. ASSUME NEW p, NEW search \in SUBSET Key
      PROVE  Length(zero, p, search) = 0 /\ ~Full(zero, p, search)
  <2>1. Groups(zero, p, search) = {} /\ Flags(zero, p, search) = {}
    BY <1>1 DEF Groups, Flags
  <2>2. Looks(zero, {}) = Cardinality({})
    BY DEF Looks
  <2>3. Length(zero, p, search) = 0
    BY <2>1, <2>2, FS_EmptySet DEF Length
  <2>4. ~(0 >= Limit)
    BY Given
  <2> QED
    BY <1>2, <1>3, <2>3, <2>4, LengthType
<1> QED
  BY <1>2, <1>3, <1>4 DEF zero

LEMMA InitListing == Init => FlagsInv
<1> SUFFICES ASSUME Init PROVE FlagsInv
  OBVIOUS
<1>1. {k \in Key : flags[k].value # None} = {}
  BY DEF Init, Absent
<1>2. IsFiniteSet({k \in Key : flags[k].value # None})
  BY <1>1, FS_EmptySet
<1>3. NoList \in ListRecord /\ NoList.pc = "idle"
  BY DEF NoList, ListRecord, Counts
<1>4. ListOK(NoList)
  BY <1>3, NothingSeen DEF ListOK
<1> QED
  BY <1>2, <1>3, <1>4 DEF Init, FlagsInv

\* The service looks at the keys of the Map.
LEMMA ListMemoryStep ==
    ASSUME TypeOK, FlagsInv, NEW l \in Lister, NEW p \in Prefix, NEW search \in Search,
           ListMemory(l, p, search)
    PROVE  FlagsInv'
<1> DEFINE keys == Below(LiveKeys, p)
<1>1. PICK looked \in SUBSET keys :
        LET seen == [k \in Key |-> IF k \in looked THEN 1 ELSE 0] IN
        /\ looked = keys \/ Full(seen, p, search)
        /\ looked # {} => \E last \in looked : ~Full([seen EXCEPT ![last] = 0], p, search)
        /\ list' = [list EXCEPT ![l] = [NoList EXCEPT
                      !.pc = "told", !.prefix = p, !.search = search, !.stay = keys, !.seen = seen]]
  BY DEF ListMemory
<1> DEFINE seen == [k \in Key |-> IF k \in looked THEN 1 ELSE 0]
           r == [NoList EXCEPT
                   !.pc = "told", !.prefix = p, !.search = search, !.stay = keys, !.seen = seen]
<1>2. ~redis /\ redis' = redis
  BY DEF ListMemory
<1>3. search \in SUBSET Key /\ Limit \in Nat
  BY Given
<1>4. keys \in SUBSET {k \in Key : flags[k].value # None}
  BY DEF Below, LiveKeys, Live
<1>5. IsFiniteSet(keys) /\ IsFiniteSet(looked) /\ looked \in SUBSET Key /\ keys \in SUBSET Key
  <2> HIDE DEF keys
  <2>1. IsFiniteSet(keys)
    BY <1>4, FS_Subset DEF FlagsInv
  <2> QED
    BY <1>4, <2>1, FS_Subset
<1> HIDE DEF keys
<1>6. seen \in Counts /\ Counted(seen) = looked /\ \A k \in looked : seen[k] = 1
  BY <1>5 DEF Counts, Counted
<1>7. /\ r.pc = "told" /\ r.prefix = p /\ r.search = search /\ r.stay = keys /\ r.seen = seen
      /\ r.left = {}
  BY DEF NoList
<1>8. r \in ListRecord
  <2>1. seen \in Counts /\ keys \in SUBSET Key /\ search \in SUBSET Key /\ p \in Prefix
    BY <1>3, <1>5, <1>6
  <2> HIDE DEF seen
  <2> QED
    BY <2>1 DEF NoList, ListRecord
<1>9. Length(seen, p, search) <= Limit
  <2>1. CASE looked = {}
    <3>1. seen = NoList.seen
      BY <2>1 DEF NoList
    <3>2. Length(seen, p, search) = 0
      BY <1>3, <3>1, NothingSeen
    <3> QED
      BY <1>3, <3>2
  <2>2. CASE looked # {}
    <3>1. PICK last \in looked : ~Full([seen EXCEPT ![last] = 0], p, search)
      BY <1>1, <2>2
    <3> DEFINE before == [seen EXCEPT ![last] = 0]
    <3>2. /\ before \in Counts /\ Counted(before) \in SUBSET looked
          /\ seen = [before EXCEPT ![last] = @ + 1] /\ last \in Key
      BY <1>5 DEF Counts, Counted
    <3> HIDE DEF before, seen
    <3>3. IsFiniteSet(Counted(before))
      BY <1>5, <3>2, FS_Subset
    <3>4. /\ Length(before, p, search) \in Nat
          /\ Full(before, p, search) <=> Length(before, p, search) >= Limit
      BY <1>3, <3>2, <3>3, LengthType
    <3>5. Length(seen, p, search) <= Length(before, p, search) + 1
      BY <1>3, <3>2, <3>3, OneLonger
    <3>6. Length(seen, p, search) \in Nat
      BY <1>3, <1>5, <1>6, LengthType
    <3>7. ~Full(before, p, search)
      BY <3>1 DEF before
    <3> QED
      BY <1>3, <3>4, <3>5, <3>6, <3>7
  <2> QED
    BY <2>1, <2>2
<1>10. looked = keys \/ Full(seen, p, search)
  BY <1>1
<1>11. list' = [list EXCEPT ![l] = r]
  BY <1>1
<1> HIDE DEF seen, r
<1>12. Tells(r)
  <2> DEFINE named(name) == {k \in keys : Section(k, p) = name}
  <2>1. ASSUME ~Full(seen, p, search), NEW k \in keys
        PROVE  LET name == Section(k, p) IN
               /\ k \in search => k \in Flags(seen, p, search) \/ name \in Groups(seen, p, search)
               /\ Total(seen, p, name) >= Cardinality(named(name))
               /\ Total(seen, p, name) = Cardinality(named(name))
    <3>1. keys = looked
      BY <1>10, <2>1
    <3>2. keys \in SUBSET Counted(seen) /\ keys = Counted(seen) /\ IsFiniteSet(Counted(seen))
      BY <1>5, <1>6, <3>1
    <3>3. \A j \in keys : seen[j] = 1
      BY <1>6, <3>1
    <3> QED
      BY <1>3, <1>6, <3>2, <3>3, AllTold
  <2>2. Cardinality(Groups(seen, p, search)) + Looks(seen, Flags(seen, p, search)) <= Limit
    BY <1>9 DEF Length
  <2> QED
    BY <1>7, <2>1, <2>2 DEF Tells
<1>13. ListOK(r)
  BY <1>5, <1>6, <1>7, <1>8, <1>12 DEF ListOK
<1>14. \A k \in Key : flags'[k].value # None => flags[k].value # None
  BY DEF ListMemory, Look, Absent
<1>15. IsFiniteSet({k \in Key : flags[k].value # None})'
  BY <1>14, ValuedFinite
<1> QED
  BY <1>2, <1>11, <1>13, <1>15, OneListing DEF FlagsInv

LEMMA ListStartStep ==
    ASSUME FlagsInv, NEW l \in Lister, NEW p \in Prefix, NEW search \in Search,
           ListStart(l, p, search)
    PROVE  FlagsInv'
<1> DEFINE keys == Below(LiveKeys, p)
           r == [NoList EXCEPT
                   !.pc = "scan", !.prefix = p, !.search = search, !.left = keys, !.stay = keys]
<1>1. redis /\ redis' = redis /\ flags' = flags /\ list' = [list EXCEPT ![l] = r]
  BY DEF ListStart
<1>2. search \in SUBSET Key
  BY Given
<1>3. keys \in SUBSET Key
  BY DEF Below, LiveKeys
<1> HIDE DEF keys
<1>4. /\ r.pc = "scan" /\ r.prefix = p /\ r.search = search /\ r.stay = keys
      /\ r.seen = NoList.seen /\ r.left = keys
  BY DEF NoList
<1>5. r \in ListRecord
  BY <1>2, <1>3 DEF NoList, ListRecord, Counts
<1> HIDE DEF r
<1>6. ListOK(r)
  BY <1>1, <1>2, <1>4, <1>5, NothingSeen DEF ListOK, Scanning
<1>7. IsFiniteSet({k \in Key : flags[k].value # None})'
  BY <1>1, ValuedFinite
<1> QED
  BY <1>1, <1>6, <1>7, OneListing DEF FlagsInv

LEMMA ListKeyStep ==
    ASSUME FlagsInv, NEW l \in Lister, NEW k \in Key, ListKey(l, k)
    PROVE  FlagsInv'
<1> DEFINE old == list[l]
           p == old.prefix
           search == old.search
           seen == LookAt(old.seen, k, p, search)
           pc == IF Full(seen, p, search) THEN "told" ELSE "scan"
           r == [old EXCEPT !.left = @ \ {k}, !.seen = seen, !.pc = pc]
<1>1. old \in ListRecord /\ ListOK(old)
  BY DEF FlagsInv
<1>2. old.pc = "scan" /\ redis' = redis /\ flags' = flags
  BY DEF ListKey
<1>3. list' = [list EXCEPT ![l] = r]
  BY DEF ListKey, FlagsInv
<1>4. Scanning(old) /\ IsFiniteSet(Counted(old.seen))
  BY <1>1, <1>2 DEF ListOK
<1> HIDE DEF old
<1>5. search \in SUBSET Key /\ old.seen \in Counts
  BY <1>1 DEF ListRecord
<1>6. seen = [old.seen EXCEPT ![k] = @ + 1]
  BY <1>4 DEF LookAt, Scanning
<1>7. /\ seen \in Counts /\ Counted(seen) = Counted(old.seen) \cup {k}
      /\ IsFiniteSet(Counted(seen))
      /\ Length(seen, p, search) <= Length(old.seen, p, search) + 1
  BY <1>4, <1>5, <1>6, OneLonger
<1> HIDE DEF seen
<1>8. /\ Length(old.seen, p, search) \in Nat /\ Length(seen, p, search) \in Nat
      /\ ~(Length(old.seen, p, search) >= Limit)
  BY <1>4, <1>5, <1>7, LengthType DEF Scanning
<1>9. Length(seen, p, search) <= Limit
  BY <1>7, <1>8, Given
<1>10. pc \in {"told", "scan"} /\ (pc = "scan" <=> ~Full(seen, p, search))
  OBVIOUS
<1> HIDE DEF pc
<1>11. /\ r \in ListRecord /\ r.pc = pc /\ r.seen = seen /\ r.left = old.left \ {k}
       /\ r.stay = old.stay /\ r.prefix = p /\ r.search = search
  BY <1>1, <1>7, <1>10 DEF ListRecord
<1> HIDE DEF r, p, search
<1>12. ASSUME pc = "scan" PROVE Scanning(r)
  <2>1. r.stay \subseteq r.left \cup Counted(r.seen)
    BY <1>4, <1>7, <1>11 DEF Scanning
  <2> QED
    BY <1>4, <1>10, <1>11, <1>12, <2>1 DEF Scanning
<1>13. ASSUME pc = "told" PROVE Tells(r)
  <2>1. Full(seen, p, search)
    BY <1>10, <1>13
  <2> QED
    BY <1>9, <1>11, <2>1 DEF Tells, Length
<1>14. ListOK(r)
  BY <1>7, <1>11, <1>12, <1>13 DEF ListOK
<1>15. IsFiniteSet({j \in Key : flags[j].value # None})'
  BY <1>2, ValuedFinite
<1> QED
  BY <1>2, <1>3, <1>14, <1>15, OneListing DEF FlagsInv

LEMMA ListEndStep ==
    ASSUME FlagsInv, NEW l \in Lister, ListEnd(l)
    PROVE  FlagsInv'
<1> DEFINE old == list[l]
           r == [old EXCEPT !.pc = "told"]
<1>1. old \in ListRecord /\ ListOK(old)
  BY DEF FlagsInv
<1>2. old.pc = "scan" /\ old.left = {} /\ redis' = redis /\ flags' = flags
  BY DEF ListEnd
<1>3. list' = [list EXCEPT ![l] = r]
  BY DEF ListEnd, FlagsInv
<1>4. Scanning(old) /\ IsFiniteSet(Counted(old.seen))
  BY <1>1, <1>2 DEF ListOK
<1> HIDE DEF old
<1>5. /\ r \in ListRecord /\ r.pc = "told" /\ r.seen = old.seen /\ r.stay = old.stay
      /\ r.prefix = old.prefix /\ r.search = old.search
  BY <1>1 DEF ListRecord
<1> HIDE DEF r
<1>6. r.seen \in Counts /\ r.search \in SUBSET Key
  BY <1>5 DEF ListRecord
<1>7. r.stay \in SUBSET Counted(r.seen) /\ redis
  BY <1>2, <1>4, <1>5 DEF Scanning
<1>8. Cardinality(Groups(r.seen, r.prefix, r.search))
        + Looks(r.seen, Flags(r.seen, r.prefix, r.search)) <= Limit
  <2>1. Length(r.seen, r.prefix, r.search) \in Nat /\ ~(Length(r.seen, r.prefix, r.search) >= Limit)
    BY <1>4, <1>5, <1>6, LengthType DEF Scanning
  <2> QED
    BY <2>1, Given DEF Length
<1>9. ASSUME NEW k \in r.stay
      PROVE  LET name == Section(k, r.prefix)
                 named == {j \in r.stay : Section(j, r.prefix) = name}
             IN  /\ k \in r.search => \/ k \in Flags(r.seen, r.prefix, r.search)
                                      \/ name \in Groups(r.seen, r.prefix, r.search)
                 /\ Total(r.seen, r.prefix, name) >= Cardinality(named)
  BY <1>4, <1>5, <1>6, <1>7, AllTold
<1>10. Tells(r)
  BY <1>7, <1>8, <1>9 DEF Tells
<1>11. ListOK(r)
  BY <1>4, <1>5, <1>10 DEF ListOK
<1>12. IsFiniteSet({j \in Key : flags[j].value # None})'
  BY <1>2, ValuedFinite
<1> QED
  BY <1>2, <1>3, <1>11, <1>12, OneListing DEF FlagsInv

LEMMA FlagsStep == TypeOK /\ FlagsInv /\ [Next]_vars => FlagsInv'
<1> SUFFICES ASSUME TypeOK, FlagsInv, [Next]_vars PROVE FlagsInv'
  OBVIOUS
<1>0. \A k \in Key : Look(k).value # None => flags[k].value # None
  BY DEF Look, Absent
<1>1. ASSUME NEW c \in Client, NEW k \in Key, NEW v \in Value, NEW ttl \in Lifetimes \cup {0},
             Set(c, k, v, ttl) \/ SetLost(c, k, v, ttl)
      PROVE  FlagsInv'
  <2>1. redis' = redis /\ Write(k, v, ttl)
    BY <1>1 DEF Set, SetLost
  <2>2. \A j \in Key \ {k} : flags'[j].value # None => flags[j].value # None
    BY <2>1 DEF Write, TypeOK
  <2> QED
    BY <2>1, <2>2, WatchedOK, ValuedFinite DEF Write, FlagsInv
<1>2. ASSUME NEW c \in Client, NEW k \in Key, Get(c, k) \/ Delete(c, k) \/ DeleteLost(c, k)
      PROVE  FlagsInv'
  <2>1. redis' = redis /\ (list' = list \/ list' = Watched(LiveKeys \ {k}))
    BY <1>2 DEF Get, Delete, DeleteLost, Remove
  <2>2. \A j \in Key : flags'[j].value # None => flags[j].value # None
    BY <1>0, <1>2 DEF Get, Delete, DeleteLost, Remove, TypeOK, Absent
  <2> QED
    BY <2>1, <2>2, ListsSame, WatchedOK, ValuedFinite DEF FlagsInv
<1>3. ASSUME NEW c \in Client, SetAnswer(c) \/ Fails(c)
      PROVE  FlagsInv'
  BY <1>3, ListsSame, ValuedFinite DEF SetAnswer, Fails, FlagsInv
<1>4. ASSUME NEW k \in Key, Evict(k)
      PROVE  FlagsInv'
  <2>1. \A j \in Key : flags'[j].value # None => flags[j].value # None
    BY <1>0, <1>4 DEF Evict, TypeOK
  <2> QED
    BY <1>4, <2>1, ListsSame, ValuedFinite DEF Evict, FlagsInv
<1>5. CASE Tick
  BY <1>5, WatchedOK, ValuedFinite DEF Tick, FlagsInv
<1>6. CASE Restart
  <2>1. \A j \in Key : flags'[j].value # None => flags[j].value # None
    BY <1>6 DEF Restart, Absent
  <2> QED
    BY <1>6, <2>1, ListsSame, ValuedFinite DEF Restart, FlagsInv
<1>7. CASE UNCHANGED vars
  BY <1>7, ListsSame, ValuedFinite DEF vars, FlagsInv
<1> QED
  BY <1>1, <1>2, <1>3, <1>4, <1>5, <1>6, <1>7, ListMemoryStep, ListStartStep, ListKeyStep,
     ListEndStep DEF Next

\* ListTells: a listing says it is truncated, or tells and counts every flag that was there
\* all the time; it is never longer than the limit (listFlags() of service and store).
THEOREM ListingsTell == Spec => []ListTells
<1>1. FlagsInv => ListTells
  BY DEF FlagsInv, ListOK, Tells, ListTells
<1> QED
  BY <1>1, TypeInvariant, InitListing, FlagsStep, PTL DEF Spec

=============================================================================
