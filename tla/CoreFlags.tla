------------------------------ MODULE CoreFlags ------------------------------
(***************************************************************************)
(* The flags of mocko-core.  In memory mode they are a Map whose expired   *)
(* entries stay until somebody looks at them; in Redis mode they are       *)
(* hashes, a write is HSET (in one MULTI with PEXPIRE when it has a        *)
(* lifetime) and then a read of its own.  Flags are listed in one go from  *)
(* the Map by mocko-core, and by mocko-control with SCAN, key by key,      *)
(* while others write; both stop at a limit.  A command of Redis may fail, *)
(* with or without having taken effect.                                    *)
(*                                                                         *)
(* A key is the sequence of its sections.  Lifetimes are whole             *)
(* milliseconds, in units of the clock.                                    *)
(***************************************************************************)
EXTENDS Naturals, Sequences, FiniteSets

CONSTANTS
    Key,       \* sequences of sections
    Value,
    Client,    \* mocks, SDKs and users that read and write flags
    Lister,    \* requests that list flags
    Prefix,    \* prefixes asked for
    Search,    \* sets of keys a search may match
    Lifetimes, \* lifetimes a write may have
    Limit,     \* FLAGS_LIST-LIMIT
    MaxLooks,  \* bound on how often SCAN returns one key
    MaxTime,   \* bound on the clock, and on the ends of lifetimes
    None

ASSUME CoreFlagsAssumption ==
    /\ Key \subseteq Seq(STRING) \ {<<>>} /\ Prefix \subseteq Seq(STRING)
    /\ Search \subseteq SUBSET Key
    /\ Lifetimes \subseteq Nat \ {0} /\ Limit \in Nat \ {0} /\ MaxLooks \in Nat \ {0} /\ MaxTime \in Nat
    /\ None \notin Value \cup Key

VARIABLES
    redis,  \* REDIS_ENABLED, fixed
    flags,  \* flags[k]: value and end of the entry there is, expired or not, or Absent
    now,
    wrote,  \* wrote[c]: the key c has written and will read next, or None
    said,   \* the last answer to a client
    list    \* list[l]: the request of a lister

vars == <<redis, flags, now, wrote, said, list>>

Absent == [value |-> None, until |-> 0]

\* "seen": how often the loop looked at each key.
\* "left": keys SCAN must still return.
\* "stay": keys live from the start of the request on (history).
NoList == [pc |-> "idle", prefix |-> <<>>, search |-> {}, left |-> {}, seen |-> [k \in Key |-> 0],
           stay |-> {}]

Init ==
    /\ redis \in BOOLEAN
    /\ flags = [k \in Key |-> Absent]
    /\ now = 0
    /\ wrote = [c \in Client |-> None]
    /\ said = None
    /\ list = [l \in Lister |-> NoList]

\* getLive(): an entry whose end has come is no flag; Redis hides it likewise.
Live(k) == flags[k].value # None /\ (flags[k].until = 0 \/ flags[k].until > now)

LiveKeys == {k \in Key : Live(k)}

\* A look at an expired entry removes it.
Look(k) == IF Live(k) THEN flags[k] ELSE Absent

\* The keys under a prefix; normalizePrefix() has it end in a colon.
Under(k, p) == Len(k) > Len(p) /\ SubSeq(k, 1, Len(p)) = p
Below(keys, p) == {k \in keys : Under(k, p)}

\* The listings under way see what is live now.
Watched(live) ==
    [l \in Lister |-> IF list[l].pc = "scan"
                      THEN [list[l] EXCEPT !.left = @ \cap live, !.stay = @ \cap live]
                      ELSE list[l]]

-----------------------------------------------------------------------------
(* Reads and writes.                                                       *)

\* Mutant: the end of an expired entry is kept.
ExpirationKept(k, ttl) == IF ttl > 0 THEN now + ttl ELSE flags[k].until

\* expirationFor(); HSET keeps the time to live of a hash that is still there.
Expiration(k, ttl) == IF ttl > 0 THEN now + ttl ELSE Look(k).until

\* Map.set(); HSET or the MULTI, all of it at once.
Write(k, v, ttl) ==
    /\ flags' = [flags EXCEPT ![k] = [value |-> v, until |-> Expiration(k, ttl)]]
    /\ list' = Watched(LiveKeys \cup {k})

\* set(): with Redis a read follows, in memory the answer is there at once.
Set(c, k, v, ttl) ==
    /\ wrote[c] = None /\ now + ttl <= MaxTime
    /\ Write(k, v, ttl)
    /\ IF redis THEN wrote' = [wrote EXCEPT ![c] = k] /\ UNCHANGED said
       ELSE said' = "ok" /\ UNCHANGED wrote
    /\ UNCHANGED <<redis, now>>

\* HSET or the MULTI takes effect, its reply is lost: set() fails and does not read.
SetLost(c, k, v, ttl) ==
    /\ redis /\ wrote[c] = None /\ now + ttl <= MaxTime
    /\ Write(k, v, ttl)
    /\ said' = "failed"
    /\ UNCHANGED <<redis, now, wrote>>

\* The read after a write of Redis, which may find that the flag "was not found after being
\* written": it expired in between, or was deleted.
SetAnswer(c) ==
    /\ wrote[c] # None
    /\ said' = IF Live(wrote[c]) THEN "ok" ELSE "missing"
    /\ wrote' = [wrote EXCEPT ![c] = None]
    /\ UNCHANGED <<redis, flags, now, list>>

\* get(), has()
Get(c, k) ==
    /\ wrote[c] = None
    /\ said' = Look(k).value
    /\ flags' = [flags EXCEPT ![k] = Look(k)]
    /\ UNCHANGED <<redis, now, wrote, list>>

\* Mutant: the value goes, the time to live stays.
RemoveValue(k) ==
    /\ flags' = [flags EXCEPT ![k].value = None]
    /\ list' = Watched(LiveKeys \ {k})

\* Map.delete(), DEL
Remove(k) ==
    /\ flags' = [flags EXCEPT ![k] = Absent]
    /\ list' = Watched(LiveKeys \ {k})

\* del()
Delete(c, k) ==
    /\ wrote[c] = None
    /\ Remove(k)
    /\ said' = "gone"
    /\ UNCHANGED <<redis, now, wrote>>

\* DEL takes effect, its reply is lost.
DeleteLost(c, k) ==
    /\ redis /\ wrote[c] = None
    /\ Remove(k)
    /\ said' = "failed"
    /\ UNCHANGED <<redis, now, wrote>>

\* A command fails without effect: the write, read or removal a client asks for, or the
\* read of set(), whose write stands.
Fails(c) ==
    /\ redis
    /\ said' = "failed"
    /\ wrote' = [wrote EXCEPT ![c] = None]
    /\ UNCHANGED <<redis, flags, now, list>>

-----------------------------------------------------------------------------
(* Listing.  What a listing tells is told from the keys it looked at.      *)

Section(k, p) == k[Len(p) + 1]
Flat(k, p) == Len(k) = Len(p) + 1

\* The flags listed, and the groups.
Flags(seen, p, search) == {k \in search : seen[k] > 0 /\ Flat(k, p)}
Groups(seen, p, search) == {Section(k, p) : k \in {j \in search : seen[j] > 0 /\ ~Flat(j, p)}}

\* Looks at the keys of a set; a flag looked at twice is listed twice.
Looks(seen, keys) == Cardinality(UNION {{k} \X (1 .. seen[k]) : k \in keys})

\* counts.get(name)?.total; ?.matches is that of the keys the search matches.
Total(seen, p, name) == Looks(seen, {k \in Key : seen[k] > 0 /\ Section(k, p) = name})

\* isTruncated
Full(seen, p, search) ==
    Cardinality(Groups(seen, p, search)) + Looks(seen, Flags(seen, p, search)) >= Limit

\* The loop over the keys counts them, up to the limit.
LookAt(seen, k, p, search) ==
    IF Full(seen, p, search) THEN seen ELSE [seen EXCEPT ![k] = @ + 1]

\* listFlags() of the service and the memory repository: the loop looks at one key after
\* the other, in an order left open here, until the last of them fills the list.
ListMemory(l, p, search) ==
    /\ ~redis /\ list[l].pc = "idle"
    /\ flags' = [k \in Key |-> IF Under(k, p) THEN Look(k) ELSE flags[k]]
    /\ LET keys == Below(LiveKeys, p) IN
       \E looked \in SUBSET keys :
           LET seen == [k \in Key |-> IF k \in looked THEN 1 ELSE 0] IN
           /\ looked = keys \/ Full(seen, p, search)
           /\ looked # {} => \E last \in looked : ~Full([seen EXCEPT ![last] = 0], p, search)
           /\ list' = [list EXCEPT ![l] = [NoList EXCEPT
                  !.pc = "told", !.prefix = p, !.search = search, !.stay = keys, !.seen = seen]]
    /\ UNCHANGED <<redis, now, wrote, said>>

\* listFlags() of the Redis store of mocko-control.
ListStart(l, p, search) ==
    /\ redis /\ list[l].pc = "idle"
    /\ LET keys == Below(LiveKeys, p) IN
       list' = [list EXCEPT ![l] = [NoList EXCEPT
           !.pc = "scan", !.prefix = p, !.search = search,
           !.left = keys, !.stay = keys]]
    /\ UNCHANGED <<redis, flags, now, wrote, said>>

\* A key in a reply of SCAN: any that is there, again or for the first time.
ListKey(l, k) ==
    /\ list[l].pc = "scan" /\ Live(k) /\ Under(k, list[l].prefix) /\ list[l].seen[k] < MaxLooks
    /\ LET r == list[l]
           seen == LookAt(r.seen, k, r.prefix, r.search)
       IN  list' = [list EXCEPT
               ![l].left = @ \ {k}, ![l].seen = seen,
               ![l].pc = IF Full(seen, r.prefix, r.search) THEN "told" ELSE "scan"]
    /\ UNCHANGED <<redis, flags, now, wrote, said>>

\* Mutant: a reply without keys is taken for the last one.
ListEndEmpty(l) ==
    /\ list[l].pc = "scan"
    /\ list' = [list EXCEPT ![l].pc = "told"]
    /\ UNCHANGED <<redis, flags, now, wrote, said>>

\* The cursor is back at 0: every key that was there all the time has come.
ListEnd(l) ==
    /\ list[l].pc = "scan" /\ list[l].left = {}
    /\ list' = [list EXCEPT ![l].pc = "told"]
    /\ UNCHANGED <<redis, flags, now, wrote, said>>

-----------------------------------------------------------------------------
(* Time, and the process.                                                  *)

Tick ==
    /\ now < MaxTime
    /\ now' = now + 1
    /\ list' = Watched({k \in LiveKeys : flags[k].until # now'})
    /\ UNCHANGED <<redis, flags, wrote, said>>

\* Redis removes what has expired when it gets to it.
Evict(k) ==
    /\ redis /\ flags[k] # Look(k)
    /\ flags' = [flags EXCEPT ![k] = Look(k)]
    /\ UNCHANGED <<redis, now, wrote, said, list>>

\* mocko-core starts again: the Map is empty, the hashes of Redis are where they were.
Restart ==
    /\ IF redis THEN UNCHANGED flags ELSE flags' = [k \in Key |-> Absent]
    /\ wrote' = [c \in Client |-> None]
    /\ UNCHANGED <<redis, now, said, list>>

Next ==
    \/ \E c \in Client, k \in Key :
        \/ Get(c, k) \/ Delete(c, k) \/ DeleteLost(c, k)
        \/ \E v \in Value, ttl \in Lifetimes \cup {0} : Set(c, k, v, ttl) \/ SetLost(c, k, v, ttl)
    \/ \E c \in Client : SetAnswer(c) \/ Fails(c)
    \/ \E l \in Lister :
        \/ \E p \in Prefix, search \in Search : ListMemory(l, p, search) \/ ListStart(l, p, search)
        \/ \E k \in Key : ListKey(l, k)
        \/ ListEnd(l)
    \/ \E k \in Key : Evict(k)
    \/ Tick \/ Restart

Spec == Init /\ [][Next]_vars

-----------------------------------------------------------------------------
Entry == [value : Value, until : Nat] \cup {Absent}

\* Every variable has its type.
TypeOK ==
    /\ redis \in BOOLEAN
    /\ flags \in [Key -> Entry]
    /\ now \in Nat
    /\ wrote \in [Client -> Key \cup {None}]
    /\ said \in Value \cup {None, "ok", "missing", "failed", "gone"}

\* A listing that does not say it is truncated tells all flags that were there all the
\* time, each by its name or in its group, and counts them; from memory no flag is counted
\* twice (with SCAN one may), and the count of a group is that of the keys under it and of
\* the flag of the same name.  No listing is longer than the limit.
ListTells ==
    \A l \in Lister : list[l].pc = "told" =>
        LET r == list[l]
            told == Flags(r.seen, r.prefix, r.search)
            groups == Groups(r.seen, r.prefix, r.search)
            named(name) == {k \in r.stay : Section(k, r.prefix) = name}
        IN  /\ ~Full(r.seen, r.prefix, r.search) =>
                \A k \in r.stay :
                    LET name == Section(k, r.prefix) IN
                    /\ k \in r.search => k \in told \/ name \in groups
                    /\ Total(r.seen, r.prefix, name) >= Cardinality(named(name))
                    /\ ~redis => Total(r.seen, r.prefix, name) = Cardinality(named(name))
            /\ Cardinality(groups) + Looks(r.seen, told) <= Limit

\* The flags as everybody sees them.
Store == INSTANCE FlagStore WITH
    durable <- redis, flag <- [k \in Key |-> Look(k)], time <- now, writing <- wrote

\* Lazy removal, the read after a write, the expiry kept by a write and the commands that
\* fail show nothing that FlagStore does not promise.
ImplementsFlagStore == Store!Spec

=============================================================================
