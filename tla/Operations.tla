----------------------------- MODULE Operations -----------------------------
(***************************************************************************)
(* Management operations of mocko-control (Redis mode).  An operation is a *)
(* hash, an entry of an index and a list of flag keys.  Creating it starts *)
(* a scan in the background, a PATCH to EXECUTING starts the run itself:   *)
(* a purge of the flags the scan listed, a migration of a v1 workspace or  *)
(* a purge of the v1 keys.  Every step below is one command of Redis and   *)
(* the code up to the next await; only one control process is modelled.    *)
(*                                                                         *)
(* A command may fail, with or without its effect: a job that gets an      *)
(* error goes to its catch, a request answers an error.                    *)
(* A flag is "stale" (idle for longer than the threshold), "fresh" or      *)
(* "absent".  Progress counts are left out: nothing depends on them.       *)
(***************************************************************************)
EXTENDS Naturals, FiniteSets, Sequences, SequencesExt

CONSTANTS
    Op,        \* ids of operations
    MaxPatches,\* bound on PATCH requests
    Flag,      \* flag keys
    V1Flag,    \* those of them a v1 workspace has
    Pattern,   \* the flags a "matching" operation asks for
    Cases,     \* what users may ask for: the operation each o is to be, or None; with
               \* bounds on PATCHes, deletions, and faults (commands failing, those of a
               \* catch aside, and deaths of the process)
    Batch,     \* OPERATIONS_BATCH_SIZE
    None

Types == {"stale", "matching", "migration", "v1purge"}
Statuses == {"SCANNING", "READY", "EXECUTING", "DONE", "FAILED"}

ASSUME OperationsAssumption ==
    /\ MaxPatches \in Nat /\ Batch \in Nat \ {0}
    /\ IsFiniteSet(Flag) /\ Pattern \subseteq Flag /\ V1Flag \subseteq Flag
    /\ None \notin Types \cup Statuses
    /\ Cases \subseteq [wanted : [Op -> Types \cup {None}], patches : Nat, deletes : Nat, faults : Nat]

\* PATCH requests in the order they arrive, each with the run it may start.
Patch == 1 .. MaxPatches

VARIABLES
    wanted,   \* wanted[o]: the operation o will be, None when nobody asks for it
    hash,     \* hash[o]: its fields type and status, None for a missing one
    index,    \* the index of operations
    list,     \* list[o]: flag keys to purge
    flags,    \* flags[f]
    v1,       \* v1 keys: flags, and "mocks" for the document of mocks
    mocks,    \* who wrote what the document of mocks holds: subset of {"user", "v1"}
    creating, \* creating[o]: what createOperation() does next
    scan,     \* scan[o]: the background scan
    run,      \* run[p]: the PATCH and its background run
    acked, gone, \* operations answered 201, and 204 to a DELETE (history)
    found,    \* found[o]: flags the scan matched (history)
    purged,   \* purged[o]: flags the runs of o removed (history)
    copied,   \* v1 keys a migration copied (history)
    save,     \* a user's save of a mock: whether it is open, and the document it read
    safe,     \* a user saved a mock with no migration past its look (history)
    overlap,  \* two migrations were past their look at once (history)
    spanned,  \* a save was open when a migration wrote the document (history)
    doubled,  \* operations that two open PATCHes read READY (history)
    misled,   \* operations with an error after READY or DONE was written (history)
    orphans,  \* operations that have no job to end them: it died, was never started for
              \* an error, or could not even say that it failed (history)
    budget    \* PATCHes, deletions and faults there may still be

store == <<hash, index, list>>
data == <<flags, v1, mocks>>
jobs == <<creating, scan, run>>
answers == <<acked, gone>>
keysSeen == <<found, purged, copied>>
mishaps == <<safe, overlap, spanned, doubled, misled, orphans>>
history == <<answers, keysSeen, mishaps>>
vars == <<wanted, store, data, jobs, save, history, budget>>

NoHash == [type |-> None, status |-> None]
NoScan == [pc |-> "idle", type |-> None, left |-> {}, match |-> {}]
NoRun == [pc |-> "idle", op |-> None, type |-> None, batch |-> {}, left |-> {}]
NoSave == [open |-> FALSE, read |-> {}]

Asked(types) == \E o \in Op : wanted[o] \in types

Init ==
    /\ hash = [o \in Op |-> NoHash] /\ index = {} /\ list = [o \in Op |-> <<>>]
    /\ \E c \in Cases :
        /\ wanted = c.wanted
        /\ budget = [patches |-> c.patches, deletes |-> c.deletes, faults |-> c.faults]
    /\ IF Asked({"migration"}) THEN flags = [f \in Flag |-> "absent"] /\ v1 = {"mocks"} \cup V1Flag
       ELSE flags \in [Flag -> {"stale", "fresh"}] /\ v1 = {}
    /\ mocks = {}
    /\ creating = [o \in Op |-> "idle"]
    /\ scan = [o \in Op |-> NoScan]
    /\ run = [p \in Patch |-> NoRun]
    /\ save = NoSave
    /\ acked = {} /\ gone = {} /\ copied = {} /\ doubled = {} /\ misled = {} /\ orphans = {}
    /\ safe = FALSE /\ overlap = FALSE /\ spanned = FALSE
    /\ found = [o \in Op |-> {}] /\ purged = [o \in Op |-> {}]

\* deserializeOperation(): a hash without a type is no operation.
Seen(o) == hash[o].type # None

Present == {f \in Flag : flags[f] # "absent"}

-----------------------------------------------------------------------------
(* Creation, listing and deletion.                                         *)

\* Mutant: the index is written first.
IndexFirst == <<"index", "hash">>

\* createOperation() of the store: HSET, then ZADD.
CreateOrder == <<"hash", "index">>

\* createOperation() of the service; a v1 purge needs a migration that is DONE.
Create(o) ==
    /\ creating[o] = "idle" /\ wanted[o] # None
    /\ wanted[o] = "v1purge" => \E m \in index : hash[m] = [type |-> "migration", status |-> "DONE"]
    /\ creating' = [creating EXCEPT ![o] = wanted[o]]
    /\ UNCHANGED <<wanted, store, data, scan, run, save, history, budget>>

StoreHash(o, t) ==
    hash' = [hash EXCEPT ![o] = [type |-> t, status |-> "SCANNING"]] /\ UNCHANGED <<index, list>>
StoreIndex(o) ==
    index' = index \cup {o} /\ UNCHANGED <<hash, list>>

Store(o, what, t) == IF what = "hash" THEN StoreHash(o, t) ELSE StoreIndex(o)

Store1(o) ==
    /\ creating[o] \in Types
    /\ Store(o, CreateOrder[1], creating[o])
    /\ creating' = [creating EXCEPT ![o] = "second"]
    /\ scan' = [scan EXCEPT ![o] = [NoScan EXCEPT !.pc = "start", !.type = creating[o]]]
    /\ UNCHANGED <<wanted, data, run, save, history, budget>>

\* The second command; then the scan runs in the background and the client has its 201.
Store2(o) ==
    /\ creating[o] = "second"
    /\ Store(o, CreateOrder[2], scan[o].type)
    /\ creating' = [creating EXCEPT ![o] = "done"]
    /\ acked' = acked \cup {o}
    /\ UNCHANGED <<wanted, data, scan, run, save, gone, keysSeen, mishaps, budget>>

Spend(what) == budget[what] > 0 /\ budget' = [budget EXCEPT ![what] = @ - 1]
Fault == Spend("faults")

\* A command fails, the ZADD maybe after its effect: the client has an error, and there
\* may be a hash, listed or not, that nobody scans.
CreateFails(o) ==
    /\ creating[o] \in Types \cup {"second"} /\ Fault
    /\ \/ UNCHANGED store
       \/ creating[o] = "second" /\ Store(o, CreateOrder[2], scan[o].type)
    /\ creating' = [creating EXCEPT ![o] = "failed"]
    /\ scan' = [scan EXCEPT ![o] = [NoScan EXCEPT !.pc = "ended"]]
    /\ orphans' = orphans \cup {o}
    /\ UNCHANGED <<wanted, data, run, save, answers, keysSeen, safe, overlap, spanned, doubled, misled>>

\* listOperations() drops an id from the index when it finds no operation for it.
ListDrops(o) ==
    /\ o \in index /\ ~Seen(o)
    /\ index' = index \ {o}
    /\ UNCHANGED <<wanted, hash, list, data, jobs, save, history, budget>>

\* deleteOperation(): DEL of hash and list, whatever its jobs are at ...
Delete1(o) ==
    /\ creating[o] = "done" \/ (creating[o] = "failed" /\ o \in index)
    /\ Spend("deletes")
    /\ hash' = [hash EXCEPT ![o] = NoHash]
    /\ list' = [list EXCEPT ![o] = <<>>]
    /\ creating' = [creating EXCEPT ![o] = "deleting"]
    /\ UNCHANGED <<wanted, index, data, scan, run, save, history>>

\* ... and ZREM.
Delete2(o) ==
    /\ creating[o] = "deleting"
    /\ index' = index \ {o}
    /\ creating' = [creating EXCEPT ![o] = "deleted"]
    /\ gone' = gone \cup {o}
    /\ UNCHANGED <<wanted, hash, list, data, scan, run, save, acked, keysSeen, mishaps, budget>>

\* The DEL took effect and the client has an error: the entry may be left in the index.
DeleteFails(o) ==
    /\ creating[o] = "deleting" /\ Fault
    /\ creating' = [creating EXCEPT ![o] = "deleted"]
    /\ index' \in {index, index \ {o}}
    /\ UNCHANGED <<wanted, hash, list, data, scan, run, save, history>>

-----------------------------------------------------------------------------
(* The scan.                                                               *)

Scanning(o, pc) == o \in acked /\ scan[o].pc = pc

\* scanStaleFlagsForManagement(), scanMatchingFlagsForManagement(): DEL of the list.
ScanStart(o) ==
    /\ Scanning(o, "start") /\ scan[o].type \in {"stale", "matching"}
    /\ list' = [list EXCEPT ![o] = <<>>]
    /\ scan' = [scan EXCEPT ![o] = [@ EXCEPT !.pc = "scan", !.left = Present]]
    /\ UNCHANGED <<wanted, hash, index, data, creating, run, save, history, budget>>

\* Mutant: whatever the scan returns is listed.
ChosenAll(o, f) == TRUE

\* findStaleKeys(), findMatchingFlagKeys()
Chosen(o, f) == IF scan[o].type = "matching" THEN f \in Pattern ELSE flags[f] = "stale"

\* One SCAN and the look at what it returned: keys there from the start come at least
\* once, any key may come again.
ScanBatch(o, keys) ==
    /\ Scanning(o, "scan") /\ scan[o].left \cap Present # {}
    /\ keys \subseteq Present /\ keys \cap scan[o].left # {}
    /\ LET match == {f \in keys : Chosen(o, f)} IN
       /\ scan' = [scan EXCEPT ![o].pc = "push", ![o].left = @ \ keys, ![o].match = match]
       /\ found' = [found EXCEPT ![o] = @ \cup 
                   IF scan[o].type = "matching" THEN keys \cap Pattern
                   ELSE {f \in keys : flags[f] = "stale"}]
    /\ UNCHANGED <<wanted, store, data, creating, run, save, answers, purged, copied, mishaps, budget>>

\* appendMatchedKeys(): RPUSH.
ScanPush(o) ==
    /\ Scanning(o, "push")
    /\ list' = [list EXCEPT ![o] = @ \o SetToSeq(scan[o].match)]
    /\ scan' = [scan EXCEPT ![o].pc = "scan", ![o].match = {}]
    /\ UNCHANGED <<wanted, hash, index, data, creating, run, save, history, budget>>

\* SCAN has been through all keys; scans of v1 keys only count them.
Through(o) ==
    \/ Scanning(o, "scan") /\ scan[o].left \cap Present = {}
    \/ Scanning(o, "start") /\ scan[o].type \in {"migration", "v1purge"}

Stop(o, pc) == scan' = [scan EXCEPT ![o] = [NoScan EXCEPT !.pc = pc]]

\* HSET of READY, whether or not the operation is still there.
ScanEnd(o) ==
    /\ Through(o)
    /\ hash' = [hash EXCEPT ![o].status = "READY"]
    /\ Stop(o, "ended")
    /\ UNCHANGED <<wanted, index, list, data, creating, run, save, history, budget>>

\* The same, but its reply is lost: the scan goes to its catch.
ScanUnheard(o) ==
    /\ Through(o) /\ Fault
    /\ hash' = [hash EXCEPT ![o].status = "READY"]
    /\ Stop(o, "mark")
    /\ misled' = misled \cup {o}
    /\ UNCHANGED <<wanted, index, list, data, creating, run, save, answers, keysSeen, safe, overlap, spanned,
                   doubled, orphans>>

\* Mutant: the catch logs the error and no more.
LogFailed(o) == UNCHANGED store

\* The catch of runBackground(): HSET of FAILED, over whatever the status is ...
WriteFailed(o) == hash' = [hash EXCEPT ![o].status = "FAILED"] /\ UNCHANGED <<index, list>>

\* ... and DEL of the list.
DropList(o) == list' = [list EXCEPT ![o] = <<>>] /\ UNCHANGED <<hash, index>>

ScanMark(o) ==
    /\ Scanning(o, "mark")
    /\ WriteFailed(o)
    /\ Stop(o, "clear")
    /\ UNCHANGED <<wanted, data, creating, run, save, history, budget>>

ScanClear(o) ==
    /\ Scanning(o, "clear")
    /\ DropList(o)
    /\ Stop(o, "ended")
    /\ UNCHANGED <<wanted, data, creating, run, save, history, budget>>

\* Where an error takes a job: to its catch, or, in its catch, to its end.
Catch == {"mark", "clear"}
Caught(pc) == IF pc \in Catch THEN "ended" ELSE "mark"

\* What fails in a catch is not counted: an error brought the job there.
FaultAt(pc) == IF pc \in Catch THEN UNCHANGED budget ELSE Fault

ScanFails(o) ==
    /\ o \in acked /\ scan[o].pc \notin {"idle", "ended"} /\ FaultAt(scan[o].pc)
    /\ Stop(o, Caught(scan[o].pc))
    /\ orphans' = IF scan[o].pc = "mark" THEN orphans \cup {o} ELSE orphans
    /\ UNCHANGED <<wanted, store, data, creating, run, save, answers, keysSeen, safe, overlap, spanned, doubled,
                   misled>>

-----------------------------------------------------------------------------
(* PATCH and the run it starts.                                            *)

Runs(p, pc) == run[p].pc = pc
Goto(p, pc) == run' = [run EXCEPT ![p].pc = pc]

Ended == [NoRun EXCEPT !.pc = "ended"]
End(p) == run' = [run EXCEPT ![p] = Ended]

Arrives(p) == Runs(p, "idle") /\ (\A q \in 1 .. p - 1 : ~Runs(q, "idle")) /\ Spend("patches")

\* PATCHes that read o READY and have not yet written EXECUTING.
Open(o) == {q \in Patch : run[q].op = o /\ run[q].pc \in {"check", "confirm"}}

\* Mutant: the status is not looked at.
PatchGetAny(p, o) ==
    /\ Arrives(p) /\ Seen(o)
    /\ run' = [run EXCEPT ![p] = [NoRun EXCEPT
         !.pc = IF hash[o].type = "migration" THEN "check" ELSE "confirm",
         !.op = o, !.type = hash[o].type]]
    /\ doubled' = IF Open(o) # {} THEN doubled \cup {o} ELSE doubled
    /\ UNCHANGED <<wanted, store, data, creating, scan, save, answers, keysSeen, safe, overlap, spanned, misled,
                   orphans>>

\* transitionToExecuting(): HGETALL; only a READY operation goes on ...
PatchGet(p, o) ==
    /\ Arrives(p) /\ Seen(o) /\ hash[o].status = "READY"
    /\ run' = [run EXCEPT ![p] = [NoRun EXCEPT
         !.pc = IF hash[o].type = "migration" THEN "check" ELSE "confirm",
         !.op = o, !.type = hash[o].type]]
    /\ doubled' = IF Open(o) # {} THEN doubled \cup {o} ELSE doubled
    /\ UNCHANGED <<wanted, store, data, creating, scan, save, answers, keysSeen, safe, overlap, spanned, misled,
                   orphans>>

\* Migrations past their look at the workspace.
Migrating == {p \in Patch : run[p].type = "migration" /\ run[p].pc \in {"confirm", "copy", "write"}}

\* Mutant: a migration does not ask whether there are mocks.
PatchCheckNothing(p) ==
    /\ Runs(p, "check")
    /\ Goto(p, "confirm")
    /\ UNCHANGED <<wanted, store, data, creating, scan, save, history, budget>>

\* ... a migration only into a workspace without mocks (hasOwnMocks()) ...
PatchCheck(p) ==
    /\ Runs(p, "check")
    /\ IF mocks = {} THEN Goto(p, "confirm") ELSE End(p)
    /\ overlap' = (overlap \/ (mocks = {} /\ Migrating # {}))
    /\ UNCHANGED <<wanted, store, data, creating, scan, save, answers, keysSeen, safe, spanned, doubled, misled,
                   orphans, budget>>

Execute(o) == hash' = [hash EXCEPT ![o].status = "EXECUTING"] /\ UNCHANGED <<index, list>>

\* ... HSET of EXECUTING, and executeOperation() in the background.
PatchConfirm(p) ==
    /\ Runs(p, "confirm")
    /\ Execute(run[p].op)
    /\ run' = [run EXCEPT ![p].pc = CASE run[p].type = "migration" -> "copy"
                                      [] run[p].type = "v1purge" -> "wipe"
                                      [] OTHER -> "pop",
                          ![p].left = IF run[p].type = "migration" THEN v1 \ {"mocks"} ELSE {}]
    /\ UNCHANGED <<wanted, data, creating, scan, save, history, budget>>

\* A command of the PATCH fails: an error, and no run.
PatchFails(p) ==
    /\ run[p].pc \in {"check", "confirm"} /\ Fault
    /\ End(p)
    /\ UNCHANGED <<wanted, store, data, creating, scan, save, history>>

\* EXECUTING is written and the reply lost: no run either, and nobody to end it.
PatchUnheard(p) ==
    /\ Runs(p, "confirm") /\ Fault
    /\ Execute(run[p].op)
    /\ End(p)
    /\ orphans' = orphans \cup {run[p].op}
    /\ UNCHANGED <<wanted, data, creating, scan, save, answers, keysSeen, safe, overlap, spanned, doubled, misled>>

\* purgeStaleFlagsForManagement(): LPOP of a batch ...
Pop(p) ==
    /\ Runs(p, "pop") /\ list[run[p].op] # <<>>
    /\ LET o == run[p].op
           n == IF Len(list[o]) < Batch THEN Len(list[o]) ELSE Batch
       IN  /\ list' = [list EXCEPT ![o] = SubSeq(@, n + 1, Len(@))]
           /\ run' = [run EXCEPT ![p].pc = "del", ![p].batch = Range(SubSeq(list[o], 1, n))]
    /\ UNCHANGED <<wanted, hash, index, data, creating, scan, save, history, budget>>

\* ... none is left ...
PopNothing(p) ==
    /\ Runs(p, "pop") /\ list[run[p].op] = <<>>
    /\ Goto(p, "finish")
    /\ UNCHANGED <<wanted, store, data, creating, scan, save, history, budget>>

\* ... DEL of its keys, touched since the scan or not ...
Del(p) ==
    /\ Runs(p, "del")
    /\ flags' = [f \in Flag |-> IF f \in run[p].batch THEN "absent" ELSE flags[f]]
    /\ purged' = [purged EXCEPT ![run[p].op] = @ \cup (run[p].batch \cap Present)]
    /\ run' = [run EXCEPT ![p].pc = "pop", ![p].batch = {}]
    /\ UNCHANGED <<wanted, store, v1, mocks, creating, scan, save, answers, found, copied, mishaps, budget>>

\* executeV1MigrationForManagement(): the flags, batch by batch (SCAN as above) ...
CopyFlags(p, keys) ==
    /\ Runs(p, "copy") /\ keys \subseteq v1 \ {"mocks"} /\ keys \cap run[p].left # {}
    /\ flags' = [f \in Flag |-> IF f \in keys THEN "fresh" ELSE flags[f]]
    /\ run' = [run EXCEPT ![p].left = @ \ keys]
    /\ copied' = copied \cup keys
    /\ UNCHANGED <<wanted, store, v1, mocks, creating, scan, save, answers, found, purged, mishaps, budget>>

\* ... then the mocks of v1 are read (HGETALL) ...
ReadMocks(p) ==
    /\ Runs(p, "copy") /\ run[p].left \cap v1 = {}
    /\ run' = [run EXCEPT ![p].pc = "write", ![p].left = v1 \cap {"mocks"}]
    /\ UNCHANGED <<wanted, store, data, creating, scan, save, history, budget>>

\* ... and replace the document (SET; it is deployed too).
WriteMocks(p) ==
    /\ Runs(p, "write")
    /\ mocks' = IF "mocks" \in run[p].left THEN {"v1"} ELSE {}
    /\ copied' = copied \cup run[p].left
    /\ spanned' = (spanned \/ save.open)
    /\ run' = [run EXCEPT ![p].pc = "finish", ![p].left = {}]
    /\ UNCHANGED <<wanted, store, flags, v1, creating, scan, save, answers, found, purged, safe, overlap, doubled,
                   misled, orphans, budget>>

\* executeV1PurgeForManagement(): first the documents, then the flags.
Wipe(p, keys) ==
    /\ Runs(p, "wipe") /\ keys \subseteq v1 /\ keys # {}
    /\ "mocks" \in v1 => keys = {"mocks"}
    /\ v1' = v1 \ keys
    /\ UNCHANGED <<wanted, store, flags, mocks, jobs, save, history, budget>>

WipeNothing(p) ==
    /\ Runs(p, "wipe") /\ v1 = {}
    /\ Goto(p, "finish")
    /\ UNCHANGED <<wanted, store, data, creating, scan, save, history, budget>>

\* updateOperation(): HSET of DONE ...
RunDone(p) ==
    /\ Runs(p, "finish")
    /\ hash' = [hash EXCEPT ![run[p].op].status = "DONE"]
    /\ Goto(p, "drop")
    /\ UNCHANGED <<wanted, index, list, data, creating, scan, save, history, budget>>

\* ... and DEL of the list.
RunDrop(p) ==
    /\ Runs(p, "drop")
    /\ DropList(run[p].op)
    /\ End(p)
    /\ UNCHANGED <<wanted, data, creating, scan, save, history, budget>>

\* The catch, as for a scan.
RunMark(p) ==
    /\ Runs(p, "mark")
    /\ WriteFailed(run[p].op)
    /\ Goto(p, "clear")
    /\ UNCHANGED <<wanted, data, creating, scan, save, history, budget>>

RunClear(p) ==
    /\ Runs(p, "clear")
    /\ DropList(run[p].op)
    /\ End(p)
    /\ UNCHANGED <<wanted, data, creating, scan, save, history, budget>>

Background == {"pop", "del", "copy", "write", "wipe", "finish", "drop", "mark", "clear"}

\* A command fails, or the reply to the one before it was lost.
RunFails(p) ==
    /\ run[p].pc \in Background /\ FaultAt(run[p].pc)
    /\ IF Caught(run[p].pc) = "ended" THEN End(p) ELSE Goto(p, "mark")
    /\ misled' = IF Runs(p, "drop") THEN misled \cup {run[p].op} ELSE misled
    /\ orphans' = IF Runs(p, "mark") THEN orphans \cup {run[p].op} ELSE orphans
    /\ UNCHANGED <<wanted, store, data, creating, scan, save, answers, keysSeen, safe, overlap, spanned, doubled>>

\* Some job or request works on o.
Busy(o) ==
    \/ creating[o] \in Types \cup {"second"} \/ scan[o].pc \notin {"idle", "ended"}
    \/ \E p \in Patch : run[p].op = o /\ run[p].pc \in Background

\* The process dies and all its jobs with it; what it wrote stays as it is.
Dies ==
    /\ Fault
    /\ creating' = [o \in Op |-> CASE creating[o] \in Types \cup {"second"} -> "failed"
                                     [] creating[o] = "deleting" -> "deleted"
                                     [] OTHER -> creating[o]]
    /\ scan' = [o \in Op |-> [NoScan EXCEPT !.pc = IF scan[o].pc = "idle" THEN "idle" ELSE "ended"]]
    /\ run' = [p \in Patch |-> IF run[p].pc = "idle" THEN NoRun ELSE Ended]
    /\ save' = NoSave
    /\ orphans' = orphans \cup {o \in Op : Busy(o)}
    /\ UNCHANGED <<wanted, store, data, answers, keysSeen, safe, overlap, spanned, doubled, misled>>

-----------------------------------------------------------------------------
(* Everybody else.                                                         *)

\* A mock or a test sets or reads a flag.
Touch(f) ==
    /\ flags[f] = "stale"
    /\ flags' = [flags EXCEPT ![f] = "fresh"]
    /\ UNCHANGED <<wanted, store, v1, mocks, jobs, save, history, budget>>

\* saveMock(): GET of the document ...
SaveRead ==
    /\ ~save.open /\ Asked({"migration"})
    /\ save' = [open |-> TRUE, read |-> mocks]
    /\ UNCHANGED <<wanted, store, data, jobs, history, budget>>

\* ... and SET of what it read with the mock in it; a migration that already looked
\* does not see it.
SaveWrite ==
    /\ save.open
    /\ mocks' = save.read \cup {"user"}
    /\ save' = NoSave
    /\ safe' = (safe \/ Migrating = {})
    /\ UNCHANGED <<wanted, store, flags, v1, jobs, answers, keysSeen, overlap, spanned, doubled, misled, orphans, budget>>

\* The SET fails, or takes effect and its reply is lost: the user has an error.
SaveFails ==
    /\ save.open /\ Fault
    /\ mocks' \in {mocks, save.read \cup {"user"}}
    /\ save' = NoSave
    /\ UNCHANGED <<wanted, store, flags, v1, jobs, history>>

ScanStep(o) ==
    \/ ScanStart(o) \/ ScanPush(o) \/ ScanEnd(o) \/ ScanMark(o) \/ ScanClear(o)
    \/ \E keys \in SUBSET Flag : ScanBatch(o, keys)

PatchStep(p) == PatchCheck(p) \/ PatchConfirm(p)

RunStep(p) ==
    \/ Pop(p) \/ PopNothing(p) \/ Del(p) \/ ReadMocks(p) \/ WriteMocks(p) \/ WipeNothing(p)
    \/ RunDone(p) \/ RunDrop(p) \/ RunMark(p) \/ RunClear(p)
    \/ \E keys \in SUBSET (Flag \cup {"mocks"}) : CopyFlags(p, keys) \/ Wipe(p, keys)

Next ==
    \/ \E o \in Op :
        \/ Create(o) \/ Store1(o) \/ Store2(o) \/ CreateFails(o)
        \/ ListDrops(o) \/ Delete1(o) \/ Delete2(o) \/ DeleteFails(o)
        \/ ScanStep(o) \/ ScanUnheard(o) \/ ScanFails(o)
    \/ \E p \in Patch :
        \/ \E o \in Op : PatchGet(p, o)
        \/ PatchStep(p) \/ PatchFails(p) \/ PatchUnheard(p)
        \/ RunStep(p) \/ RunFails(p)
    \/ Dies \/ SaveRead \/ SaveWrite \/ SaveFails
    \/ \E f \in Flag : Touch(f)

Spec == Init /\ [][Next]_vars

\* Background jobs go on while the process lives and Redis answers; requests that were
\* begun go on too.
FairSpec ==
    /\ Spec
    /\ \A o \in Op : WF_vars(ScanStep(o)) /\ WF_vars(Store1(o) \/ Store2(o))
    /\ \A p \in Patch : WF_vars(PatchStep(p) \/ RunStep(p))

-----------------------------------------------------------------------------
\* Scans that may still fill their list.
Filling == {"start", "scan", "push"}

\* A purge removes only flags its scan chose (matching the pattern, or stale when the
\* scan looked), and takes nothing from a list that a scan still fills.
PurgedWasChosen ==
    \A o \in Op :
        /\ purged[o] \subseteq found[o]
        /\ \A p \in Patch : run[p].op = o /\ run[p].pc \in Background => scan[o].pc \notin Filling

\* An operation answered 201 is listed until it is deleted; deleted, it is not there to
\* be listed or confirmed again, whatever its jobs still write, and its runs pop no
\* further batch.
ListedUntilDeleted ==
    /\ \A o \in acked : creating[o] = "done" => Seen(o) /\ o \in index
    /\ \A o \in gone :
        /\ ~Seen(o) /\ o \notin index
        /\ \A p \in Patch : run[p].op = o /\ run[p].pc = "pop" => list[o] = <<>>

\* A migration overwrites no mock that was saved with no migration past its look; a v1
\* purge removes only what a migration had copied; and the mocks of v1 are never gone
\* from both sides, but for two cases: two migrations overlapped, and the slower one
\* read a v1 that was purged; or a save was open when the migration wrote, and put the
\* document it had read back over it.
MigrationKeepsData ==
    /\ safe => "user" \in mocks
    /\ Asked({"migration"}) =>
        /\ (V1Flag \cup {"mocks"}) \ v1 \subseteq copied
        /\ "mocks" \in v1 \/ "v1" \in mocks \/ overlap \/ spanned

\* What is DONE stays DONE: nothing runs it again or calls it FAILED, but for two cases:
\* two PATCHes were open on it at once, or one of its jobs met an error after it had
\* written READY or DONE (the reply was lost, or the DEL that follows failed).
DoneStays ==
    [][\A o \in Op : Seen(o) /\ hash[o].status = "DONE" =>
        ~Seen(o)' \/ hash'[o].status = "DONE" \/ o \in doubled \cup misled]_vars

\* A scan or a run comes to an end the user can see, unless nobody is left to end it:
\* its process died, an error came between the first write and the start of the job, or
\* the job could not even say that it failed.
RunsEnd ==
    \A o \in Op :
        hash[o].status \in {"SCANNING", "EXECUTING"}
            ~> hash[o].status \notin {"SCANNING", "EXECUTING"} \/ o \in orphans

=============================================================================
