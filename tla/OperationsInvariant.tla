-------------------------- MODULE OperationsInvariant --------------------------
(***************************************************************************)
(* The inductive invariant of Operations.                                  *)
(***************************************************************************)
EXTENDS Operations

Creations == Types \cup {"idle", "second", "done", "deleting", "deleted", "failed"}
ScanRecord == [pc : Filling \cup Catch \cup {"idle", "ended"}, type : Types \cup {None},
               left : SUBSET Flag, match : SUBSET Flag]
RunRecord == [pc : Background \cup {"idle", "check", "confirm", "ended"},
              op : Op \cup {None}, type : Types \cup {None},
              batch : SUBSET Flag, left : SUBSET (Flag \cup {"mocks"})]

TypeOK ==
    /\ wanted \in [Op -> Types \cup {None}]
    /\ hash \in [Op -> [type : Types \cup {None}, status : Statuses \cup {None}]]
    /\ index \subseteq Op /\ list \in [Op -> Seq(Flag)]
    /\ flags \in [Flag -> {"stale", "fresh", "absent"}]
    /\ v1 \subseteq Flag \cup {"mocks"} /\ mocks \subseteq {"user", "v1"}
    /\ creating \in [Op -> Creations] /\ scan \in [Op -> ScanRecord] /\ run \in [Patch -> RunRecord]
    /\ save \in [open : BOOLEAN, read : SUBSET {"user", "v1"}]
    /\ acked \subseteq Op /\ gone \subseteq Op
    /\ doubled \subseteq Op /\ misled \subseteq Op /\ orphans \subseteq Op
    /\ found \in [Op -> SUBSET Flag] /\ purged \in [Op -> SUBSET Flag]
    /\ safe \in BOOLEAN /\ overlap \in BOOLEAN /\ spanned \in BOOLEAN
    /\ budget \in [patches : Nat, deletes : Nat, faults : Nat]

Working == Background \cup {"check", "confirm"}

\* p has found o and is at work on it.
Concerns(p, o) == run[p].pc \in Working /\ run[p].op = o

Unstored == Types \cup {"idle"}

-----------------------------------------------------------------------------
\* The hash and the entry of the index follow the creation and the deletion.
FiledAs(o) ==
    /\ creating[o] \in Types => creating[o] = wanted[o]
    /\ creating[o] \in Unstored => ~Seen(o) /\ o \notin index /\ scan[o].pc = "idle"
    /\ creating[o] \in {"second", "done"} => Seen(o)
    /\ creating[o] = "done" => o \in index
    /\ creating[o] \in {"deleting", "deleted"} => ~Seen(o)
    /\ o \in acked => creating[o] \in {"done", "deleting", "deleted"}
    /\ o \in gone => creating[o] = "deleted" /\ o \notin index
    /\ Seen(o) => hash[o].type = wanted[o]

Filed == \A o \in Op : FiledAs(o)

\* A PATCH finds only what is scanned through, and no list after a deletion.
Late(p, o) ==
    /\ scan[o].pc \notin Filling \cup {"idle"}
    /\ creating[o] \notin Unstored
    /\ run[p].type = wanted[o]
    /\ creating[o] \in {"deleting", "deleted"} => list[o] = <<>>

Scanned ==
    /\ \A o \in Op : hash[o].status \in Statuses \ {"SCANNING"} => scan[o].pc \notin Filling \cup {"idle"}
    /\ \A p \in Patch : run[p].pc \in Working => run[p].op \in Op
    /\ \A o \in Op, p \in Patch : Concerns(p, o) => Late(p, o)

\* Whatever is on its way to be purged was found by the scan.
Chose ==
    /\ \A o \in Op : Range(list[o]) \cup scan[o].match \cup purged[o] \subseteq found[o]
    /\ \A p \in Patch : run[p].pc \in Working => run[p].batch \subseteq found[run[p].op]

\* Each job does the work of its type.
Fitting ==
    \A p \in Patch :
        /\ run[p].pc \in Working => run[p].type \in Types
        /\ run[p].pc \in {"check", "copy", "write"} => run[p].type = "migration"
        /\ run[p].pc \in {"pop", "del"} => run[p].type \in {"stale", "matching"}
        /\ run[p].pc = "wipe" => run[p].type = "v1purge"

AllCopied == V1Flag \cup {"mocks"} \subseteq copied

\* What a migration that is under way has copied, and what follows from one that is DONE.
Copied ==
    /\ \A p \in Patch :
        /\ run[p].pc = "copy" => V1Flag \ {"mocks"} \subseteq copied \cup run[p].left
        /\ run[p].pc = "write" =>
             V1Flag \ {"mocks"} \subseteq copied /\ "mocks" \in copied \cup run[p].left
        /\ run[p].pc = "finish" /\ run[p].type = "migration" => AllCopied
    /\ \A o \in Op :
        /\ hash[o] = [type |-> "migration", status |-> "DONE"] => AllCopied
        /\ wanted[o] = "v1purge" /\ creating[o] # "idle" => AllCopied
    /\ Asked({"migration"}) => (V1Flag \cup {"mocks"}) \ v1 \subseteq copied

\* The mocks: once they are copied the workspace is not empty, so nobody migrates again;
\* and a save that opens then has read them.
Moved ==
    /\ overlap \/ \A p, q \in Migrating : p = q
    /\ overlap \/ "mocks" \notin copied \/ (mocks # {} /\ Migrating = {})
    /\ overlap \/ spanned \/ "mocks" \notin copied \/ ("v1" \in mocks /\ (save.open => "v1" \in save.read))
    /\ safe => "user" \in mocks /\ Migrating = {}

-----------------------------------------------------------------------------
(* Unless two PATCHes were open at once or a job was misled, one job at    *)
(* most works on an operation, and the status is the one it last wrote or  *)
(* read.                                                                   *)

ScanDue(pc, status) ==
    /\ pc \in Filling \cup {"mark"} => status = "SCANNING"
    /\ pc = "clear" => status = "FAILED"

RunDue(pc, status) ==
    /\ pc \in {"check", "confirm"} => status = "READY"
    /\ pc \in Background \ {"drop", "clear"} => status = "EXECUTING"
    /\ pc = "drop" => status = "DONE"
    /\ pc = "clear" => status = "FAILED"

LoneAt(o) ==
    /\ ScanDue(scan[o].pc, hash[o].status)
    /\ \A p \in Patch : Concerns(p, o) => RunDue(run[p].pc, hash[o].status)
    /\ \A p, q \in Patch : Concerns(p, o) /\ Concerns(q, o) => p = q

Lone == \A o \in Op : Seen(o) /\ o \notin doubled \cup misled => LoneAt(o)

OperationsInv == TypeOK /\ Filed /\ Scanned /\ Chose /\ Fitting /\ Copied /\ Moved /\ Lone

=============================================================================
