--------------------------- MODULE OperationsProofs ---------------------------
(***************************************************************************)
(* Theorems about Operations, for any operations that users ask for, any   *)
(* number of PATCHes and deletions, any finite set of flags, batches of any   *)
(* size and any number of faults.                                          *)
(***************************************************************************)
EXTENDS OperationsInvariant, FiniteSetTheorems, SequenceTheorems, TLAPS

-----------------------------------------------------------------------------
(* Lists of flags.                                                         *)

LEMMA SetToSeqProperties ==
    ASSUME NEW S \in SUBSET Flag
    PROVE  SetToSeq(S) \in Seq(Flag) /\ Range(SetToSeq(S)) \subseteq S
<1>1. IsFiniteSet(S)
  BY FS_Subset, OperationsAssumption
<1> DEFINE n == Cardinality(S)
<1>2. n \in Nat /\ ExistsBijection(1 .. n, S)
  BY <1>1, FS_CardinalityType
<1>3. \E f \in [1 .. n -> S] : IsInjective(f)
  BY <1>2 DEF ExistsBijection, Bijection, Injection
<1>4. SetToSeq(S) \in [1 .. n -> S]
  BY <1>3 DEF SetToSeq
<1> HIDE DEF n
<1>5. SetToSeq(S) \in [1 .. n -> Flag]
  BY <1>4
<1>6. SetToSeq(S) \in Seq(Flag)
  BY <1>2, <1>5, SeqDef
<1>7. Range(SetToSeq(S)) \subseteq S
  BY <1>4 DEF Range
<1> QED
  BY <1>6, <1>7

\* A part of a list holds nothing else than the list.
LEMMA PartProperties ==
    ASSUME NEW l \in Seq(Flag), NEW m \in Nat \ {0}, NEW n \in Nat, n <= Len(l)
    PROVE  SubSeq(l, m, n) \in Seq(Flag) /\ Range(SubSeq(l, m, n)) \subseteq Range(l)
<1>1. \A i \in m .. n : i \in 1 .. Len(l)
  BY LenProperties
<1>2. \A i \in m .. n : l[i] \in Flag /\ i \in DOMAIN l
  BY <1>1, ElementOfSeq, LenProperties
<1>3. \A i \in m .. n : l[i] \in Range(l)
  BY <1>2 DEF Range
<1>4. SubSeq(l, m, n) \in Seq(Flag)
  BY <1>2, SubSeqProperties
<1>5. SubSeq(l, m, n) \in Seq(Range(l))
  BY <1>3, SubSeqProperties
<1> QED
  BY <1>4, <1>5, RangeOfSeq

\* A batch popped, and what is left, are of the list.
LEMMA PopProperties ==
    ASSUME NEW l \in Seq(Flag), NEW n, n = IF Len(l) < Batch THEN Len(l) ELSE Batch
    PROVE  /\ SubSeq(l, n + 1, Len(l)) \in Seq(Flag)
           /\ Range(SubSeq(l, n + 1, Len(l))) \subseteq Range(l)
           /\ Range(SubSeq(l, 1, n)) \subseteq Range(l)
<1>1. n \in Nat /\ n <= Len(l) /\ Len(l) \in Nat
  BY OperationsAssumption, LenProperties
<1> QED
  BY <1>1, PartProperties

LEMMA PushProperties ==
    ASSUME NEW l \in Seq(Flag), NEW S \in SUBSET Flag
    PROVE  l \o SetToSeq(S) \in Seq(Flag) /\ Range(l \o SetToSeq(S)) \subseteq Range(l) \cup S
  BY SetToSeqProperties, ConcatProperties, RangeConcatenation

LEMMA EmptyRange == Range(<<>>) = {} /\ <<>> \in Seq(Flag)
  BY EmptySeq DEF Range

-----------------------------------------------------------------------------
(* The steps, by who takes them.                                           *)

Creates(o) ==
    \/ Create(o) \/ Store1(o) \/ Store2(o) \/ CreateFails(o)
    \/ ListDrops(o) \/ Delete1(o) \/ Delete2(o) \/ DeleteFails(o)

Scans(o) == ScanStep(o) \/ ScanUnheard(o) \/ ScanFails(o)

Works(p) == PatchStep(p) \/ PatchFails(p) \/ PatchUnheard(p) \/ RunStep(p) \/ RunFails(p)

Saves == SaveRead \/ SaveWrite \/ SaveFails

LEMMA Steps ==
    ASSUME [Next]_vars
    PROVE  \/ \E o \in Op : Creates(o) \/ Scans(o)
           \/ \E p \in Patch : Works(p) \/ \E o \in Op : PatchGet(p, o)
           \/ Dies \/ Saves \/ (\E f \in Flag : Touch(f)) \/ UNCHANGED vars
  BY DEF Next, Creates, Scans, Works, Saves

-----------------------------------------------------------------------------
(* Types.                                                                  *)

HashRecord == [type : Types \cup {None}, status : Statuses \cup {None}]
Budgets == [patches : Nat, deletes : Nat, faults : Nat]
SaveRecord == [open : BOOLEAN, read : SUBSET {"user", "v1"}]
RunPcs == Working \cup {"idle", "ended"}
ScanPcs == Filling \cup Catch \cup {"idle", "ended"}

LEMMA InitType == Init => TypeOK
<1> SUFFICES ASSUME Init PROVE TypeOK
  OBVIOUS
<1>8. safe \in BOOLEAN /\ overlap \in BOOLEAN /\ spanned \in BOOLEAN
  BY DEF Init
<1>9. wanted \in [Op -> Types \cup {None}] /\ budget \in Budgets
  BY OperationsAssumption DEF Init, Budgets
<1>10. save \in SaveRecord
  BY DEF Init, NoSave, SaveRecord
<1> USE OperationsAssumption DEF Init
<1>2. hash \in [Op -> HashRecord]
  BY DEF NoHash, HashRecord
<1>3. index \subseteq Op /\ list \in [Op -> Seq(Flag)]
  BY EmptyRange
<1>4. flags \in [Flag -> {"stale", "fresh", "absent"}]
  OBVIOUS
<1>5. v1 \subseteq Flag \cup {"mocks"} /\ mocks \subseteq {"user", "v1"}
  OBVIOUS
<1>6. creating \in [Op -> Creations] /\ scan \in [Op -> ScanRecord] /\ run \in [Patch -> RunRecord]
  BY DEF Creations, ScanRecord, NoScan, RunRecord, NoRun
<1>7. /\ acked \subseteq Op /\ gone \subseteq Op /\ orphans \subseteq Op
      /\ doubled \subseteq Op /\ misled \subseteq Op
      /\ found \in [Op -> SUBSET Flag] /\ purged \in [Op -> SUBSET Flag]
  OBVIOUS
<1> QED
  BY <1>2, <1>3, <1>4, <1>5, <1>6, <1>7, <1>8, <1>9, <1>10 DEF TypeOK, HashRecord, Budgets, SaveRecord

LEMMA SpendType ==
    ASSUME TypeOK, NEW what \in {"patches", "deletes", "faults"}, Spend(what)
    PROVE  budget' \in Budgets
<1>1. budget \in Budgets
  BY DEF TypeOK, Budgets
<1>2. budget[what] - 1 \in Nat
  BY <1>1 DEF Spend, Budgets
<1> QED
  BY <1>1, <1>2 DEF Spend, Budgets

LEMMA FaultType == TypeOK /\ Fault => budget' \in Budgets
  BY SpendType DEF Fault

LEMMA FaultAtType == \A pc : TypeOK /\ FaultAt(pc) => budget' \in Budgets
  BY FaultType DEF FaultAt, TypeOK, Budgets

\* What each way of writing a record leaves of its type.
LEMMA ScanWritten ==
    ASSUME TypeOK, NEW o \in Op, NEW s \in ScanRecord, scan' = [scan EXCEPT ![o] = s]
    PROVE  scan' \in [Op -> ScanRecord]
<1>1. scan \in [Op -> ScanRecord]
  BY DEF TypeOK
<1> QED
  BY <1>1

LEMMA ScanEnded == ASSUME NEW pc \in ScanPcs
                   PROVE  [NoScan EXCEPT !.pc = pc] \in ScanRecord
  BY DEF NoScan, ScanRecord, ScanPcs

LEMMA StopType ==
    ASSUME TypeOK, NEW o \in Op, NEW pc \in ScanPcs, Stop(o, pc)
    PROVE  scan' \in [Op -> ScanRecord]
  BY ScanEnded, ScanWritten DEF Stop

LEMMA RunWritten ==
    ASSUME TypeOK, NEW p \in Patch, NEW r \in RunRecord, run' = [run EXCEPT ![p] = r]
    PROVE  run' \in [Patch -> RunRecord]
<1>1. run \in [Patch -> RunRecord]
  BY DEF TypeOK
<1> QED
  BY <1>1

LEMMA RunRewritten ==
    ASSUME TypeOK, NEW p \in Patch, NEW pc \in RunPcs, NEW b \in SUBSET Flag,
           run' = [run EXCEPT ![p].pc = pc, ![p].batch = b]
    PROVE  run' \in [Patch -> RunRecord]
<1>1. run \in [Patch -> RunRecord] /\ run[p] \in RunRecord
  BY DEF TypeOK
<1>2. [run[p] EXCEPT !.pc = pc, !.batch = b] \in RunRecord
  BY <1>1 DEF RunRecord, RunPcs, Working
<1>3. run' = [run EXCEPT ![p] = [run[p] EXCEPT !.pc = pc, !.batch = b]]
  OBVIOUS
<1> QED
  BY <1>2, <1>3, RunWritten

LEMMA RunLeft ==
    ASSUME TypeOK, NEW p \in Patch, NEW pc \in RunPcs, NEW l \in SUBSET (Flag \cup {"mocks"}),
           run' = [run EXCEPT ![p].pc = pc, ![p].left = l]
    PROVE  run' \in [Patch -> RunRecord]
<1>1. run \in [Patch -> RunRecord] /\ run[p] \in RunRecord
  BY DEF TypeOK
<1>2. [run[p] EXCEPT !.pc = pc, !.left = l] \in RunRecord
  BY <1>1 DEF RunRecord, RunPcs, Working
<1>3. run' = [run EXCEPT ![p] = [run[p] EXCEPT !.pc = pc, !.left = l]]
  OBVIOUS
<1> QED
  BY <1>2, <1>3, RunWritten

LEMMA StatusType ==
    ASSUME TypeOK, NEW o, NEW s \in Statuses, hash' = [hash EXCEPT ![o].status = s]
    PROVE  hash' \in [Op -> HashRecord]
<1>1. hash \in [Op -> HashRecord]
  BY DEF TypeOK, HashRecord
<1> QED
  BY <1>1 DEF HashRecord

LEMMA DropType ==
    ASSUME TypeOK, NEW o, DropList(o)
    PROVE  list' \in [Op -> Seq(Flag)] /\ hash' = hash /\ index' = index
  BY EmptyRange DEF DropList, TypeOK

LEMMA GotoType ==
    ASSUME TypeOK, NEW p \in Patch, NEW pc \in RunPcs, Goto(p, pc)
    PROVE  run' \in [Patch -> RunRecord]
<1>1. run \in [Patch -> RunRecord]
  BY DEF TypeOK
<1> QED
  BY <1>1 DEF Goto, RunRecord, RunPcs, Working

LEMMA EndedType == Ended \in RunRecord
  BY DEF Ended, NoRun, RunRecord

LEMMA EndType ==
    ASSUME TypeOK, NEW p \in Patch, End(p)
    PROVE  run' \in [Patch -> RunRecord]
  BY EndedType, RunWritten DEF End

LEMMA CreationType ==
    ASSUME TypeOK, NEW o \in Op, Creates(o)
    PROVE  TypeOK'
<1> USE DEF vars, store, data, jobs, history, answers, keysSeen, mishaps
<1>1. CASE Create(o)
  BY <1>1 DEF TypeOK, Create, Creations
<1>2. CASE Store1(o)
  <2>1. /\ creating[o] \in Types
        /\ hash' = [hash EXCEPT ![o] = [type |-> creating[o], status |-> "SCANNING"]]
    BY <1>2 DEF Store1, Store, StoreHash, CreateOrder
  <2>2. hash' \in [Op -> HashRecord]
    BY <2>1 DEF TypeOK, HashRecord, Statuses
  <2>3. [NoScan EXCEPT !.pc = "start", !.type = creating[o]] \in ScanRecord
    BY <2>1 DEF NoScan, ScanRecord, Filling
  <2>4. scan' \in [Op -> ScanRecord]
    BY <1>2, <2>3, ScanWritten DEF Store1
  <2> QED
    BY <1>2, <2>2, <2>4 DEF TypeOK, Store1, Store, StoreHash, StoreIndex, CreateOrder, Creations,
                            HashRecord
<1>3. CASE Store2(o)
  BY <1>3 DEF TypeOK, Store2, Store, StoreHash, StoreIndex, CreateOrder, Creations
<1>4. CASE CreateFails(o)
  <2>1. scan' \in [Op -> ScanRecord]
    BY <1>4, ScanEnded, ScanWritten DEF CreateFails, ScanPcs
  <2>2. budget' \in Budgets
    BY <1>4, FaultType DEF CreateFails
  <2>3. hash' = hash /\ list' = list /\ index' \subseteq Op
    BY <1>4 DEF CreateFails, Store, StoreIndex, CreateOrder, TypeOK
  <2> QED
    BY <1>4, <2>1, <2>2, <2>3 DEF TypeOK, CreateFails, Creations, Budgets
<1>5. CASE ListDrops(o)
  BY <1>5 DEF TypeOK, ListDrops
<1>6. CASE Delete1(o)
  <2>1. budget' \in Budgets
    BY <1>6, SpendType DEF Delete1
  <2> QED
    BY <1>6, <2>1, EmptyRange DEF TypeOK, Delete1, NoHash, Creations, Budgets
<1>7. CASE Delete2(o)
  BY <1>7 DEF TypeOK, Delete2, Creations
<1>8. CASE DeleteFails(o)
  <2>1. budget' \in Budgets
    BY <1>8, FaultType DEF DeleteFails
  <2> QED
    BY <1>8, <2>1 DEF TypeOK, DeleteFails, Creations, Budgets
<1> QED
  BY <1>1, <1>2, <1>3, <1>4, <1>5, <1>6, <1>7, <1>8 DEF Creates

LEMMA ScanType ==
    ASSUME TypeOK, NEW o \in Op, Scans(o)
    PROVE  TypeOK'
<1> USE DEF vars, store, data, jobs, history, answers, keysSeen, mishaps
<1>1. CASE ScanStart(o)
  <2>1. [scan[o] EXCEPT !.pc = "scan", !.left = Present] \in ScanRecord
    <3>1. scan[o] \in ScanRecord /\ Present \subseteq Flag
      BY DEF TypeOK, Present
    <3> QED
      BY <3>1 DEF ScanRecord, Filling
  <2>2. scan' \in [Op -> ScanRecord]
    BY <1>1, <2>1, ScanWritten DEF ScanStart
  <2> QED
    BY <1>1, <2>2, EmptyRange DEF TypeOK, ScanStart
<1>2. ASSUME NEW keys \in SUBSET Flag, ScanBatch(o, keys) PROVE TypeOK'
  <2> DEFINE match == {f \in keys : Chosen(o, f)}
             more == IF scan[o].type = "matching" THEN keys \cap Pattern
                     ELSE {f \in keys : flags[f] = "stale"}
  <2>1. match \subseteq Flag /\ more \subseteq Flag
    OBVIOUS
  <2> HIDE DEF match, more
  <2>2. /\ scan' = [scan EXCEPT ![o].pc = "push", ![o].left = @ \ keys, ![o].match = match]
        /\ found' = [found EXCEPT ![o] = @ \cup more]
    BY <1>2 DEF ScanBatch, match, more
  <2>3. scan' \in [Op -> ScanRecord]
    <3>1. scan \in [Op -> ScanRecord] /\ scan[o] \in ScanRecord
      BY DEF TypeOK
    <3> DEFINE left == scan[o].left \ keys
    <3>2. left \subseteq Flag
      BY <3>1 DEF ScanRecord
    <3>3. scan' = [scan EXCEPT ![o] = [scan[o] EXCEPT !.pc = "push", !.left = left, !.match = match]]
      BY <2>2, <3>1 DEF ScanRecord
    <3> HIDE DEF left
    <3>4. [scan[o] EXCEPT !.pc = "push", !.left = left, !.match = match] \in ScanRecord
      BY <2>1, <3>1, <3>2 DEF ScanRecord, Filling
    <3> QED
      BY <3>3, <3>4, ScanWritten
  <2>4. found' \in [Op -> SUBSET Flag]
    BY <2>1, <2>2 DEF TypeOK
  <2> QED
    BY <1>2, <2>3, <2>4 DEF TypeOK, ScanBatch
<1>3. CASE ScanPush(o)
  <2>1. list' \in [Op -> Seq(Flag)]
    BY <1>3, PushProperties DEF TypeOK, ScanPush, ScanRecord
  <2>2. scan' \in [Op -> ScanRecord]
    <3>1. scan \in [Op -> ScanRecord]
      BY DEF TypeOK
    <3> QED
      BY <1>3, <3>1, ZenonT(30) DEF ScanPush, ScanRecord, Filling
  <2> QED
    BY <1>3, <2>1, <2>2 DEF TypeOK, ScanPush
<1>4. CASE ScanEnd(o)
  <2>1. scan' \in [Op -> ScanRecord]
    BY <1>4, StopType DEF ScanEnd, ScanPcs
  <2>2. hash' \in [Op -> HashRecord]
    BY <1>4, StatusType DEF ScanEnd, Statuses
  <2> QED
    BY <1>4, <2>1, <2>2 DEF TypeOK, ScanEnd, HashRecord
<1>5. CASE ScanUnheard(o)
  <2>1. scan' \in [Op -> ScanRecord]
    BY <1>5, StopType DEF ScanUnheard, ScanPcs, Catch
  <2>2. hash' \in [Op -> HashRecord]
    BY <1>5, StatusType DEF ScanUnheard, Statuses
  <2>3. budget' \in Budgets
    BY <1>5, FaultType DEF ScanUnheard
  <2> QED
    BY <1>5, <2>1, <2>2, <2>3 DEF TypeOK, ScanUnheard, HashRecord, Budgets
<1>6. CASE ScanMark(o)
  <2>1. scan' \in [Op -> ScanRecord]
    BY <1>6, StopType DEF ScanMark, ScanPcs, Catch
  <2>2. hash' \in [Op -> HashRecord]
    BY <1>6, StatusType DEF ScanMark, WriteFailed, Statuses
  <2> QED
    BY <1>6, <2>1, <2>2 DEF TypeOK, ScanMark, WriteFailed, HashRecord
<1>7. CASE ScanClear(o)
  <2>1. scan' \in [Op -> ScanRecord]
    BY <1>7, StopType DEF ScanClear, ScanPcs
  <2> QED
    BY <1>7, <2>1, DropType DEF TypeOK, ScanClear
<1>8. CASE ScanFails(o)
  <2>1. scan' \in [Op -> ScanRecord]
    BY <1>8, StopType DEF ScanFails, ScanPcs, Caught, Catch
  <2>2. budget' \in Budgets
    BY <1>8, FaultAtType DEF ScanFails
  <2> QED
    BY <1>8, <2>1, <2>2 DEF TypeOK, ScanFails, Budgets
<1> QED
  BY <1>1, <1>2, <1>3, <1>4, <1>5, <1>6, <1>7, <1>8 DEF Scans, ScanStep

LEMMA PatchType ==
    ASSUME TypeOK, NEW p \in Patch, (\E o \in Op : PatchGet(p, o)) \/ PatchStep(p) \/ PatchFails(p),
           run[p].pc \in Working => run[p].op \in Op
    PROVE  TypeOK'
<1> USE DEF vars, store, data, jobs, history, answers, keysSeen, mishaps
<1>1. ASSUME NEW o \in Op, PatchGet(p, o) PROVE TypeOK'
  <2>1. budget' \in Budgets
    BY <1>1, SpendType DEF PatchGet, Arrives
  <2>2. doubled' \subseteq Op
    BY <1>1 DEF PatchGet, TypeOK
  <2>3. run' \in [Patch -> RunRecord]
    BY <1>1 DEF TypeOK, PatchGet, RunRecord, NoRun, Background
  <2> QED
    BY <1>1, <2>1, <2>2, <2>3 DEF TypeOK, PatchGet, Budgets
<1>2. CASE PatchCheck(p)
  <2>1. run' \in [Patch -> RunRecord]
    BY <1>2, GotoType, EndType DEF PatchCheck, RunPcs, Working
  <2> QED
    BY <1>2, <2>1 DEF TypeOK, PatchCheck
<1>3. CASE PatchConfirm(p)
  <2> DEFINE pc == CASE run[p].type = "migration" -> "copy"
                     [] run[p].type = "v1purge" -> "wipe"
                     [] OTHER -> "pop"
             left == IF run[p].type = "migration" THEN v1 \ {"mocks"} ELSE {}
  <2>1. pc \in RunPcs /\ left \subseteq Flag \cup {"mocks"}
    BY DEF TypeOK, Background, RunPcs, Working
  <2>2. hash' \in [Op -> HashRecord]
    BY <1>3, StatusType DEF PatchConfirm, Execute, Statuses
  <2>3. run' = [run EXCEPT ![p].pc = pc, ![p].left = left]
    BY <1>3 DEF PatchConfirm
  <2> HIDE DEF pc, left
  <2>4. run' \in [Patch -> RunRecord]
    BY <2>1, <2>3, RunLeft
  <2> QED
    BY <1>3, <2>2, <2>4 DEF TypeOK, PatchConfirm, Execute, HashRecord
<1>4. CASE PatchFails(p)
  <2>1. run' \in [Patch -> RunRecord] /\ budget' \in Budgets
    BY <1>4, EndType, FaultType DEF PatchFails
  <2> QED
    BY <1>4, <2>1 DEF TypeOK, PatchFails, Budgets
<1> QED
  BY <1>1, <1>2, <1>3, <1>4 DEF PatchStep

LEMMA PatchUnheardType ==
    ASSUME TypeOK, NEW p \in Patch, PatchUnheard(p), run[p].op \in Op
    PROVE  TypeOK'
<1> USE DEF store, data, answers, keysSeen
<1>1. run' \in [Patch -> RunRecord] /\ budget' \in Budgets
  BY EndType, FaultType DEF PatchUnheard
<1>2. hash' \in [Op -> HashRecord]
  BY StatusType DEF PatchUnheard, Execute, Statuses
<1> QED
  BY <1>1, <1>2 DEF TypeOK, PatchUnheard, Execute, Budgets, HashRecord

LEMMA RunType ==
    ASSUME TypeOK, NEW p \in Patch, RunStep(p) \/ RunFails(p), run[p].pc \in Working => run[p].op \in Op
    PROVE  TypeOK'
<1> USE DEF vars, store, data, jobs, history, answers, keysSeen, mishaps
<1>a. run \in [Patch -> RunRecord] /\ run[p] \in RunRecord
  BY DEF TypeOK
<1>1. CASE Pop(p)
  <2> DEFINE o == run[p].op
             n == IF Len(list[o]) < Batch THEN Len(list[o]) ELSE Batch
             b == Range(SubSeq(list[o], 1, n))
             rest == SubSeq(list[o], n + 1, Len(list[o]))
  <2>1. o \in Op /\ list[o] \in Seq(Flag)
    BY <1>1 DEF Pop, Runs, TypeOK, Working, Background
  <2>2. rest \in Seq(Flag) /\ b \subseteq Range(list[o])
    <3> HIDE DEF o
    <3> QED
      BY <2>1, PopProperties
  <2>3. b \subseteq Flag
    BY <2>1, <2>2, RangeOfSeq
  <2>4. list' = [list EXCEPT ![o] = rest] /\ run' = [run EXCEPT ![p].pc = "del", ![p].batch = b]
    BY <1>1 DEF Pop
  <2> HIDE DEF b, rest, n
  <2>5. run' \in [Patch -> RunRecord]
    BY <2>3, <2>4, RunRewritten DEF RunPcs, Working, Background
  <2>6. list' \in [Op -> Seq(Flag)]
    BY <2>1, <2>2, <2>4 DEF TypeOK
  <2> QED
    BY <1>1, <2>5, <2>6 DEF TypeOK, Pop
<1>2. CASE Del(p)
  <2>1. run' \in [Patch -> RunRecord]
    <3>1. "pop" \in RunPcs /\ {} \in SUBSET Flag
      BY DEF RunPcs, Working, Background
    <3>2. run' = [run EXCEPT ![p].pc = "pop", ![p].batch = {}]
      BY <1>2 DEF Del
    <3> QED
      BY <3>1, <3>2, RunRewritten
  <2>2. run[p].op \in Op /\ run[p].batch \cap Present \subseteq Flag
    BY <1>2 DEF Del, Runs, Present, Working, Background
  <2>3. purged' \in [Op -> SUBSET Flag]
    BY <1>2, <2>2 DEF Del, TypeOK
  <2>4. flags' \in [Flag -> {"stale", "fresh", "absent"}]
    BY <1>2 DEF Del, TypeOK
  <2> QED
    BY <1>2, <2>1, <2>3, <2>4 DEF TypeOK, Del
<1>3. CASE PopNothing(p) \/ WipeNothing(p)
  <2>1. run' \in [Patch -> RunRecord]
    BY <1>3, GotoType DEF PopNothing, WipeNothing, RunPcs, Working, Background
  <2> QED
    BY <1>3, <2>1 DEF TypeOK, PopNothing, WipeNothing
<1>4. CASE ReadMocks(p)
  <2>1. "write" \in RunPcs /\ v1 \cap {"mocks"} \in SUBSET (Flag \cup {"mocks"})
    BY DEF RunPcs, Working, Background
  <2>2. run' = [run EXCEPT ![p].pc = "write", ![p].left = v1 \cap {"mocks"}]
    BY <1>4 DEF ReadMocks
  <2>3. run' \in [Patch -> RunRecord]
    BY <2>1, <2>2, RunLeft
  <2> QED
    BY <1>4, <2>3 DEF TypeOK, ReadMocks
<1>5. CASE WriteMocks(p)
  <2>1. "finish" \in RunPcs /\ {} \in SUBSET (Flag \cup {"mocks"})
    BY DEF RunPcs, Working, Background
  <2>2. run' = [run EXCEPT ![p].pc = "finish", ![p].left = {}]
    BY <1>5 DEF WriteMocks
  <2>3. run' \in [Patch -> RunRecord]
    BY <2>1, <2>2, RunLeft
  <2>4. mocks' \subseteq {"user", "v1"} /\ spanned' \in BOOLEAN
    BY <1>5 DEF WriteMocks, TypeOK, SaveRecord
  <2> QED
    BY <1>5, <2>3, <2>4 DEF TypeOK, WriteMocks
<1>6. CASE RunDone(p)
  <2>1. run' \in [Patch -> RunRecord]
    BY <1>6, GotoType DEF RunDone, RunPcs, Working, Background
  <2>2. hash' \in [Op -> HashRecord]
    BY <1>6, StatusType DEF RunDone, Statuses
  <2> QED
    BY <1>6, <2>1, <2>2 DEF TypeOK, RunDone, HashRecord
<1>7. CASE RunDrop(p) \/ RunClear(p)
  <2>1. run' \in [Patch -> RunRecord]
    BY <1>7, EndType DEF RunDrop, RunClear
  <2> QED
    BY <1>7, <2>1, DropType DEF TypeOK, RunDrop, RunClear
<1>8. CASE RunMark(p)
  <2>1. run' \in [Patch -> RunRecord]
    BY <1>8, GotoType DEF RunMark, RunPcs, Working, Background
  <2>2. hash' \in [Op -> HashRecord]
    BY <1>8, StatusType DEF RunMark, WriteFailed, Statuses
  <2> QED
    BY <1>8, <2>1, <2>2 DEF TypeOK, RunMark, WriteFailed, HashRecord
<1>9. ASSUME NEW keys \in SUBSET (Flag \cup {"mocks"}), CopyFlags(p, keys) PROVE TypeOK'
  <2>1. run' \in [Patch -> RunRecord]
    BY <1>9, <1>a DEF CopyFlags, RunRecord
  <2>2. flags' \in [Flag -> {"stale", "fresh", "absent"}]
    BY <1>9 DEF CopyFlags, TypeOK
  <2> QED
    BY <1>9, <2>1, <2>2 DEF TypeOK, CopyFlags
<1>10. ASSUME NEW keys \in SUBSET (Flag \cup {"mocks"}), Wipe(p, keys) PROVE TypeOK'
  BY <1>10 DEF TypeOK, Wipe
<1>11. CASE RunFails(p)
  <2>1. run' \in [Patch -> RunRecord]
    BY <1>11, GotoType, EndType DEF RunFails, RunPcs, Working, Background
  <2>2. run[p].op \in Op
    BY <1>11 DEF RunFails, Working
  <2>3. budget' \in Budgets
    BY <1>11, FaultAtType DEF RunFails
  <2> QED
    BY <1>11, <2>1, <2>2, <2>3 DEF TypeOK, RunFails, Budgets
<1> QED
  BY <1>1, <1>2, <1>3, <1>4, <1>5, <1>6, <1>7, <1>8, <1>9, <1>10, <1>11 DEF RunStep

LEMMA OtherType ==
    ASSUME TypeOK, Dies \/ Saves \/ (\E f \in Flag : Touch(f)) \/ UNCHANGED vars
    PROVE  TypeOK'
<1> USE DEF vars, store, data, jobs, history, answers, keysSeen, mishaps
<1>a. NoSave \in SaveRecord
  BY DEF NoSave, SaveRecord
<1>1. CASE Dies
  <2>1. creating' \in [Op -> Creations]
    BY <1>1 DEF TypeOK, Dies, Creations
  <2>2. scan' \in [Op -> ScanRecord]
    BY <1>1, ScanEnded DEF Dies, ScanPcs
  <2>3. NoRun \in RunRecord
    BY DEF RunRecord, NoRun
  <2>4. run' \in [Patch -> RunRecord]
    BY <1>1, <2>3, EndedType DEF Dies
  <2>5. budget' \in Budgets
    BY <1>1, FaultType DEF Dies
  <2> QED
    BY <1>1, <1>a, <2>1, <2>2, <2>4, <2>5 DEF TypeOK, Dies, Budgets, SaveRecord
<1>2. CASE SaveRead
  <2>1. save' \in SaveRecord
    BY <1>2 DEF TypeOK, SaveRead, SaveRecord
  <2> QED
    BY <1>2, <2>1 DEF TypeOK, SaveRead, SaveRecord
<1>3. CASE SaveWrite
  <2>1. mocks' \subseteq {"user", "v1"} /\ safe' \in BOOLEAN
    BY <1>3 DEF TypeOK, SaveWrite
  <2> QED
    BY <1>3, <1>a, <2>1 DEF TypeOK, SaveWrite, SaveRecord
<1>4. CASE SaveFails
  <2>1. mocks' \subseteq {"user", "v1"} /\ budget' \in Budgets
    BY <1>4, FaultType DEF TypeOK, SaveFails
  <2> QED
    BY <1>4, <1>a, <2>1 DEF TypeOK, SaveFails, SaveRecord, Budgets
<1>5. ASSUME NEW f \in Flag, Touch(f) PROVE TypeOK'
  BY <1>5 DEF TypeOK, Touch
<1>6. CASE UNCHANGED vars
  BY <1>6 DEF TypeOK
<1> QED
  BY <1>1, <1>2, <1>3, <1>4, <1>5, <1>6 DEF Saves

LEMMA TypeStep ==
    ASSUME TypeOK, [Next]_vars, \A p \in Patch : run[p].pc \in Working => run[p].op \in Op
    PROVE  TypeOK'
<1>1. ASSUME NEW p \in Patch, Works(p) PROVE TypeOK'
  <2>1. PatchUnheard(p) => run[p].op \in Op
    BY DEF PatchUnheard, Runs, Working
  <2> QED
    BY <1>1, <2>1, PatchType, PatchUnheardType, RunType DEF Works
<1> QED
  BY <1>1, Steps, CreationType, ScanType, PatchType, OtherType

-----------------------------------------------------------------------------
(* What the steps of one job leave alone.                                  *)

LEMMA StatusAlone ==
    ASSUME TypeOK, NEW o, NEW s, hash' = [hash EXCEPT ![o].status = s]
    PROVE  \A x \in Op : /\ hash'[x].type = hash[x].type
                         /\ x # o => hash'[x] = hash[x]
                         /\ x = o => hash'[x].status = s
  BY DEF TypeOK

LEMMA DropAlone ==
    ASSUME TypeOK, NEW o, DropList(o)
    PROVE  UNCHANGED <<hash, index>> /\ \A x \in Op : list'[x] = IF x = o THEN <<>> ELSE list[x]
  BY DEF TypeOK, DropList

\* A scan works on its own operation.
ScanGoesOn(o) ==
    /\ o \in acked /\ scan[o].pc \notin {"idle", "ended"} /\ scan'[o].pc # "idle"
    /\ scan'[o].pc \in Filling => scan[o].pc \in Filling
    /\ \A x \in Op : x # o => scan'[x] = scan[x] /\ hash'[x] = hash[x] /\ list'[x] = list[x] /\ found'[x] = found[x]
    /\ \A x \in Op : hash'[x].type = hash[x].type
    /\ UNCHANGED <<wanted, index, data, creating, run, save, acked, gone, purged, copied, safe, overlap, spanned,
                   doubled>>

\* What it does to the status.
ScanTurns(o) ==
    \/ hash'[o].status = hash[o].status /\ (scan'[o].pc = scan[o].pc \/ scan'[o].pc \in Filling \cup {"ended"})
    \/ hash'[o].status = hash[o].status /\ scan'[o].pc = "mark" /\ scan[o].pc \in Filling
    \/ hash'[o].status = "READY" /\ scan'[o].pc = "ended" /\ scan[o].pc \in Filling
    \/ hash'[o].status = "READY" /\ scan'[o].pc = "mark" /\ scan[o].pc \in Filling /\ o \in misled'
    \/ hash'[o].status = "FAILED" /\ scan'[o].pc = "clear" /\ scan[o].pc = "mark"

LEMMA ScanEffect ==
    ASSUME TypeOK, NEW o \in Op, Scans(o)
    PROVE  ScanGoesOn(o) /\ ScanTurns(o) /\ misled \subseteq misled'
<1> USE DEF store, data, answers, keysSeen, mishaps, history, Scanning, Filling, Catch, ScanGoesOn, ScanTurns
<1>a. /\ scan \in [Op -> ScanRecord] /\ scan[o] \in ScanRecord
      /\ hash \in [Op -> HashRecord] /\ list \in [Op -> Seq(Flag)] /\ found \in [Op -> SUBSET Flag]
  BY DEF TypeOK, HashRecord
<1>b. ASSUME NEW pc, Stop(o, pc)
      PROVE  scan'[o].pc = pc /\ \A x \in Op : x # o => scan'[x] = scan[x]
  BY <1>a, <1>b DEF Stop, NoScan
<1>1. CASE ScanStart(o)
  BY <1>1, <1>a DEF ScanStart, ScanRecord
<1>2. ASSUME NEW keys, ScanBatch(o, keys) PROVE ScanGoesOn(o) /\ ScanTurns(o) /\ misled' = misled
  <2>1. scan'[o].pc = "push" /\ \A x \in Op : x # o => scan'[x] = scan[x] /\ found'[x] = found[x]
    BY <1>2, <1>a, ZenonT(30) DEF ScanBatch, ScanRecord
  <2> QED
    BY <1>2, <2>1 DEF ScanBatch
<1>3. CASE ScanPush(o)
  <2>1. scan'[o].pc = "scan" /\ \A x \in Op : x # o => scan'[x] = scan[x] /\ list'[x] = list[x]
    BY <1>3, <1>a, ZenonT(30) DEF ScanPush, ScanRecord
  <2> QED
    BY <1>3, <2>1 DEF ScanPush
<1>4. CASE ScanEnd(o)
  BY <1>4, <1>b, StatusAlone DEF ScanEnd, Through
<1>5. CASE ScanUnheard(o)
  BY <1>5, <1>b, StatusAlone DEF ScanUnheard, Through, TypeOK
<1>6. CASE ScanMark(o)
  <2>1. hash' = [hash EXCEPT ![o].status = "FAILED"] /\ UNCHANGED <<index, list>>
    BY <1>6 DEF ScanMark, WriteFailed
  <2>2. scan'[o].pc = "clear" /\ \A x \in Op : x # o => scan'[x] = scan[x]
    BY <1>6, <1>b DEF ScanMark
  <2>3. \A x \in Op : /\ hash'[x].type = hash[x].type
                      /\ x # o => hash'[x] = hash[x]
                      /\ x = o => hash'[x].status = "FAILED"
    BY <2>1, StatusAlone
  <2> QED
    BY <1>6, <2>1, <2>2, <2>3 DEF ScanMark
<1>7. CASE ScanClear(o)
  BY <1>7, <1>b, DropAlone DEF ScanClear
<1>8. CASE ScanFails(o)
  <2>1. Caught(scan[o].pc) \in {"mark", "ended"} /\ (Caught(scan[o].pc) = "mark" => scan[o].pc \in Filling)
    BY <1>8, <1>a DEF ScanFails, Caught, ScanRecord
  <2> QED
    BY <1>8, <1>b, <2>1 DEF ScanFails
<1> QED
  BY <1>1, <1>2, <1>3, <1>4, <1>5, <1>6, <1>7, <1>8 DEF Scans, ScanStep

\* A PATCH and its run work on the operation the PATCH found, until they end.
RunGoesOn(p) ==
    /\ run[p].pc \in Working
    /\ run'[p].pc = "ended" \/ (run'[p].pc \in Working /\ run'[p].op = run[p].op /\ run'[p].type = run[p].type)
    /\ \A q \in Patch : q # p => run'[q] = run[q]
    /\ \A x \in Op : x # run[p].op => hash'[x] = hash[x] /\ list'[x] = list[x]
    /\ \A x \in Op : hash'[x].type = hash[x].type /\ (list[x] = <<>> => list'[x] = <<>>)
    /\ UNCHANGED <<wanted, index, creating, scan, acked, gone, found, doubled>>

\* What they do to the status of operation o.
RunTurns(p, o) ==
    \/ hash'[o].status = hash[o].status /\ run'[p].pc = "ended"
    \/ hash'[o].status = hash[o].status /\ run[p].pc = "check" /\ run'[p].pc = "confirm"
    \/ hash'[o].status = hash[o].status /\ run[p].pc \in Background \ {"drop", "mark", "clear"}
       /\ run'[p].pc \in Background \ {"drop", "clear"}
    \/ hash'[o].status = "EXECUTING" /\ run[p].pc = "confirm" /\ run'[p].pc \in {"copy", "wipe", "pop", "ended"}
    \/ hash'[o].status = "DONE" /\ run[p].pc = "finish" /\ run'[p].pc = "drop"
    \/ hash'[o].status = "FAILED" /\ run[p].pc = "mark" /\ run'[p].pc = "clear"
    \/ hash'[o].status = hash[o].status /\ run'[p].pc = "mark" /\ run[p].pc = "drop" /\ o \in misled'

LEMMA PatchEffect ==
    ASSUME TypeOK, NEW p \in Patch, PatchStep(p) \/ PatchFails(p) \/ PatchUnheard(p), run[p].op \in Op
    PROVE  RunGoesOn(p) /\ RunTurns(p, run[p].op) /\ misled' = misled
<1> USE DEF store, data, answers, keysSeen, mishaps, history, Runs, Goto, End, Ended, NoRun, Working, Background,
            RunGoesOn, RunTurns
<1>a. run \in [Patch -> RunRecord] /\ run[p] \in RunRecord
  BY DEF TypeOK
<1>1. CASE PatchCheck(p)
  BY <1>1, <1>a DEF PatchCheck, RunRecord
<1>2. CASE PatchConfirm(p)
  <2> DEFINE pc == CASE run[p].type = "migration" -> "copy"
                     [] run[p].type = "v1purge" -> "wipe"
                     [] OTHER -> "pop"
             left == IF run[p].type = "migration" THEN v1 \ {"mocks"} ELSE {}
  <2>1. pc \in {"copy", "wipe", "pop"}
    OBVIOUS
  <2>2. run' = [run EXCEPT ![p].pc = pc, ![p].left = left]
    BY <1>2 DEF PatchConfirm
  <2> HIDE DEF pc, left
  <2>3. /\ run'[p].pc = pc /\ run'[p].op = run[p].op /\ run'[p].type = run[p].type
        /\ \A q \in Patch : q # p => run'[q] = run[q]
    BY <1>a, <2>2 DEF RunRecord
  <2>4. /\ run[p].pc = "confirm" /\ hash' = [hash EXCEPT ![run[p].op].status = "EXECUTING"]
        /\ UNCHANGED <<wanted, index, list, creating, scan, acked, gone, found, doubled, misled>>
    BY <1>2 DEF PatchConfirm, Execute
  <2>5. \A x \in Op : /\ hash'[x].type = hash[x].type
                      /\ x # run[p].op => hash'[x] = hash[x]
                      /\ x = run[p].op => hash'[x].status = "EXECUTING"
    BY <2>4 DEF TypeOK
  <2>6. RunGoesOn(p)
    BY <2>1, <2>3, <2>4, <2>5
  <2>7. RunTurns(p, run[p].op)
    BY <2>1, <2>3, <2>4, <2>5
  <2> QED
    BY <2>4, <2>6, <2>7
<1>3. CASE PatchFails(p)
  BY <1>3, <1>a DEF PatchFails
<1>4. CASE PatchUnheard(p)
  <2>1. hash' = [hash EXCEPT ![run[p].op].status = "EXECUTING"]
    BY <1>4 DEF PatchUnheard, Execute
  <2> QED
    BY <1>4, <1>a, <2>1, StatusAlone DEF PatchUnheard, Execute
<1> QED
  BY <1>1, <1>2, <1>3, <1>4 DEF PatchStep

LEMMA RunEffect ==
    ASSUME TypeOK, NEW p \in Patch, RunStep(p) \/ RunFails(p), run[p].pc \in Working => run[p].op \in Op
    PROVE  RunGoesOn(p) /\ RunTurns(p, run[p].op) /\ misled \subseteq misled'
<1> USE DEF store, data, answers, keysSeen, mishaps, history, Runs, Goto, End, Ended, NoRun, Working, Background,
            RunGoesOn, RunTurns
<1>a. run \in [Patch -> RunRecord] /\ run[p] \in RunRecord /\ list \in [Op -> Seq(Flag)]
  BY DEF TypeOK
<1> DEFINE rest(o) == SubSeq(list[o], (IF Len(list[o]) < Batch THEN Len(list[o]) ELSE Batch) + 1, Len(list[o]))
<1>1. CASE Pop(p)
  <2>1. /\ list[run[p].op] # <<>> /\ run[p].pc = "pop" /\ run[p].op \in Op
        /\ list' = [list EXCEPT ![run[p].op] = rest(run[p].op)]
    BY <1>1 DEF Pop
  <2>2. run'[p].pc = "del" /\ run'[p].op = run[p].op /\ run'[p].type = run[p].type
        /\ \A q \in Patch : q # p => run'[q] = run[q]
    BY <1>1, <1>a DEF Pop, RunRecord
  <2> HIDE DEF rest
  <2> QED
    BY <1>1, <1>a, <2>1, <2>2 DEF Pop
<1>2. CASE Del(p)
  BY <1>2, <1>a DEF Del, RunRecord
<1>3. CASE PopNothing(p)
  BY <1>3, <1>a DEF PopNothing, RunRecord
<1>4. CASE WipeNothing(p)
  BY <1>4, <1>a DEF WipeNothing, RunRecord
<1>5. CASE ReadMocks(p)
  BY <1>5, <1>a DEF ReadMocks, RunRecord
<1>6. CASE WriteMocks(p)
  BY <1>6, <1>a DEF WriteMocks, RunRecord
<1>7. CASE RunDone(p)
  <2>1. /\ run'[p] = [run[p] EXCEPT !.pc = "drop"] /\ run[p].pc = "finish" /\ run[p].op \in Op
        /\ \A q \in Patch : q # p => run'[q] = run[q]
    BY <1>7, <1>a DEF RunDone
  <2>2. \A x \in Op : /\ hash'[x].type = hash[x].type
                      /\ x # run[p].op => hash'[x] = hash[x]
                      /\ x = run[p].op => hash'[x].status = "DONE"
    BY <1>7 DEF RunDone, TypeOK
  <2> QED
    BY <1>7, <1>a, <2>1, <2>2 DEF RunDone, RunRecord
<1>8. CASE RunDrop(p)
  <2>1. \A x \in Op : list'[x] = IF x = run[p].op THEN <<>> ELSE list[x]
    BY <1>8, <1>a DEF RunDrop, DropList
  <2> QED
    BY <1>8, <1>a, <2>1 DEF RunDrop, DropList
<1>9. CASE RunMark(p)
  <2>1. /\ run'[p] = [run[p] EXCEPT !.pc = "clear"] /\ run[p].pc = "mark" /\ run[p].op \in Op
        /\ \A q \in Patch : q # p => run'[q] = run[q]
    BY <1>9, <1>a DEF RunMark
  <2>2. \A x \in Op : /\ hash'[x].type = hash[x].type
                      /\ x # run[p].op => hash'[x] = hash[x]
                      /\ x = run[p].op => hash'[x].status = "FAILED"
    BY <1>9 DEF RunMark, WriteFailed, TypeOK
  <2> QED
    BY <1>9, <1>a, <2>1, <2>2 DEF RunMark, WriteFailed, RunRecord
<1>10. CASE RunClear(p)
  <2>1. \A x \in Op : list'[x] = IF x = run[p].op THEN <<>> ELSE list[x]
    BY <1>10, <1>a DEF RunClear, DropList
  <2> QED
    BY <1>10, <1>a, <2>1 DEF RunClear, DropList
<1>11. ASSUME NEW keys, CopyFlags(p, keys) PROVE RunGoesOn(p) /\ RunTurns(p, run[p].op) /\ misled' = misled
  BY <1>11, <1>a DEF CopyFlags, RunRecord
<1>12. ASSUME NEW keys, Wipe(p, keys) PROVE RunGoesOn(p) /\ RunTurns(p, run[p].op) /\ misled' = misled
  BY <1>12, <1>a DEF jobs, Wipe, RunRecord
<1>13. CASE RunFails(p)
  <2>1. UNCHANGED <<wanted, hash, index, list, creating, scan, acked, gone, found, doubled>>
    BY <1>13 DEF RunFails
  <2>2. run[p].op \in Op /\ run[p].pc \in Background
    BY <1>13 DEF RunFails
  <2>3. CASE run[p].pc \in Catch
    <3>1. run'[p].pc = "ended" /\ misled' = misled /\ \A q \in Patch : q # p => run'[q] = run[q]
      BY <1>13, <1>a, <2>3 DEF RunFails, Caught, Catch
    <3> QED
      BY <2>1, <2>2, <3>1
  <2>4. CASE run[p].pc \notin Catch
    <3>1. /\ run'[p] = [run[p] EXCEPT !.pc = "mark"] /\ \A q \in Patch : q # p => run'[q] = run[q]
          /\ misled' = (IF run[p].pc = "drop" THEN misled \cup {run[p].op} ELSE misled)
      BY <1>13, <1>a, <2>4 DEF RunFails, Caught
    <3> QED
      BY <1>a, <2>1, <2>2, <2>4, <3>1 DEF RunRecord, Catch
  <2> QED
    BY <2>3, <2>4
<1>14. misled' = misled \/ RunFails(p)
  BY DEF RunStep, Pop, PopNothing, Del, ReadMocks, WriteMocks, WipeNothing, RunDone, RunDrop, RunMark, RunClear,
         CopyFlags, Wipe
<1> QED
  BY <1>1, <1>2, <1>3, <1>4, <1>5, <1>6, <1>7, <1>8, <1>9, <1>10, <1>11, <1>12, <1>13, <1>14 DEF RunStep

LEMMA WorkEffect ==
    ASSUME TypeOK, NEW p \in Patch, Works(p), run[p].pc \in Working => run[p].op \in Op
    PROVE  RunGoesOn(p) /\ RunTurns(p, run[p].op) /\ misled \subseteq misled' /\ run[p].op \in Op
<1>1. run[p].pc \in Working => run[p].op \in Op
  OBVIOUS
<1>2. CASE PatchStep(p) \/ PatchFails(p) \/ PatchUnheard(p)
  <2>1. run[p].pc \in {"check", "confirm"}
    BY <1>2 DEF PatchStep, PatchCheck, PatchConfirm, PatchFails, PatchUnheard, Runs
  <2> QED
    BY <1>1, <1>2, <2>1, PatchEffect DEF Working
<1>3. CASE RunStep(p) \/ RunFails(p)
  BY <1>1, <1>3, RunEffect DEF RunGoesOn
<1> QED
  BY <1>2, <1>3 DEF Works

-----------------------------------------------------------------------------
(* Filed: the keys of an operation, and what its creation and deletion did.*)

\* A job changes the status of a hash and no more of what Filed is about.
LEMMA FiledKept ==
    ASSUME Filed, UNCHANGED <<wanted, index, creating, acked, gone>>,
           \A x \in Op : hash'[x].type = hash[x].type,
           \A x \in Op : creating[x] \in Unstored => scan'[x].pc = scan[x].pc
    PROVE  Filed'
  BY DEF Filed, FiledAs, Seen

LEMMA FiledStep ==
    ASSUME TypeOK, Filed, Scanned, [Next]_vars
    PROVE  Filed'
<1> USE DEF store, data, jobs, history, answers, keysSeen, mishaps
<1>1. ASSUME NEW o \in Op, Creates(o) PROVE Filed'
  <2>1. CASE Create(o)
    BY <2>1 DEF Create, TypeOK, Filed, FiledAs, Seen, Unstored, Types
  <2>2. CASE Store1(o)
    BY <2>2, OperationsAssumption DEF Store1, Store, StoreHash, CreateOrder, TypeOK, Filed, FiledAs, Seen,
       Unstored, Types
  <2>3. CASE Store2(o)
    BY <2>3 DEF Store2, Store, StoreIndex, CreateOrder, TypeOK, Filed, FiledAs, Seen, Unstored, Types
  <2>4. CASE CreateFails(o)
    <3>1. hash' = hash /\ (index' = index \/ (creating[o] = "second" /\ index' = index \cup {o}))
      BY <2>4 DEF CreateFails, Store, StoreIndex, CreateOrder
    <3> QED
      BY <2>4, <3>1 DEF CreateFails, TypeOK, Filed, FiledAs, Seen, Unstored, Types
  <2>5. CASE ListDrops(o)
    BY <2>5 DEF ListDrops, TypeOK, Filed, FiledAs, Seen, Unstored
  <2>6. CASE Delete1(o)
    BY <2>6 DEF Delete1, NoHash, TypeOK, Filed, FiledAs, Seen, Unstored, Types
  <2>7. CASE Delete2(o)
    BY <2>7 DEF Delete2, TypeOK, Filed, FiledAs, Seen, Unstored, Types
  <2>8. CASE DeleteFails(o)
    BY <2>8 DEF DeleteFails, TypeOK, Filed, FiledAs, Seen, Unstored, Types
  <2> QED
    BY <1>1, <2>1, <2>2, <2>3, <2>4, <2>5, <2>6, <2>7, <2>8 DEF Creates
<1>2. ASSUME NEW o \in Op, Scans(o) PROVE Filed'
  <2>1. ScanGoesOn(o)
    BY <1>2, ScanEffect
  <2>2. creating[o] \notin Unstored
    BY <2>1 DEF ScanGoesOn, Filed, FiledAs, Unstored, Types
  <2> QED
    BY <2>1, <2>2, FiledKept DEF ScanGoesOn
<1>3. ASSUME NEW p \in Patch, Works(p) PROVE Filed'
  <2>1. RunGoesOn(p)
    BY <1>3, WorkEffect DEF Scanned
  <2> QED
    BY <2>1, FiledKept DEF RunGoesOn
<1>4. ASSUME NEW p \in Patch, NEW o \in Op, PatchGet(p, o) PROVE Filed'
  BY <1>4, FiledKept DEF PatchGet
<1>5. CASE Dies
  BY <1>5 DEF Dies, TypeOK, Filed, FiledAs, Seen, Unstored, Types, NoScan
<1>6. CASE Saves \/ (\E f \in Flag : Touch(f)) \/ UNCHANGED vars
  BY <1>6, FiledKept DEF Saves, SaveRead, SaveWrite, SaveFails, Touch, vars
<1> QED
  BY <1>1, <1>2, <1>3, <1>4, <1>5, <1>6, Steps

-----------------------------------------------------------------------------
(* Scanned: what a PATCH may rely on.                                      *)

LEMMA ScannedOn ==
    ASSUME Scanned, NEW p \in Patch, RunGoesOn(p), RunTurns(p, run[p].op)
    PROVE  Scanned'
<1>1. UNCHANGED <<wanted, creating, scan>>
  BY DEF RunGoesOn
<1>2. ASSUME NEW q \in Patch, run'[q].pc \in Working
      PROVE  run[q].pc \in Working /\ run'[q].op = run[q].op /\ run'[q].type = run[q].type
  BY <1>2 DEF RunGoesOn, Working, Background
<1>3. ASSUME NEW x \in Op, NEW q \in Patch, Concerns(q, x)' PROVE Late(q, x)'
  <2>1. Concerns(q, x) /\ run'[q].type = run[q].type
    BY <1>2, <1>3 DEF Concerns
  <2>2. Late(q, x)
    BY <2>1 DEF Scanned
  <2> QED
    BY <1>1, <2>1, <2>2 DEF Late, RunGoesOn
<1>4. ASSUME NEW q \in Patch, run'[q].pc \in Working PROVE run'[q].op \in Op
  BY <1>2, <1>4 DEF Scanned
<1>5. ASSUME NEW x \in Op, hash'[x].status \in Statuses \ {"SCANNING"}
      PROVE  scan'[x].pc \notin Filling \cup {"idle"}
  <2>1. CASE x = run[p].op
    <3>1. Late(p, x)
      BY <2>1 DEF Scanned, RunGoesOn, Concerns
    <3> QED
      BY <1>1, <3>1 DEF Late
  <2>2. CASE x # run[p].op
    <3>1. hash'[x] = hash[x]
      BY <2>2 DEF RunGoesOn
    <3> QED
      BY <1>1, <1>5, <3>1 DEF Scanned
  <2> QED
    BY <2>1, <2>2
<1> QED
  BY <1>3, <1>4, <1>5 DEF Scanned

LEMMA ScannedStep ==
    ASSUME TypeOK, Filed, Scanned, [Next]_vars
    PROVE  Scanned'
<1> USE DEF store, data, jobs, history, answers, keysSeen, mishaps
<1>1. ASSUME NEW o \in Op, Creates(o) PROVE Scanned'
  <2> USE DEF Scanned, Concerns, Late
  <2>1. CASE Create(o)
    BY <2>1 DEF Create, TypeOK, Unstored
  <2>2. CASE Store1(o)
    BY <2>2 DEF Store1, Store, StoreHash, CreateOrder, TypeOK, Unstored
  <2>3. CASE Store2(o)
    BY <2>3 DEF Store2, Store, StoreIndex, CreateOrder, TypeOK, Unstored, Types
  <2>4. CASE CreateFails(o)
    <3>1. hash' = hash /\ list' = list
      BY <2>4 DEF CreateFails, Store, StoreIndex, CreateOrder
    <3> QED
      BY <2>4, <3>1 DEF CreateFails, TypeOK, Unstored, Types, NoScan, Filling
  <2>5. CASE ListDrops(o)
    BY <2>5 DEF ListDrops
  <2>6. CASE Delete1(o)
    BY <2>6, OperationsAssumption DEF Delete1, NoHash, TypeOK, Unstored, Types
  <2>7. CASE Delete2(o)
    BY <2>7 DEF Delete2, TypeOK, Unstored, Types
  <2>8. CASE DeleteFails(o)
    BY <2>8 DEF DeleteFails, TypeOK, Unstored, Types
  <2> QED
    BY <1>1, <2>1, <2>2, <2>3, <2>4, <2>5, <2>6, <2>7, <2>8 DEF Creates
<1>2. ASSUME NEW o \in Op, Scans(o) PROVE Scanned'
  <2>1. ScanGoesOn(o) /\ ScanTurns(o)
    BY <1>2, ScanEffect
  <2>2. hash'[o].status # hash[o].status => scan'[o].pc \notin Filling \cup {"idle"}
    BY <2>1 DEF ScanTurns, Filling
  <2>3. creating[o] \in {"deleting", "deleted"} /\ list[o] = <<>> /\ scan[o].pc \notin Filling => list'[o] = <<>>
    BY <1>2, EmptyRange DEF Scans, ScanStep, ScanStart, ScanPush, ScanEnd, ScanBatch, ScanMark, ScanClear,
       WriteFailed, DropList, ScanUnheard, ScanFails, Scanning, Filling, TypeOK
  <2>4. UNCHANGED <<wanted, creating, run>>
    BY <2>1 DEF ScanGoesOn
  <2>5. \A x \in Op : scan[x].pc \notin Filling \cup {"idle"} => scan'[x].pc \notin Filling \cup {"idle"}
    BY <2>1 DEF ScanGoesOn
  <2>6. ASSUME NEW x \in Op, NEW q \in Patch, Concerns(q, x)' PROVE Late(q, x)'
    <3>1. Late(q, x)
      BY <2>4, <2>6 DEF Concerns, Scanned
    <3> QED
      BY <2>1, <2>3, <2>4, <2>5, <3>1 DEF Late, ScanGoesOn
  <2>7. ASSUME NEW x \in Op, hash'[x].status \in Statuses \ {"SCANNING"}
        PROVE  scan'[x].pc \notin Filling \cup {"idle"}
    BY <2>1, <2>2, <2>5, <2>7 DEF ScanGoesOn, Scanned
  <2> QED
    BY <2>4, <2>6, <2>7 DEF Scanned
<1>3. ASSUME NEW p \in Patch, Works(p) PROVE Scanned'
  <2>1. RunGoesOn(p) /\ RunTurns(p, run[p].op)
    BY <1>3, WorkEffect DEF Scanned
  <2> QED
    BY <2>1, ScannedOn
<1>4. ASSUME NEW p \in Patch, NEW o \in Op, PatchGet(p, o) PROVE Scanned'
  <2>1. scan[o].pc \notin Filling \cup {"idle"}
    BY <1>4 DEF PatchGet, Statuses, Scanned
  <2>3. creating[o] \notin Unstored \cup {"deleting", "deleted"} /\ hash[o].type = wanted[o]
    BY <1>4 DEF PatchGet, Filed, FiledAs
  <2>2. /\ run'[p].op = o /\ run'[p].type = hash[o].type
        /\ \A q \in Patch : q # p => run'[q] = run[q]
    BY <1>4 DEF PatchGet, NoRun, TypeOK
  <2> QED
    BY <1>4, <2>1, <2>2, <2>3 DEF PatchGet, Scanned, Concerns, Late
<1>5. CASE Dies
  <2>1. \A p \in Patch : run'[p].pc \notin Working
    BY <1>5 DEF Dies, NoRun, Ended, Working, Background
  <2>2. \A x \in Op : scan[x].pc \notin Filling \cup {"idle"} => scan'[x].pc \notin Filling \cup {"idle"}
    BY <1>5 DEF Dies, NoScan, Filling
  <2> QED
    BY <1>5, <2>1, <2>2 DEF Dies, Scanned, Concerns
<1>6. CASE Saves \/ (\E f \in Flag : Touch(f)) \/ UNCHANGED vars
  BY <1>6 DEF Saves, SaveRead, SaveWrite, SaveFails, Touch, vars, Scanned, Concerns, Late
<1> QED
  BY <1>1, <1>2, <1>3, <1>4, <1>5, <1>6, Steps

-----------------------------------------------------------------------------
(* Chose: what is purged was found.                                        *)

\* What a step of nobody's run must show: it touches the records of o only.
LEMMA ChoseScan ==
    ASSUME Chose, NEW o \in Op, UNCHANGED <<run, purged>>,
           \A x \in Op : x # o => list'[x] = list[x] /\ scan'[x] = scan[x] /\ found'[x] = found[x],
           found[o] \subseteq found'[o], scan'[o].match \subseteq found'[o],
           Range(list'[o]) \subseteq found'[o],
           \A p \in Patch : run[p].pc \in Working => run[p].op \in Op
    PROVE  Chose'
<1>1. \A x \in Op : found[x] \subseteq found'[x]
  OBVIOUS
<1>2. ASSUME NEW x \in Op PROVE Range(list'[x]) \cup scan'[x].match \cup purged'[x] \subseteq found'[x]
  BY <1>1 DEF Chose
<1>3. ASSUME NEW p \in Patch, run[p].pc \in Working PROVE run[p].batch \subseteq found'[run[p].op]
  BY <1>1, <1>3 DEF Chose
<1> QED
  BY <1>2, <1>3 DEF Chose

\* A run takes to its batch what the list holds, and purges its batch.
LEMMA ChoseRun ==
    ASSUME Chose, NEW p \in Patch, RunGoesOn(p), run[p].op \in Op,
           Range(list'[run[p].op]) \subseteq Range(list[run[p].op]),
           run'[p].batch \subseteq run[p].batch \cup Range(list[run[p].op]),
           \A x \in Op : purged'[x] \subseteq
               purged[x] \cup (IF x = run[p].op THEN run[p].batch ELSE {})
    PROVE  Chose'
<1>1. UNCHANGED <<scan, found>>
  BY DEF RunGoesOn
<1>2. run[p].batch \subseteq found[run[p].op] /\ Range(list[run[p].op]) \subseteq found[run[p].op]
  BY DEF Chose, RunGoesOn
<1>3. ASSUME NEW x \in Op PROVE Range(list'[x]) \cup scan'[x].match \cup purged'[x] \subseteq found'[x]
  <2>1. Range(list[x]) \cup scan[x].match \cup purged[x] \subseteq found[x]
    BY DEF Chose
  <2>2. CASE x = run[p].op
    BY <1>1, <1>2, <2>1, <2>2
  <2>3. CASE x # run[p].op
    BY <1>1, <2>1, <2>3 DEF RunGoesOn
  <2> QED
    BY <2>2, <2>3
<1>4. ASSUME NEW q \in Patch, run'[q].pc \in Working PROVE run'[q].batch \subseteq found'[run'[q].op]
  <2>1. CASE q = p
    BY <1>1, <1>2, <1>4, <2>1 DEF RunGoesOn, Working, Background
  <2>2. CASE q # p
    BY <1>1, <1>4, <2>2 DEF RunGoesOn, Chose
  <2> QED
    BY <2>1, <2>2
<1> QED
  BY <1>3, <1>4 DEF Chose

LEMMA ChoseStep ==
    ASSUME TypeOK, Scanned, Chose, [Next]_vars
    PROVE  Chose'
<1> USE DEF store, data, jobs, history, answers, keysSeen, mishaps
<1>a. \A p \in Patch : run[p].pc \in Working => run[p].op \in Op
  BY DEF Scanned
<1>b. \A x \in Op : /\ scan[x] \in ScanRecord /\ list[x] \in Seq(Flag)
                    /\ scan[x].match \subseteq found[x] /\ Range(list[x]) \subseteq found[x]
  BY DEF TypeOK, Chose
<1>1. ASSUME NEW o \in Op, Creates(o) PROVE Chose'
  <2>1. CASE Create(o) \/ Store2(o) \/ ListDrops(o) \/ Delete2(o) \/ DeleteFails(o)
    BY <2>1 DEF Create, Store2, Store, StoreIndex, CreateOrder, ListDrops, Delete2, DeleteFails, Chose
  <2>2. CASE Store1(o) \/ CreateFails(o) \/ Delete1(o)
    <3>1. UNCHANGED <<run, purged, found>>
      BY <2>2 DEF Store1, CreateFails, Delete1
    <3>2. \A x \in Op : x # o => list'[x] = list[x] /\ scan'[x] = scan[x]
      BY <2>2 DEF Store1, Store, StoreHash, StoreIndex, CreateOrder, CreateFails, Delete1, TypeOK
    <3>3. scan \in [Op -> ScanRecord]
      BY DEF TypeOK
    <3>4. scan'[o].match \subseteq {} \cup scan[o].match
      <4>1. CASE Store1(o)
        BY <3>3, <4>1 DEF Store1, NoScan, ScanRecord
      <4>2. CASE CreateFails(o)
        BY <3>3, <4>2 DEF CreateFails, NoScan, ScanRecord
      <4>3. CASE Delete1(o)
        BY <4>3 DEF Delete1
      <4> QED
        BY <2>2, <4>1, <4>2, <4>3
    <3>5. Range(list'[o]) \subseteq Range(list[o])
      BY <2>2, EmptyRange DEF Store1, Store, StoreHash, StoreIndex, CreateOrder, CreateFails, Delete1, TypeOK
    <3> QED
      BY <1>a, <1>b, <3>1, <3>2, <3>4, <3>5, ChoseScan
  <2> QED
    BY <1>1, <2>1, <2>2 DEF Creates
<1>2. ASSUME NEW o \in Op, Scans(o) PROVE Chose'
  <2>1. /\ \A x \in Op : x # o => list'[x] = list[x] /\ scan'[x] = scan[x] /\ found'[x] = found[x]
        /\ UNCHANGED <<run, purged>>
    BY <1>2, ScanEffect DEF ScanGoesOn
  <2>2. /\ found[o] \subseteq found'[o] /\ scan'[o].match \subseteq found'[o]
        /\ Range(list'[o]) \subseteq found'[o]
    <3>1. CASE ScanStart(o)
      BY <1>b, <3>1, EmptyRange DEF ScanStart, ScanRecord, TypeOK
    <3>2. CASE ScanPush(o)
      <4>1. scan[o].match \subseteq Flag
        BY <1>b DEF ScanRecord
      <4>2. list' = [list EXCEPT ![o] = list[o] \o SetToSeq(scan[o].match)]
        BY <3>2 DEF ScanPush
      <4>3. Range(list'[o]) \subseteq Range(list[o]) \cup scan[o].match
        <5>1. list'[o] = list[o] \o SetToSeq(scan[o].match)
          BY <4>2 DEF TypeOK
        <5>2. Range(list[o] \o SetToSeq(scan[o].match)) \subseteq Range(list[o]) \cup scan[o].match
          BY <1>b, <4>1, PushProperties
        <5> QED
          BY <5>1, <5>2
      <4>4. found' = found /\ scan'[o].match = {}
        BY <1>b, <3>2 DEF ScanPush, ScanRecord, TypeOK
      <4> QED
        BY <1>b, <4>3, <4>4
    <3>3. CASE ScanEnd(o) \/ ScanUnheard(o) \/ ScanMark(o) \/ ScanClear(o) \/ ScanFails(o)
      <4>1. found' = found
        BY <3>3 DEF ScanEnd, ScanUnheard, ScanMark, ScanClear, ScanFails
      <4>2. \E pc : scan' = [scan EXCEPT ![o] = [NoScan EXCEPT !.pc = pc]]
        BY <3>3 DEF ScanEnd, ScanUnheard, ScanMark, ScanClear, ScanFails, Stop
      <4>3. scan'[o].match = {}
        BY <4>2 DEF NoScan, TypeOK
      <4>4. list'[o] \in {list[o], <<>>}
        BY <3>3, DropAlone DEF ScanEnd, ScanUnheard, ScanMark, ScanClear, ScanFails, WriteFailed
      <4> QED
        BY <1>b, <4>1, <4>3, <4>4, EmptyRange
    <3>4. ASSUME NEW keys \in SUBSET Flag, ScanBatch(o, keys)
          PROVE  /\ found[o] \subseteq found'[o] /\ scan'[o].match \subseteq found'[o]
                 /\ Range(list'[o]) \subseteq found'[o]
      <4> DEFINE more == IF scan[o].type = "matching" THEN keys \cap Pattern
                         ELSE {f \in keys : flags[f] = "stale"}
                 match == {f \in keys : Chosen(o, f)}
      <4>2. match \subseteq more
        BY DEF Chosen
      <4>3. found' = [found EXCEPT ![o] = @ \cup more] /\ list' = list
        BY <3>4 DEF ScanBatch
      <4>4. scan'[o].match = match
        <5> HIDE DEF match
        <5>1. scan' = [scan EXCEPT ![o].pc = "push", ![o].left = @ \ keys, ![o].match = match]
          BY <3>4 DEF ScanBatch, match
        <5>2. scan \in [Op -> ScanRecord]
          BY DEF TypeOK
        <5> QED
          BY <5>1, <5>2 DEF ScanRecord
      <4> HIDE DEF more, match
      <4>5. found'[o] = found[o] \cup more
        BY <4>3 DEF TypeOK
      <4> QED
        BY <1>b, <4>2, <4>3, <4>4, <4>5
    <3> QED
      BY <1>2, <3>1, <3>2, <3>3, <3>4 DEF Scans, ScanStep
  <2> QED
    BY <1>a, <2>1, <2>2, ChoseScan
<1>3. ASSUME NEW p \in Patch, NEW o \in Op, PatchGet(p, o) PROVE Chose'
  <2>1. run'[p].batch = {} /\ \A q \in Patch : q # p => run'[q] = run[q]
    BY <1>3 DEF PatchGet, NoRun, TypeOK
  <2> QED
    BY <1>3, <2>1 DEF PatchGet, Chose
<1>4. ASSUME NEW p \in Patch, Works(p) PROVE Chose'
  <2>1. RunGoesOn(p) /\ run[p].op \in Op
    BY <1>4, <1>a, WorkEffect
  <2> DEFINE o == run[p].op
  <2>2. run[p] \in RunRecord /\ run \in [Patch -> RunRecord]
    BY DEF TypeOK
  <2>3. CASE Pop(p)
    <3> DEFINE n == IF Len(list[o]) < Batch THEN Len(list[o]) ELSE Batch
               b == Range(SubSeq(list[o], 1, n))
               rest == SubSeq(list[o], n + 1, Len(list[o]))
    <3>1. list' = [list EXCEPT ![o] = rest] /\ run' = [run EXCEPT ![p].pc = "del", ![p].batch = b]
          /\ purged' = purged
      BY <2>3 DEF Pop
    <3>2. Range(rest) \subseteq Range(list[o]) /\ Range(SubSeq(list[o], 1, n)) \subseteq Range(list[o])
      <4>1. list[o] \in Seq(Flag)
        BY <1>b, <2>1
      <4> HIDE DEF o
      <4> QED
        BY <4>1, PopProperties
    <3>3. b \subseteq Range(list[o])
      BY <3>2
    <3> HIDE DEF n, b, rest
    <3>4. run'[p].batch = b /\ list'[o] = rest
      BY <2>1, <2>2, <3>1 DEF RunRecord, TypeOK
    <3> QED
      BY <2>1, <3>1, <3>2, <3>3, <3>4, ChoseRun
  <2>4. CASE Del(p)
    <3>1. run'[p].batch = {} /\ list' = list
      BY <2>2, <2>4 DEF Del, RunRecord
    <3>2. \A x \in Op : purged'[x] \subseteq purged[x] \cup (IF x = o THEN run[p].batch ELSE {})
      BY <2>4 DEF Del, TypeOK
    <3> QED
      BY <2>1, <3>1, <3>2, ChoseRun
  <2>5. CASE ~Pop(p) /\ ~Del(p)
    <3> USE DEF Works, PatchStep, RunStep
    <3>1. run'[p].batch \in {run[p].batch, {}}
      <4>1. CASE \/ PatchCheck(p) \/ PatchFails(p) \/ PatchUnheard(p) \/ PopNothing(p) \/ WipeNothing(p)
                 \/ RunDone(p) \/ RunDrop(p) \/ RunMark(p) \/ RunClear(p) \/ RunFails(p)
        <5>1. End(p) \/ \E pc : Goto(p, pc)
          BY <4>1 DEF PatchCheck, PatchFails, PatchUnheard, PopNothing, WipeNothing, RunDone, RunDrop, RunMark,
             RunClear, RunFails
        <5> QED
          BY <2>2, <5>1 DEF End, Ended, NoRun, Goto, RunRecord
      <4>2. CASE PatchConfirm(p) \/ ReadMocks(p) \/ WriteMocks(p)
        BY <2>2, <4>2 DEF PatchConfirm, ReadMocks, WriteMocks, RunRecord
      <4>3. ASSUME NEW keys, CopyFlags(p, keys) \/ Wipe(p, keys) PROVE run'[p].batch = run[p].batch
        BY <2>2, <4>3 DEF CopyFlags, Wipe, RunRecord
      <4> QED
        BY <1>4, <2>5, <4>1, <4>2, <4>3
    <3>2. list'[o] \in {list[o], <<>>}
      <4>1. CASE RunDrop(p) \/ RunClear(p)
        BY <2>1, <4>1, DropAlone DEF RunDrop, RunClear
      <4>2. CASE list' = list
        BY <4>2
      <4> QED
        BY <1>4, <2>5, <4>1, <4>2 DEF PatchCheck, PatchConfirm, PatchFails, PatchUnheard, Execute, PopNothing,
           WipeNothing, ReadMocks, WriteMocks, RunDone, RunMark, WriteFailed, CopyFlags, Wipe, RunFails
    <3>3. purged' = purged
      BY <1>4, <2>5 DEF PatchCheck, PatchConfirm, PatchFails, PatchUnheard, PopNothing, WipeNothing, ReadMocks,
         WriteMocks, RunDone, RunDrop, RunMark, RunClear, CopyFlags, Wipe, RunFails
    <3> QED
      BY <2>1, <3>1, <3>2, <3>3, EmptyRange, ChoseRun
  <2> QED
    BY <2>3, <2>4, <2>5
<1>5. CASE Dies
  <2>1. \A x \in Op : scan'[x].match = {}
    BY <1>5 DEF Dies, NoScan
  <2>2. \A p \in Patch : run'[p].pc \notin Working
    BY <1>5 DEF Dies, NoRun, Ended, Working, Background
  <2> QED
    BY <1>5, <2>1, <2>2 DEF Dies, Chose
<1>6. CASE Saves \/ (\E f \in Flag : Touch(f)) \/ UNCHANGED vars
  BY <1>6 DEF Saves, SaveRead, SaveWrite, SaveFails, Touch, vars, Chose
<1> QED
  BY <1>1, <1>2, <1>3, <1>4, <1>5, <1>6, Steps

-----------------------------------------------------------------------------
(* Fitting and Copied: a run does the work of its type, and a migration    *)
(* that is DONE has copied all.                                            *)

\* Where the steps take a run that has a type to follow.
LEMMA RunsFit ==
    ASSUME TypeOK, NEW p \in Patch, Works(p), run'[p].pc \in {"check", "copy", "write", "pop", "del", "wipe"}
    PROVE  \/ PatchConfirm(p)
           \/ {run[p].pc, run'[p].pc} \subseteq {"pop", "del"}
           \/ run[p].pc = "copy" /\ run'[p].pc \in {"copy", "write"}
           \/ run[p].pc = "wipe" /\ run'[p].pc = "wipe"
<1> USE DEF jobs, Runs
<1>a. run \in [Patch -> RunRecord]
  BY DEF TypeOK
<1>1. CASE \/ PatchCheck(p) \/ PatchFails(p) \/ PatchUnheard(p) \/ PopNothing(p) \/ WipeNothing(p)
           \/ RunDone(p) \/ RunDrop(p) \/ RunMark(p) \/ RunClear(p) \/ RunFails(p)
  <2>1. End(p) \/ \E pc \in {"confirm", "finish", "drop", "clear", "mark"} : Goto(p, pc)
    BY <1>1 DEF PatchCheck, PatchFails, PatchUnheard, PopNothing, WipeNothing, RunDone, RunDrop, RunMark,
       RunClear, RunFails
  <2>2. run'[p].pc \in {"ended", "confirm", "finish", "drop", "clear", "mark"}
    BY <1>a, <2>1 DEF End, Ended, NoRun, Goto, RunRecord
  <2> QED
    BY <2>2
<1>2. CASE Pop(p) \/ Del(p)
  BY <1>a, <1>2 DEF Pop, Del, RunRecord
<1>3. CASE ReadMocks(p) \/ WriteMocks(p)
  BY <1>a, <1>3 DEF ReadMocks, WriteMocks, RunRecord
<1>4. ASSUME NEW keys, CopyFlags(p, keys) \/ Wipe(p, keys)
      PROVE  run'[p].pc = run[p].pc /\ run[p].pc \in {"copy", "wipe"}
  BY <1>a, <1>4 DEF CopyFlags, Wipe, RunRecord
<1> QED
  BY <1>1, <1>2, <1>3, <1>4 DEF Works, PatchStep, RunStep

LEMMA Confirmed ==
    ASSUME TypeOK, NEW p \in Patch, PatchConfirm(p)
    PROVE  /\ run'[p].pc = (CASE run[p].type = "migration" -> "copy"
                              [] run[p].type = "v1purge" -> "wipe"
                              [] OTHER -> "pop")
           /\ run[p].type = "migration" => run'[p].left = v1 \ {"mocks"}
           /\ run[p].pc = "confirm" /\ UNCHANGED <<data, save, copied, safe, overlap, spanned>>
<1>1. run \in [Patch -> RunRecord]
  BY DEF TypeOK
<1> QED
  BY <1>1 DEF PatchConfirm, Runs, RunRecord, history, keysSeen, mishaps

LEMMA FittingStep ==
    ASSUME TypeOK, Scanned, Fitting, [Next]_vars
    PROVE  Fitting'
<1> USE DEF jobs
<1>1. ASSUME NEW o \in Op, Creates(o) \/ Scans(o) PROVE Fitting'
  <2>1. run' = run
    BY <1>1, ScanEffect DEF Creates, Create, Store1, Store2, CreateFails, ListDrops, Delete1, Delete2, DeleteFails,
       ScanGoesOn
  <2> QED
    BY <2>1 DEF Fitting
<1>2. ASSUME NEW p \in Patch, NEW o \in Op, PatchGet(p, o) PROVE Fitting'
  <2>1. run \in [Patch -> RunRecord] /\ hash \in [Op -> HashRecord]
    BY DEF TypeOK, HashRecord
  <2>2. /\ run'[p].type = hash[o].type /\ run'[p].pc \in {"check", "confirm"}
        /\ run'[p].pc = "check" => hash[o].type = "migration"
        /\ \A q \in Patch : q # p => run'[q] = run[q]
    BY <1>2, <2>1 DEF PatchGet, NoRun
  <2>3. hash[o].type \in Types
    BY <1>2, <2>1 DEF PatchGet, Seen, HashRecord
  <2> QED
    BY <2>2, <2>3 DEF Fitting
<1>3. ASSUME NEW p \in Patch, Works(p) PROVE Fitting'
  <2>1. RunGoesOn(p)
    BY <1>3, WorkEffect DEF Scanned
  <2>2. run'[p].pc \in Working => run'[p].type = run[p].type /\ run[p].type \in Types
    BY <2>1 DEF RunGoesOn, Working, Background, Fitting
  <2>3. /\ run'[p].pc \in {"check", "copy", "write"} => run'[p].type = "migration"
        /\ run'[p].pc \in {"pop", "del"} => run'[p].type \in {"stale", "matching"}
        /\ run'[p].pc = "wipe" => run'[p].type = "v1purge"
    <3> SUFFICES ASSUME run'[p].pc \in {"check", "copy", "write", "pop", "del", "wipe"}
                 PROVE  <2>3!1 /\ <2>3!2 /\ <2>3!3
      OBVIOUS
    <3>1. run'[p].type = run[p].type /\ run[p].type \in Types
      BY <2>2 DEF Working, Background
    <3>2. CASE PatchConfirm(p)
      BY <3>1, <3>2, Confirmed DEF Types
    <3>3. CASE ~PatchConfirm(p)
      BY <1>3, <3>1, <3>3, RunsFit DEF Fitting
    <3> QED
      BY <3>2, <3>3
  <2> QED
    BY <2>1, <2>2, <2>3 DEF Fitting, RunGoesOn
<1>4. CASE Dies
  <2>1. \A p \in Patch : run'[p].pc \in {"idle", "ended"}
    BY <1>4 DEF Dies, NoRun, Ended
  <2> QED
    BY <2>1 DEF Fitting, Working, Background
<1>5. CASE Saves \/ (\E f \in Flag : Touch(f)) \/ UNCHANGED vars
  BY <1>5 DEF Saves, SaveRead, SaveWrite, SaveFails, Touch, vars, Fitting
<1> QED
  BY <1>1, <1>2, <1>3, <1>4, <1>5, Steps

\* Whatever brings no run on, and sets no hash to DONE.
LEMMA CopiedKept ==
    ASSUME Copied, UNCHANGED <<wanted, v1>>, copied \subseteq copied',
           \A p \in Patch : run'[p] = run[p] \/ run'[p].pc \notin {"copy", "write", "finish"}
                            \/ (run'[p].pc = "finish" /\ run'[p].type # "migration"),
           \A x \in Op : hash'[x] = hash[x] \/ hash'[x].status # "DONE" \/ hash'[x].type # "migration",
           \A x \in Op : creating[x] = "idle" => creating'[x] = "idle"
    PROVE  Copied'
<1> USE DEF Copied, AllCopied, Asked
<1>1. ASSUME NEW p \in Patch
      PROVE  /\ run'[p].pc = "copy" => V1Flag \ {"mocks"} \subseteq copied' \cup run'[p].left
             /\ run'[p].pc = "write" =>
                  V1Flag \ {"mocks"} \subseteq copied' /\ "mocks" \in copied' \cup run'[p].left
             /\ run'[p].pc = "finish" /\ run'[p].type = "migration" => AllCopied'
  <2>1. CASE run'[p] = run[p]
    BY <2>1
  <2>2. CASE run'[p] # run[p]
    BY <2>2
  <2> QED
    BY <2>1, <2>2
<1>2. ASSUME NEW o \in Op
      PROVE  /\ hash'[o] = [type |-> "migration", status |-> "DONE"] => AllCopied'
             /\ wanted'[o] = "v1purge" /\ creating'[o] # "idle" => AllCopied'
  OBVIOUS
<1> QED
  BY <1>1, <1>2

\* A run that goes on: it is enough to look at its own record and hash.
LEMMA CopiedOn ==
    ASSUME Copied, NEW p \in Patch, RunGoesOn(p), run[p].op \in Op, v1' \subseteq v1, copied \subseteq copied',
           run'[p].pc = "copy" => V1Flag \ {"mocks"} \subseteq copied' \cup run'[p].left,
           run'[p].pc = "write" => V1Flag \ {"mocks"} \subseteq copied' /\ "mocks" \in copied' \cup run'[p].left,
           run'[p].pc = "finish" /\ run'[p].type = "migration" => AllCopied',
           \/ hash'[run[p].op].status = hash[run[p].op].status
           \/ hash'[run[p].op] = [type |-> "migration", status |-> "DONE"] => AllCopied',
           v1' = v1 \/ AllCopied,
           \A x \in Op : hash[x] \in HashRecord /\ hash'[x] \in HashRecord
    PROVE  Copied'
<1> USE DEF Copied, AllCopied, Asked
<1>1. UNCHANGED <<wanted, creating>> /\ \A q \in Patch : q # p => run'[q] = run[q]
  BY DEF RunGoesOn
<1>2. ASSUME NEW q \in Patch
      PROVE  /\ run'[q].pc = "copy" => V1Flag \ {"mocks"} \subseteq copied' \cup run'[q].left
             /\ run'[q].pc = "write" =>
                  V1Flag \ {"mocks"} \subseteq copied' /\ "mocks" \in copied' \cup run'[q].left
             /\ run'[q].pc = "finish" /\ run'[q].type = "migration" => AllCopied'
  <2>1. CASE q = p
    BY <2>1
  <2>2. CASE q # p
    BY <1>1, <2>2
  <2> QED
    BY <2>1, <2>2
<1>3. ASSUME NEW o \in Op
      PROVE  /\ hash'[o] = [type |-> "migration", status |-> "DONE"] => AllCopied'
             /\ wanted'[o] = "v1purge" /\ creating'[o] # "idle" => AllCopied'
  <2>1. hash'[o].type = hash[o].type /\ (hash'[o].status = hash[o].status => hash'[o] = hash[o])
    BY DEF RunGoesOn, HashRecord
  <2>2. o # run[p].op => hash'[o] = hash[o]
    BY DEF RunGoesOn
  <2> QED
    BY <1>1, <2>1, <2>2
<1>4. Asked({"migration"})' => (V1Flag \cup {"mocks"}) \ v1' \subseteq copied'
  BY <1>1
<1> QED
  BY <1>2, <1>3, <1>4

LEMMA CopiedStep ==
    ASSUME TypeOK, TypeOK', Filed, Scanned, Fitting, Copied, [Next]_vars
    PROVE  Copied'
<1> USE DEF store, data, jobs, history, answers, keysSeen, mishaps
<1>a. /\ run \in [Patch -> RunRecord] /\ hash \in [Op -> HashRecord] /\ index \subseteq Op
      /\ \A x \in Op : hash[x] \in HashRecord /\ hash'[x] \in HashRecord
  BY DEF TypeOK, HashRecord
<1>1. ASSUME NEW o \in Op, Creates(o) PROVE Copied'
  <2>1. CASE Create(o)
    <3>1. wanted[o] = "v1purge" => AllCopied
      BY <2>1, <1>a DEF Create, Copied
    <3>2. \A x \in Op : x # o => creating'[x] = creating[x]
      BY <2>1 DEF Create, TypeOK
    <3> QED
      BY <2>1, <3>1, <3>2 DEF Create, Copied, AllCopied, Asked
  <2>2. CASE ~Create(o)
    <3>1. \A x \in Op : creating[x] = "idle" => creating'[x] = "idle"
      BY <1>1, <2>2 DEF Creates, Store1, Store2, CreateFails, ListDrops, Delete1, Delete2, DeleteFails, TypeOK, Types
    <3>2. UNCHANGED <<wanted, v1, copied, run>>
      BY <1>1, <2>2 DEF Creates, Store1, Store2, CreateFails, ListDrops, Delete1, Delete2, DeleteFails
    <3>3. \A x \in Op : hash'[x] = hash[x] \/ hash'[x].status # "DONE"
      BY <1>1, <2>2, <1>a, OperationsAssumption DEF Creates, Store1, Store2, Store, StoreHash, StoreIndex,
         CreateOrder, CreateFails, ListDrops, Delete1, Delete2, DeleteFails, NoHash, Statuses
    <3> QED
      BY <3>1, <3>2, <3>3, CopiedKept
  <2> QED
    BY <2>1, <2>2
<1>2. ASSUME NEW o \in Op, Scans(o) PROVE Copied'
  <2>1. ScanGoesOn(o) /\ ScanTurns(o)
    BY <1>2, ScanEffect
  <2>2. \A x \in Op : hash'[x] = hash[x] \/ hash'[x].status # "DONE"
    <3>1. hash'[o].type = hash[o].type /\ hash'[o].status \in {hash[o].status, "READY", "FAILED"}
      BY <2>1 DEF ScanGoesOn, ScanTurns
    <3>2. hash'[o] = hash[o] \/ hash'[o].status # "DONE"
      BY <1>a, <3>1 DEF HashRecord
    <3> QED
      BY <2>1, <3>2 DEF ScanGoesOn
  <2> QED
    BY <2>1, <2>2, CopiedKept DEF ScanGoesOn
<1>3. ASSUME NEW p \in Patch, NEW o \in Op, PatchGet(p, o) PROVE Copied'
  <2>1. \A q \in Patch : run'[q] = run[q] \/ run'[q].pc \notin {"copy", "write", "finish"}
    BY <1>3, <1>a DEF PatchGet, NoRun
  <2> QED
    BY <1>3, <2>1, CopiedKept DEF PatchGet
<1>4. ASSUME NEW p \in Patch, Works(p) PROVE Copied'
  <2>1. RunGoesOn(p) /\ RunTurns(p, run[p].op) /\ run[p].op \in Op
    BY <1>4, WorkEffect DEF Scanned
  <2>2. run[p].type = wanted[run[p].op] /\ creating[run[p].op] # "idle" /\ run[p].type \in Types
    BY <2>1 DEF RunGoesOn, Scanned, Concerns, Late, Unstored, Fitting
  <2>3. run[p].type = "migration" => (V1Flag \cup {"mocks"}) \ v1 \subseteq copied
    BY <2>1, <2>2 DEF Copied, Asked
  <2>4. run[p].type = "v1purge" => AllCopied
    BY <2>1, <2>2 DEF Copied
  <2>5. CASE PatchConfirm(p)
    <3>1. run'[p].pc = "copy" => run[p].type = "migration" /\ run'[p].left = v1 \ {"mocks"}
      BY <2>2, <2>5, Confirmed DEF Types
    <3>2. run'[p].pc \notin {"write", "finish"} /\ UNCHANGED <<v1, copied>>
      BY <2>5, Confirmed
    <3>3. hash'[run[p].op].status = "EXECUTING"
      BY <2>5, <2>1, <1>a DEF PatchConfirm, Execute, HashRecord
    <3> QED
      BY <1>a, <2>1, <2>3, <3>1, <3>2, <3>3, CopiedOn
  <2>6. ASSUME NEW keys \in SUBSET (Flag \cup {"mocks"}), CopyFlags(p, keys) PROVE Copied'
    <3>1. run[p].pc = "copy" /\ run'[p].pc = "copy" /\ run'[p].left = run[p].left \ keys
      BY <2>6, <1>a DEF CopyFlags, Runs, RunRecord
    <3>2. copied' = copied \cup keys /\ UNCHANGED <<v1, hash>>
      BY <2>6 DEF CopyFlags
    <3>3. V1Flag \ {"mocks"} \subseteq copied' \cup run'[p].left
      BY <3>1, <3>2 DEF Copied
    <3> QED
      BY <1>a, <2>1, <3>1, <3>2, <3>3, CopiedOn
  <2>7. CASE ReadMocks(p)
    <3>1. run[p].pc = "copy" /\ run'[p].pc = "write" /\ run[p].left \cap v1 = {} /\ run'[p].left = v1 \cap {"mocks"}
      BY <2>7, <1>a DEF ReadMocks, Runs, RunRecord
    <3>2. UNCHANGED <<v1, hash, copied>>
      BY <2>7 DEF ReadMocks
    <3>3. run[p].type = "migration" /\ V1Flag \ {"mocks"} \subseteq copied \cup run[p].left
      BY <3>1 DEF Fitting, Copied
    <3>4. V1Flag \ {"mocks"} \subseteq copied' /\ "mocks" \in copied' \cup run'[p].left
      BY <2>3, <3>1, <3>2, <3>3
    <3> QED
      BY <1>a, <2>1, <3>1, <3>2, <3>4, CopiedOn
  <2>8. CASE WriteMocks(p)
    <3>1. run[p].pc = "write" /\ run'[p].pc = "finish"
      BY <2>8, <1>a DEF WriteMocks, Runs, RunRecord
    <3>2. UNCHANGED <<v1, hash>> /\ copied' = copied \cup run[p].left
      BY <2>8 DEF WriteMocks
    <3>3. AllCopied'
      BY <3>1, <3>2 DEF Copied, AllCopied
    <3> QED
      BY <1>a, <2>1, <3>1, <3>2, <3>3, CopiedOn
  <2>9. CASE RunDone(p)
    <3>1. run[p].pc = "finish" /\ run'[p].pc = "drop" /\ UNCHANGED <<v1, copied>>
      BY <2>9, <1>a DEF RunDone, Runs, Goto, RunRecord
    <3>2. hash'[run[p].op].type = hash[run[p].op].type
      BY <2>1 DEF RunGoesOn
    <3>3. hash[run[p].op].type = "migration" => run[p].type = "migration"
      BY <2>1, <2>2, OperationsAssumption DEF Filed, FiledAs, Seen, Types
    <3>4. run[p].type = "migration" => AllCopied'
      BY <3>1 DEF Copied, AllCopied
    <3>5. hash'[run[p].op] = [type |-> "migration", status |-> "DONE"] => AllCopied'
      BY <3>2, <3>3, <3>4
    <3> QED
      BY <1>a, <2>1, <3>1, <3>5, CopiedOn
  <2>10. ASSUME NEW keys \in SUBSET (Flag \cup {"mocks"}), Wipe(p, keys) PROVE Copied'
    <3>1. AllCopied /\ run[p].pc = "wipe" /\ run' = run
      BY <2>4, <2>10 DEF Wipe, Runs, Fitting
    <3>2. UNCHANGED <<hash, copied>> /\ v1' \subseteq v1
      BY <2>10 DEF Wipe
    <3> QED
      BY <1>a, <2>1, <3>1, <3>2, CopiedOn
  <2>11. CASE PopNothing(p) \/ WipeNothing(p)
    <3>1. run[p].pc \in {"pop", "wipe"} /\ run'[p].pc = "finish" /\ run'[p].type = run[p].type
      BY <2>11, <1>a DEF PopNothing, WipeNothing, Runs, Goto, RunRecord
    <3>2. run'[p].type # "migration" /\ UNCHANGED <<v1, copied, hash>>
      BY <2>11, <3>1 DEF PopNothing, WipeNothing, Fitting
    <3> QED
      BY <1>a, <2>1, <3>1, <3>2, CopiedOn
  <2>12. CASE Pop(p) \/ Del(p)
    <3>1. run'[p].pc \notin {"copy", "write", "finish"} /\ UNCHANGED <<v1, copied, hash>>
      BY <2>12, <1>a DEF Pop, Del, RunRecord
    <3> QED
      BY <1>a, <2>1, <3>1, CopiedOn
  <2>13. CASE PatchCheck(p) \/ PatchFails(p) \/ PatchUnheard(p) \/ RunDrop(p) \/ RunMark(p) \/ RunClear(p) \/ RunFails(p)
    <3>1. End(p) \/ \E pc \in {"confirm", "clear", "mark"} : Goto(p, pc)
      BY <2>13 DEF PatchCheck, PatchFails, PatchUnheard, RunDrop, RunMark, RunClear, RunFails
    <3>2. run'[p].pc \in {"ended", "confirm", "clear", "mark"}
      BY <1>a, <3>1 DEF End, Ended, NoRun, Goto, RunRecord
    <3>3. UNCHANGED <<v1, copied>>
      BY <2>13 DEF PatchCheck, PatchFails, PatchUnheard, RunDrop, RunMark, RunClear, RunFails
    <3>4. hash'[run[p].op].status = hash[run[p].op].status \/ hash'[run[p].op].status # "DONE"
      BY <2>1, <3>2 DEF RunTurns
    <3> QED
      BY <1>a, <2>1, <3>2, <3>3, <3>4, CopiedOn
  <2> QED
    BY <1>4, <2>5, <2>6, <2>7, <2>8, <2>9, <2>10, <2>11, <2>12, <2>13 DEF Works, PatchStep, RunStep
<1>5. CASE Dies
  <2>1. \A p \in Patch : run'[p].pc \notin {"copy", "write", "finish"}
    BY <1>5 DEF Dies, NoRun, Ended
  <2>2. \A x \in Op : creating[x] = "idle" => creating'[x] = "idle"
    BY <1>5 DEF Dies, Types
  <2> QED
    BY <1>5, <2>1, <2>2, CopiedKept DEF Dies
<1>6. CASE Saves \/ (\E f \in Flag : Touch(f)) \/ UNCHANGED vars
  BY <1>6, CopiedKept DEF Saves, SaveRead, SaveWrite, SaveFails, Touch, vars
<1> QED
  BY <1>1, <1>2, <1>3, <1>4, <1>5, <1>6, Steps

-----------------------------------------------------------------------------
(* Moved: where the mocks are.                                             *)

\* Whatever lets nobody past its look at the workspace, and moves no data.
LEMMA MovedKept ==
    ASSUME Moved, UNCHANGED <<mocks, copied, safe, overlap, spanned>>, Migrating' \subseteq Migrating,
           save' = save \/ ~save'.open
    PROVE  Moved'
  BY DEF Moved

LEMMA MovedStep ==
    ASSUME TypeOK, Scanned, Fitting, Copied, Moved, [Next]_vars
    PROVE  Moved'
<1> USE DEF store, data, jobs, history, answers, keysSeen, mishaps
<1>a. run \in [Patch -> RunRecord]
  BY DEF TypeOK
<1>1. ASSUME NEW o \in Op, Creates(o) \/ Scans(o) PROVE Moved'
  <2>1. UNCHANGED <<mocks, copied, safe, overlap, spanned, run, save>>
    BY <1>1, ScanEffect DEF Creates, Create, Store1, Store2, CreateFails, ListDrops, Delete1, Delete2, DeleteFails,
       ScanGoesOn
  <2> QED
    BY <2>1, MovedKept DEF Migrating
<1>2. ASSUME NEW p \in Patch, NEW o \in Op, PatchGet(p, o) PROVE Moved'
  <2>1. run'[p].pc \in {"confirm", "copy", "write"} => run'[p].type # "migration"
    BY <1>2, <1>a DEF PatchGet, NoRun
  <2>2. \A q \in Patch : q # p => run'[q] = run[q]
    BY <1>2, <1>a DEF PatchGet
  <2>3. Migrating' \subseteq Migrating
    BY <2>1, <2>2 DEF Migrating
  <2> QED
    BY <1>2, <2>3, MovedKept DEF PatchGet
<1>3. ASSUME NEW p \in Patch, Works(p) PROVE Moved'
  <2>1. RunGoesOn(p)
    BY <1>3, WorkEffect DEF Scanned
  <2>2. /\ \A q \in Patch : q # p => run'[q] = run[q]
        /\ run'[p].pc \in {"confirm", "copy", "write"} => run'[p].type = run[p].type
    BY <2>1 DEF RunGoesOn
  <2>3. p \in Migrating \/ run'[p].pc \notin {"confirm", "copy", "write"} => Migrating' \subseteq Migrating
    BY <2>2 DEF Migrating
  <2>4. CASE PatchCheck(p)
    <3>1. UNCHANGED <<copied, mocks, safe, spanned, save>> /\ overlap' = (overlap \/ (mocks = {} /\ Migrating # {}))
      BY <2>4 DEF PatchCheck
    <3>2. CASE mocks = {}
      <4>1. Migrating' \subseteq Migrating \cup {p}
        BY <2>2 DEF Migrating
      <4> QED
        BY <3>1, <3>2, <4>1 DEF Moved
    <3>3. CASE mocks # {}
      <4>1. run'[p].pc = "ended"
        BY <2>4, <3>3, <1>a DEF PatchCheck, End, Ended, NoRun
      <4>2. overlap' = overlap
        BY <3>1, <3>3 DEF TypeOK
      <4> QED
        BY <2>3, <3>1, <4>1, <4>2, MovedKept
    <3> QED
      BY <3>2, <3>3
  <2>5. CASE PatchConfirm(p)
    <3>1. run[p].pc = "confirm" /\ UNCHANGED <<mocks, copied, safe, overlap, spanned, save>>
      BY <2>5, Confirmed
    <3>2. Migrating' \subseteq Migrating
      BY <2>2, <3>1 DEF Migrating
    <3> QED
      BY <3>1, <3>2, MovedKept
  <2>6. ASSUME NEW keys, CopyFlags(p, keys) PROVE Moved'
    <3>1. run[p].pc = "copy" /\ "mocks" \notin keys
      BY <2>6 DEF CopyFlags, Runs
    <3>2. p \in Migrating
      BY <3>1 DEF Migrating, Fitting
    <3>3. copied' = copied \cup keys /\ UNCHANGED <<mocks, safe, overlap, spanned, save>>
      BY <2>6 DEF CopyFlags
    <3> QED
      BY <2>3, <3>1, <3>2, <3>3 DEF Moved
  <2>7. CASE ReadMocks(p)
    <3>1. p \in Migrating
      BY <2>7 DEF ReadMocks, Runs, Migrating, Fitting
    <3> QED
      BY <2>3, <2>7, <3>1, MovedKept DEF ReadMocks
  <2>8. CASE WriteMocks(p)
    <3>1. run[p].pc = "write" /\ run'[p].pc = "finish"
      BY <2>8, <1>a DEF WriteMocks, Runs, RunRecord
    <3>2. p \in Migrating
      BY <3>1 DEF Migrating, Fitting
    <3>3. Migrating' \subseteq Migrating \ {p}
      BY <2>2, <3>1 DEF Migrating
    <3>4. /\ mocks' = (IF "mocks" \in run[p].left THEN {"v1"} ELSE {})
          /\ spanned' = (spanned \/ save.open) /\ UNCHANGED <<safe, overlap, save>>
      BY <2>8 DEF WriteMocks
    <3>5. overlap \/ ("mocks" \notin copied /\ Migrating' = {})
      BY <3>2, <3>3 DEF Moved
    <3>6. overlap \/ (mocks' = {"v1"} /\ Migrating' = {})
      BY <3>1, <3>4, <3>5 DEF Copied
    <3>7. ~safe
      BY <3>2 DEF Moved
    <3> QED
      BY <3>2, <3>3, <3>4, <3>6, <3>7 DEF Moved
  <2>9. ASSUME NEW keys, Wipe(p, keys) PROVE Moved'
    BY <2>9, MovedKept DEF Wipe, Migrating
  <2>10. CASE \/ PatchFails(p) \/ PatchUnheard(p) \/ PopNothing(p) \/ WipeNothing(p)
              \/ RunDone(p) \/ RunDrop(p) \/ RunMark(p) \/ RunClear(p) \/ RunFails(p)
    <3>1. End(p) \/ \E pc \in {"finish", "drop", "clear", "mark"} : Goto(p, pc)
      BY <2>10 DEF PatchFails, PatchUnheard, PopNothing, WipeNothing, RunDone, RunDrop, RunMark, RunClear, RunFails
    <3>2. run'[p].pc \in {"ended", "finish", "drop", "clear", "mark"}
      BY <1>a, <3>1 DEF End, Ended, NoRun, Goto, RunRecord
    <3>3. UNCHANGED <<mocks, copied, safe, overlap, spanned, save>>
      BY <2>10 DEF PatchFails, PatchUnheard, PopNothing, WipeNothing, RunDone, RunDrop, RunMark, RunClear, RunFails
    <3> QED
      BY <2>3, <3>2, <3>3, MovedKept
  <2>11. CASE Pop(p) \/ Del(p)
    <3>1. run'[p].pc \in {"pop", "del"}
      BY <1>a, <2>11 DEF Pop, Del, RunRecord
    <3>2. UNCHANGED <<mocks, copied, safe, overlap, spanned, save>>
      BY <2>11 DEF Pop, Del
    <3> QED
      BY <2>3, <3>1, <3>2, MovedKept
  <2> QED
    BY <1>3, <2>4, <2>5, <2>6, <2>7, <2>8, <2>9, <2>10, <2>11 DEF Works, PatchStep, RunStep
<1>4. CASE Dies
  <2>1. \A p \in Patch : run'[p].pc \notin {"confirm", "copy", "write"}
    BY <1>4 DEF Dies, NoRun, Ended
  <2>2. Migrating' \subseteq Migrating
    BY <2>1 DEF Migrating
  <2> QED
    BY <1>4, <2>2, MovedKept DEF Dies, NoSave
<1>5. CASE Saves
  <2>1. UNCHANGED <<copied, overlap, spanned>> /\ Migrating' = Migrating
    BY <1>5 DEF Saves, SaveRead, SaveWrite, SaveFails, Migrating
  <2>2. CASE SaveRead
    <3>1. save'.read = mocks /\ UNCHANGED <<mocks, safe>>
      BY <2>2 DEF SaveRead
    <3> QED
      BY <2>1, <3>1 DEF Moved
  <2>3. CASE SaveWrite
    <3>1. save.open /\ mocks' = save.read \cup {"user"} /\ ~save'.open /\ safe' = (safe \/ Migrating = {})
      BY <2>3 DEF SaveWrite, NoSave
    <3> QED
      BY <2>1, <3>1 DEF Moved
  <2>4. CASE SaveFails
    <3>1. save.open /\ mocks' \in {mocks, save.read \cup {"user"}} /\ ~save'.open /\ safe' = safe
      BY <2>4 DEF SaveFails, NoSave
    <3> QED
      BY <2>1, <3>1 DEF Moved
  <2> QED
    BY <1>5, <2>2, <2>3, <2>4 DEF Saves
<1>6. CASE (\E f \in Flag : Touch(f)) \/ UNCHANGED vars
  BY <1>6, MovedKept DEF Touch, vars, Migrating
<1> QED
  BY <1>1, <1>2, <1>3, <1>4, <1>5, <1>6, Steps

-----------------------------------------------------------------------------
(* Lone: one job at a time, which knows the status.                        *)

\* Whatever leaves the status of o alone, gives it no job, and takes no job of it on.
LEMMA LoneKept ==
    ASSUME NEW o \in Op, LoneAt(o), hash'[o].status = hash[o].status,
           scan'[o].pc \in {scan[o].pc, "idle", "ended"},
           \A p \in Patch : Concerns(p, o)' => Concerns(p, o) /\ run'[p].pc = run[p].pc
    PROVE  LoneAt(o)'
<1>1. ScanDue(scan'[o].pc, hash'[o].status)
  BY DEF LoneAt, ScanDue, Filling
<1>2. ASSUME NEW p \in Patch, Concerns(p, o)' PROVE RunDue(run'[p].pc, hash'[o].status)
  BY <1>2 DEF LoneAt
<1>3. ASSUME NEW p \in Patch, NEW q \in Patch, Concerns(p, o)', Concerns(q, o)' PROVE p = q
  BY <1>3 DEF LoneAt
<1> QED
  BY <1>1, <1>2, <1>3 DEF LoneAt

LEMMA LoneCreated ==
    ASSUME TypeOK, Filed, Scanned, Lone, NEW x \in Op, Creates(x)
    PROVE  Lone'
<1> USE DEF store, data, jobs, history, answers, keysSeen, mishaps
<1>a. hash \in [Op -> HashRecord] /\ scan \in [Op -> ScanRecord]
  BY DEF TypeOK, HashRecord
<1>1. UNCHANGED <<run, doubled, misled>>
  BY DEF Creates, Create, Store1, Store2, CreateFails, ListDrops, Delete1, Delete2, DeleteFails
<1>2. \A o \in Op : o # x => hash'[o] = hash[o] /\ scan'[o] = scan[o]
  BY <1>a DEF Creates, Create, Store1, Store2, CreateFails, ListDrops, Delete1, Delete2, DeleteFails, Store,
     StoreHash, StoreIndex, CreateOrder
<1>3. \/ hash'[x] = hash[x] /\ scan'[x].pc \in {scan[x].pc, "ended"}
      \/ hash'[x].type = None
      \/ Store1(x)
  BY <1>a DEF Creates, Create, Store1, Store2, CreateFails, ListDrops, Delete1, Delete2, DeleteFails, Store,
     StoreHash, StoreIndex, CreateOrder, NoHash, NoScan
<1>4. ASSUME NEW o \in Op, Seen(o)', o \notin doubled \cup misled PROVE LoneAt(o)'
  <2>1. CASE hash'[o] = hash[o] /\ scan'[o].pc \in {scan[o].pc, "ended"}
    BY <1>1, <1>4, <2>1, LoneKept DEF Lone, Seen, Concerns
  <2>2. CASE o = x /\ Store1(x)
    <3>1. \A p \in Patch : ~Concerns(p, o)
      BY <2>2 DEF Scanned, Late, Store1, Unstored
    <3>2. hash'[o].status = "SCANNING" /\ scan'[o].pc = "start"
      BY <1>a, <2>2 DEF Store1, Store, StoreHash, CreateOrder, NoScan
    <3>3. \A p \in Patch : ~Concerns(p, o)'
      BY <1>1, <3>1 DEF Concerns
    <3> QED
      BY <3>2, <3>3 DEF LoneAt, ScanDue
  <2> QED
    BY <1>2, <1>3, <1>4, <2>1, <2>2 DEF Seen
<1> QED
  BY <1>1, <1>4 DEF Lone

LEMMA LoneScan ==
    ASSUME TypeOK, Scanned, Lone, NEW x \in Op, Scans(x)
    PROVE  Lone'
<1>1. ScanGoesOn(x) /\ ScanTurns(x) /\ misled \subseteq misled'
  BY ScanEffect
<1>2. UNCHANGED <<run, doubled>> /\ \A o \in Op : Seen(o)' <=> Seen(o)
  BY <1>1 DEF ScanGoesOn, Seen
<1>3. \A p \in Patch, o \in Op : Concerns(p, o)' <=> Concerns(p, o)
  BY <1>2 DEF Concerns
<1>4. ASSUME NEW o \in Op, Seen(o)', o \notin doubled' \cup misled' PROVE LoneAt(o)'
  <2>1. LoneAt(o)
    BY <1>1, <1>2, <1>4 DEF Lone
  <2>2. CASE hash'[o].status = hash[o].status /\ scan'[o].pc \in {scan[o].pc, "idle", "ended"}
    BY <1>2, <1>3, <2>1, <2>2, LoneKept
  <2>3. CASE o # x
    BY <1>1, <2>2, <2>3 DEF ScanGoesOn
  <2>4. CASE o = x /\ scan[o].pc \in Filling
    <3>1. \A p \in Patch : ~Concerns(p, o)
      BY <2>4 DEF Scanned, Late
    <3>2. ScanDue(scan'[o].pc, hash'[o].status)
      BY <1>1, <1>4, <2>1, <2>4 DEF ScanTurns, LoneAt, ScanDue, Filling
    <3> QED
      BY <1>3, <3>1, <3>2 DEF LoneAt
  <2>5. CASE o = x /\ scan[o].pc = "mark" /\ scan'[o].pc = "clear" /\ hash'[o].status = "FAILED"
    <3>1. hash[o].status = "SCANNING"
      BY <2>1, <2>5 DEF LoneAt, ScanDue
    <3>2. \A p \in Patch : ~Concerns(p, o)
      BY <2>1, <3>1 DEF LoneAt, RunDue, Concerns, Working
    <3> QED
      BY <1>3, <2>5, <3>2 DEF LoneAt, ScanDue, Filling
  <2> QED
    BY <1>1, <2>2, <2>3, <2>4, <2>5 DEF ScanTurns, ScanGoesOn
<1> QED
  BY <1>4 DEF Lone

LEMMA LoneWork ==
    ASSUME TypeOK, Scanned, Lone, NEW p \in Patch, Works(p)
    PROVE  Lone'
<1> DEFINE x == run[p].op
<1>1. RunGoesOn(p) /\ RunTurns(p, x) /\ misled \subseteq misled' /\ x \in Op
  BY WorkEffect DEF Scanned
<1>2. UNCHANGED <<scan, doubled>> /\ \A o \in Op : Seen(o)' <=> Seen(o)
  BY <1>1 DEF RunGoesOn, Seen
<1>3. \A q \in Patch, o \in Op : Concerns(q, o)' => Concerns(q, o) /\ (q # p => run'[q] = run[q])
  BY <1>1 DEF RunGoesOn, Concerns, Working, Background
<1>4. Concerns(p, x)
  BY <1>1 DEF RunGoesOn, Concerns
<1>5. ASSUME NEW o \in Op, Seen(o)', o \notin doubled' \cup misled' PROVE LoneAt(o)'
  <2>1. LoneAt(o)
    BY <1>1, <1>2, <1>5 DEF Lone
  <2>2. CASE o # x
    <3>1. hash'[o] = hash[o]
      BY <1>1, <2>2 DEF RunGoesOn
    <3>2. \A q \in Patch : Concerns(q, o)' => q # p
      BY <1>3, <2>2 DEF Concerns
    <3> QED
      BY <1>2, <1>3, <2>1, <3>1, <3>2, LoneKept
  <2>3. CASE o = x
    <3> HIDE DEF x
    <3>1. RunDue(run[p].pc, hash[o].status) /\ scan[o].pc \notin Filling
      BY <1>4, <2>1, <2>3 DEF LoneAt, Scanned, Late
    <3>2. \A q \in Patch : Concerns(q, o)' => q = p
      BY <1>3, <1>4, <2>1, <2>3 DEF LoneAt
    <3>3. RunTurns(p, o) /\ run[p].pc \in Working
      BY <1>1, <2>3 DEF RunGoesOn
    <3>4. run'[p].pc \in Working => RunDue(run'[p].pc, hash'[o].status)
      BY <1>5, <3>1, <3>3 DEF RunTurns, RunDue, Working, Background
    <3>5. ScanDue(scan'[o].pc, hash'[o].status)
      <4>1. scan[o].pc # "mark"
        BY <2>1, <3>1, <3>3 DEF LoneAt, ScanDue, RunDue, Working
      <4>2. scan[o].pc = "clear" => run[p].pc = "clear"
        BY <2>1, <3>1, <3>3 DEF LoneAt, ScanDue, RunDue, Working
      <4>3. scan[o].pc = "clear" => hash'[o].status = "FAILED"
        BY <2>1, <3>3, <4>2 DEF LoneAt, ScanDue, RunTurns
      <4> QED
        BY <1>2, <3>1, <4>1, <4>3 DEF ScanDue
    <3> QED
      BY <3>2, <3>4, <3>5 DEF LoneAt, Concerns
  <2> QED
    BY <2>2, <2>3
<1> QED
  BY <1>5 DEF Lone

LEMMA LoneGet ==
    ASSUME TypeOK, Scanned, Lone, NEW p \in Patch, NEW x \in Op, PatchGet(p, x)
    PROVE  Lone'
<1>a. run \in [Patch -> RunRecord]
  BY DEF TypeOK
<1>1. /\ UNCHANGED <<hash, scan, misled>> /\ run[p].pc = "idle" /\ hash[x].status = "READY"
      /\ doubled' = (IF Open(x) # {} THEN doubled \cup {x} ELSE doubled)
  BY DEF PatchGet, Arrives, Runs, store
<1>2. /\ run'[p].op = x /\ run'[p].pc \in {"check", "confirm"}
      /\ \A q \in Patch : q # p => run'[q] = run[q]
  BY <1>a DEF PatchGet, NoRun
<1>3. ASSUME NEW o \in Op, Seen(o)', o \notin doubled' \cup misled' PROVE LoneAt(o)'
  <2>1. LoneAt(o)
    BY <1>1, <1>3 DEF Lone, Seen
  <2>2. CASE o # x
    BY <1>1, <1>2, <2>1, <2>2, LoneKept DEF Concerns
  <2>3. CASE o = x
    <3>1. Open(o) = {}
      BY <1>1, <1>3, <2>3
    <3>2. \A q \in Patch : ~Concerns(q, o)
      BY <1>1, <2>1, <2>3, <3>1 DEF LoneAt, RunDue, Concerns, Open, Working
    <3>3. \A q \in Patch : Concerns(q, o)' => q = p
      BY <1>2, <3>2 DEF Concerns
    <3>4. RunDue(run'[p].pc, hash'[o].status)
      BY <1>1, <1>2, <2>3 DEF RunDue, Background
    <3> QED
      BY <1>1, <2>1, <3>3, <3>4 DEF LoneAt
  <2> QED
    BY <2>2, <2>3
<1> QED
  BY <1>3 DEF Lone

LEMMA LoneStep ==
    ASSUME TypeOK, Filed, Scanned, Lone, [Next]_vars
    PROVE  Lone'
<1> USE DEF store, data, jobs, history, answers, keysSeen, mishaps
<1>1. CASE Dies
  <2>1. UNCHANGED <<hash, doubled, misled>> /\ \A p \in Patch : run'[p].pc \notin Working
    BY <1>1 DEF Dies, NoRun, Ended, Working, Background
  <2>2. \A o \in Op : scan'[o].pc \in {"idle", "ended"}
    BY <1>1 DEF Dies, NoScan
  <2> QED
    BY <2>1, <2>2, LoneKept DEF Lone, Seen, Concerns
<1>2. CASE Saves \/ (\E f \in Flag : Touch(f)) \/ UNCHANGED vars
  <2>1. UNCHANGED <<hash, scan, run, doubled, misled>>
    BY <1>2 DEF Saves, SaveRead, SaveWrite, SaveFails, Touch, vars
  <2> QED
    BY <2>1, LoneKept DEF Lone, Seen, Concerns
<1> QED
  BY <1>1, <1>2, Steps, LoneCreated, LoneScan, LoneWork, LoneGet

-----------------------------------------------------------------------------
(* The theorems.                                                           *)

LEMMA InvInit == Init => OperationsInv
<1> SUFFICES ASSUME Init PROVE OperationsInv
  OBVIOUS
<1>1. TypeOK
  BY InitType
<1>2. Filed
  BY OperationsAssumption DEF Init, Filed, FiledAs, Seen, NoHash, NoScan, Types
<1>3. Scanned
  BY OperationsAssumption DEF Init, Scanned, Concerns, NoHash, NoRun, Working, Background
<1>4. Chose
  BY EmptyRange DEF Init, Chose, NoScan, NoRun, Working, Background
<1>5. Fitting
  BY DEF Init, Fitting, NoRun, Working, Background
<1>6. Copied
  <2>1. Asked({"migration"}) => v1 = {"mocks"} \cup V1Flag
    BY DEF Init
  <2>2. /\ \A p \in Patch : run[p].pc = "idle"
        /\ \A o \in Op : hash[o].status = None /\ creating[o] = "idle"
    BY DEF Init, NoRun, NoHash
  <2> QED
    BY <2>1, <2>2, OperationsAssumption DEF Copied, Statuses
<1>7. Moved
  BY DEF Init, Moved, Migrating, NoRun, NoSave
<1>8. Lone
  BY DEF Init, Lone, Seen, NoHash
<1> QED
  BY <1>1, <1>2, <1>3, <1>4, <1>5, <1>6, <1>7, <1>8 DEF OperationsInv

\* The inductive invariant holds: keys follow creations and deletions, a PATCH finds what
\* is scanned, what is purged was found, a migration that is DONE has copied all, what it
\* copied stays in the workspace, and one job at most works on an operation.
THEOREM InvariantHolds == Spec => []OperationsInv
<1>1. ASSUME OperationsInv, [Next]_vars PROVE OperationsInv'
  <2>1. TypeOK'
    BY <1>1, TypeStep DEF OperationsInv, Scanned
  <2> QED
    BY <1>1, <2>1, FiledStep, ScannedStep, ChoseStep, FittingStep, CopiedStep, MovedStep, LoneStep
       DEF OperationsInv
<1> QED
  BY <1>1, InvInit, PTL DEF Spec

\* A purge removes only what its scan chose, and starts when the scan is over.
THEOREM PurgesWhatWasChosen == Spec => []PurgedWasChosen
<1>1. OperationsInv => PurgedWasChosen
  BY DEF OperationsInv, PurgedWasChosen, Chose, Scanned, Concerns, Late, Working
<1> QED
  BY <1>1, InvariantHolds, PTL

\* An operation answered 201 is there until it is deleted, and then gone for good.
THEOREM ThereUntilDeleted == Spec => []ListedUntilDeleted
<1>1. OperationsInv => ListedUntilDeleted
  <2> SUFFICES ASSUME OperationsInv PROVE ListedUntilDeleted
    OBVIOUS
  <2>1. acked \subseteq Op /\ gone \subseteq Op
    BY DEF OperationsInv, TypeOK
  <2>2. ASSUME NEW o \in gone, NEW p \in Patch, run[p].op = o, run[p].pc = "pop" PROVE list[o] = <<>>
    BY <2>1, <2>2 DEF OperationsInv, Filed, FiledAs, Scanned, Concerns, Late, Working, Background
  <2> QED
    BY <2>1, <2>2 DEF OperationsInv, Filed, FiledAs, ListedUntilDeleted
<1> QED
  BY <1>1, InvariantHolds, PTL

\* Migrations, v1 purges and saves lose no mock, but for two migrations that overlap and
\* a save that spans the write of a migration.
THEOREM NothingIsLost == Spec => []MigrationKeepsData
<1>1. OperationsInv => MigrationKeepsData
  BY DEF OperationsInv, Moved, Copied, MigrationKeepsData
<1> QED
  BY <1>1, InvariantHolds, PTL

\* What is DONE is not run again and not called FAILED, but for operations that two
\* PATCHes read READY at once, or with an error after READY or DONE was written.
THEOREM DoneIsDone == Spec => DoneStays
<1> USE DEF store, data, jobs, history, answers, keysSeen, mishaps
<1>1. ASSUME OperationsInv, [Next]_vars, NEW o \in Op, Seen(o), hash[o].status = "DONE",
             o \notin doubled \cup misled
      PROVE  ~Seen(o)' \/ hash'[o].status = "DONE"
  <2> USE <1>1
  <2>1. TypeOK /\ Filed /\ Scanned /\ LoneAt(o)
    BY DEF OperationsInv, Lone
  <2>2. ASSUME NEW x \in Op, Creates(x) PROVE hash'[o] = hash[o] \/ ~Seen(o)'
    <3>1. Store1(x) => x # o
      BY <2>1 DEF Store1, Filed, FiledAs, Unstored
    <3> QED
      BY <2>1, <2>2, <3>1 DEF Creates, Create, Store1, Store2, Store, StoreHash, StoreIndex, CreateOrder, CreateFails,
         ListDrops, Delete1, Delete2, DeleteFails, NoHash, Seen, TypeOK
  <2>3. ASSUME NEW x \in Op, Scans(x) PROVE hash'[o].status = "DONE"
    <3>1. ScanGoesOn(x) /\ ScanTurns(x)
      BY <2>1, <2>3, ScanEffect
    <3>2. scan[o].pc \notin Filling \cup {"mark"}
      BY <2>1 DEF LoneAt, ScanDue
    <3> QED
      BY <3>1, <3>2 DEF ScanGoesOn, ScanTurns
  <2>4. ASSUME NEW p \in Patch, Works(p) PROVE hash'[o].status = "DONE"
    <3>1. RunGoesOn(p) /\ RunTurns(p, run[p].op) /\ run[p].op \in Op
      BY <2>1, <2>4, WorkEffect DEF Scanned
    <3>2. CASE run[p].op # o
      BY <3>1, <3>2 DEF RunGoesOn
    <3>3. CASE run[p].op = o
      <4>1. run[p].pc = "drop"
        BY <2>1, <3>1, <3>3 DEF RunGoesOn, LoneAt, RunDue, Concerns, Working
      <4> QED
        BY <3>1, <3>3, <4>1 DEF RunTurns
    <3> QED
      BY <3>2, <3>3
  <2>5. ASSUME Dies \/ Saves \/ (\E f \in Flag : Touch(f)) \/ UNCHANGED vars
               \/ \E p \in Patch, x \in Op : PatchGet(p, x)
        PROVE  hash' = hash
    BY <2>5 DEF Dies, Saves, SaveRead, SaveWrite, SaveFails, Touch, vars, PatchGet
  <2> QED
    BY <2>2, <2>3, <2>4, <2>5, Steps
<1>2. OperationsInv /\ [Next]_vars =>
        [\A o \in Op : Seen(o) /\ hash[o].status = "DONE" =>
            ~Seen(o)' \/ hash'[o].status = "DONE" \/ o \in doubled \cup misled]_vars
  BY <1>1
<1> QED
  BY <1>2, InvariantHolds, PTL DEF Spec, DoneStays

=============================================================================
