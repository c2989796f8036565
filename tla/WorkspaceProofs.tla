--------------------------- MODULE WorkspaceProofs ---------------------------
(***************************************************************************)
(* Theorems about Workspace, for any requests, beginnings, files and names *)
(* that WorkspaceAssumption allows.                                        *)
(***************************************************************************)
EXTENDS WorkspaceInvariant, FiniteSetTheorems, TLAPS

-----------------------------------------------------------------------------
(* Filtering a sequence.  The recursion is unfolded by least counterexamples. *)

LEMMA LeastNat ==
    ASSUME NEW T \in SUBSET Nat, T # {}
    PROVE  \E n \in T : \A m \in T : ~(m < n)
<1>1. IsWellFoundedOn(OpToRel(<, Nat), Nat)
  BY NatLessThanWellFounded
<1>2. PICK n \in T : \A m \in T : <<m, n>> \notin OpToRel(<, Nat)
  BY <1>1, WFMin
<1> QED
  BY <1>2 DEF OpToRel

\* The function that Kept is the last value of.
Step(f, s, T, n) ==
    IF n = 0 THEN <<>> ELSE IF s[n] \in T THEN Append(f[n - 1], s[n]) ELSE f[n - 1]

LEMMA StepsExist ==
    ASSUME NEW s, NEW T, NEW len \in Nat
    PROVE  \E f : f = [n \in 0 .. len |-> Step(f, s, T, n)]
<1> DEFINE Missing == {m \in Nat : ~ \E f : f = [n \in 0 .. m |-> Step(f, s, T, n)]}
<1>1. SUFFICES ASSUME len \in Missing PROVE FALSE
  OBVIOUS
<1>2. PICK m \in Missing : \A j \in Missing : ~(j < m)
  BY <1>1, LeastNat
<1>3. CASE m = 0
  <2> DEFINE f == [n \in 0 .. 0 |-> <<>>]
  <2>1. f = [n \in 0 .. 0 |-> Step(f, s, T, n)]
    BY DEF Step
  <2> QED
    BY <1>2, <1>3, <2>1
<1>4. CASE m # 0
  <2>1. m \in Nat /\ m - 1 \in Nat /\ m - 1 < m
    BY <1>2, <1>4
  <2>2. PICK g : g = [n \in 0 .. m - 1 |-> Step(g, s, T, n)]
    BY <1>2, <2>1
  <2> DEFINE f == [n \in 0 .. m |-> Step(g, s, T, n)]
  <2>3. ASSUME NEW n \in 0 .. m, n # 0 PROVE f[n - 1] = g[n - 1]
    <3>1. n - 1 \in 0 .. m - 1 /\ n - 1 \in 0 .. m
      BY <2>1, <2>3
    <3> QED
      BY <2>2, <3>1
  <2>4. ASSUME NEW n \in 0 .. m PROVE Step(g, s, T, n) = Step(f, s, T, n)
    <3> HIDE DEF f
    <3> QED
      BY <2>3 DEF Step
  <2>5. f = [n \in 0 .. m |-> Step(f, s, T, n)]
    BY <2>4
  <2> QED
    BY <1>2, <2>5
<1> QED
  BY <1>3, <1>4

LEMMA KeptSteps ==
    ASSUME NEW S, NEW s \in Seq(S), NEW T
    PROVE  \E f : f = [n \in 0 .. Len(s) |-> Step(f, s, T, n)] /\ Kept(s, T) = f[Len(s)]
<1> DEFINE P(f) == f = [n \in 0 .. Len(s) |->
                          IF n = 0 THEN <<>>
                          ELSE IF s[n] \in T THEN Append(f[n - 1], s[n]) ELSE f[n - 1]]
           k == CHOOSE f : P(f)
<1>1. \E f : P(f)
  <2> DEFINE len == Len(s)
  <2>1. len \in Nat
    OBVIOUS
  <2>2. PICK f : f = [n \in 0 .. len |-> Step(f, s, T, n)]
    <3> HIDE DEF len
    <3> QED
      BY <2>1, StepsExist, SMTT(30)
  <2>3. P(f)
    BY <2>2 DEF Step
  <2> QED
    BY <2>3
<1>2. P(k)
  <2> HIDE DEF P
  <2> QED
    BY <1>1
<1>3. Kept(s, T) = k[Len(s)]
  BY DEF Kept
<1> HIDE DEF k
<1> QED
  BY <1>2, <1>3 DEF Step

\* What a filter returns: a sequence of what is in T, each element at a place of its own
\* and in the order it had.
LEMMA KeptProperties ==
    ASSUME NEW S, NEW s \in Seq(S), NEW T
    PROVE  LET t == Kept(s, T) IN
           /\ t \in Seq(S)
           /\ Range(t) = Range(s) \cap T
           /\ \A i, j \in DOMAIN t : i < j =>
                \E a, b \in DOMAIN s : a < b /\ s[a] = t[i] /\ s[b] = t[j]
<1>1. PICK f : f = [n \in 0 .. Len(s) |-> Step(f, s, T, n)] /\ Kept(s, T) = f[Len(s)]
  BY KeptSteps
<1> DEFINE Good(t, n) ==
             /\ t \in Seq(S)
             /\ \A i \in 1 .. Len(t) : \E a \in 1 .. n : s[a] = t[i] /\ s[a] \in T
             /\ \A a \in 1 .. n : s[a] \in T => \E i \in 1 .. Len(t) : t[i] = s[a]
             /\ \A i, j \in 1 .. Len(t) : i < j =>
                  \E a, b \in 1 .. n : a < b /\ s[a] = t[i] /\ s[b] = t[j]
           Bad == {n \in 0 .. Len(s) : ~Good(f[n], n)}
<1>2. Good(f[0], 0)
  <2>1. f[0] = <<>>
    BY <1>1 DEF Step
  <2> QED
    BY <2>1
<1>3. ASSUME NEW n \in 0 .. Len(s), n # 0, Good(f[n - 1], n - 1)
      PROVE  Good(f[n], n)
  <2>1. n \in 1 .. Len(s) /\ s[n] \in S /\ n - 1 \in 0 .. Len(s)
    BY <1>3
  <2> DEFINE t == f[n - 1]
  <2>2. CASE s[n] \notin T
    <3>1. f[n] = t
      BY <1>1, <1>3, <2>2, ZenonT(30) DEF Step
    <3>2. \A a \in 1 .. n : s[a] \in T => a \in 1 .. n - 1
      BY <2>1, <2>2
    <3>3. \A a \in 1 .. n - 1 : a \in 1 .. n
      BY <2>1
    <3> HIDE DEF t
    <3> QED
      BY <1>3, <3>1, <3>2, <3>3 DEF t
  <2>3. CASE s[n] \in T
    <3>1. f[n] = Append(t, s[n])
      BY <1>1, <1>3, <2>3 DEF Step
    <3>2. t \in Seq(S) /\ Good(t, n - 1)
      BY <1>3
    <3> HIDE DEF t
    <3>3. /\ f[n] \in Seq(S) /\ Len(f[n]) = Len(t) + 1 /\ f[n][Len(t) + 1] = s[n]
          /\ \A i \in 1 .. Len(t) : f[n][i] = t[i]
          /\ Len(t) \in Nat
      BY <2>1, <3>1, <3>2
    <3>4. ASSUME NEW i \in 1 .. Len(f[n])
          PROVE  \E a \in 1 .. n : s[a] = f[n][i] /\ s[a] \in T
      <4>1. CASE i = Len(t) + 1
        BY <2>1, <2>3, <3>3, <4>1
      <4>2. CASE i # Len(t) + 1
        <5>1. i \in 1 .. Len(t)
          BY <3>3, <4>2
        <5>2. PICK a \in 1 .. n - 1 : s[a] = t[i] /\ s[a] \in T
          BY <3>2, <5>1
        <5> QED
          BY <2>1, <3>3, <5>1, <5>2
      <4> QED
        BY <4>1, <4>2
    <3>5. ASSUME NEW a \in 1 .. n, s[a] \in T
          PROVE  \E i \in 1 .. Len(f[n]) : f[n][i] = s[a]
      <4>1. CASE a = n
        BY <3>3, <4>1
      <4>2. CASE a # n
        <5>1. a \in 1 .. n - 1
          BY <2>1, <4>2
        <5>2. PICK i \in 1 .. Len(t) : t[i] = s[a]
          BY <3>2, <3>5, <5>1
        <5> QED
          BY <3>3, <5>2
      <4> QED
        BY <4>1, <4>2
    <3>6. ASSUME NEW i \in 1 .. Len(f[n]), NEW j \in 1 .. Len(f[n]), i < j
          PROVE  \E a, b \in 1 .. n : a < b /\ s[a] = f[n][i] /\ s[b] = f[n][j]
      <4>1. CASE j = Len(t) + 1
        <5>1. i \in 1 .. Len(t)
          BY <3>3, <3>6, <4>1
        <5>2. PICK a \in 1 .. n - 1 : s[a] = t[i]
          BY <3>2, <5>1
        <5> QED
          BY <2>1, <3>3, <4>1, <5>1, <5>2
      <4>2. CASE j # Len(t) + 1
        <5>1. i \in 1 .. Len(t) /\ j \in 1 .. Len(t)
          BY <3>3, <3>6, <4>2
        <5>2. PICK a \in 1 .. n - 1, b \in 1 .. n - 1 : a < b /\ s[a] = t[i] /\ s[b] = t[j]
          BY <3>2, <3>6, <5>1
        <5> QED
          BY <2>1, <3>3, <5>1, <5>2
      <4> QED
        BY <4>1, <4>2
    <3> QED
      BY <3>3, <3>4, <3>5, <3>6
  <2> QED
    BY <2>2, <2>3
<1>4. Bad = {}
  <2>1. SUFFICES ASSUME Bad # {} PROVE FALSE
    OBVIOUS
  <2>2. Bad \subseteq Nat
    OBVIOUS
  <2>3. PICK n \in Bad : \A m \in Bad : ~(m < n)
    BY <2>1, <2>2, LeastNat
  <2> HIDE DEF Good
  <2>4. n # 0 /\ n \in 0 .. Len(s) /\ ~Good(f[n], n)
    BY <1>2, <2>3
  <2>5. Len(s) \in Nat
    OBVIOUS
  <2>6. n - 1 \in 0 .. Len(s) /\ n - 1 < n
    BY <2>4, <2>5
  <2>7. Good(f[n - 1], n - 1)
    BY <2>3, <2>6
  <2> QED
    BY <1>3, <2>4, <2>7
<1>5. Len(s) \in Nat /\ Good(f[Len(s)], Len(s))
  <2>1. Len(s) \in Nat
    OBVIOUS
  <2> HIDE DEF Good
  <2> QED
    BY <1>4, <2>1
<1> DEFINE t == Kept(s, T)
           len == Len(s)
<1>6. t \in Seq(S) /\ Good(t, len)
  <2> HIDE DEF Good
  <2> QED
    BY <1>1, <1>5
<1>7. DOMAIN s = 1 .. len /\ DOMAIN t = 1 .. Len(t) /\ len \in Nat
  BY <1>6
<1> HIDE DEF t, len
<1>8. ASSUME NEW x \in Range(t) PROVE x \in Range(s) \cap T
  <2>1. PICK i \in 1 .. Len(t) : x = t[i]
    BY <1>7 DEF Range
  <2>2. PICK a \in 1 .. len : s[a] = t[i] /\ s[a] \in T
    BY <1>6, <2>1
  <2> QED
    BY <1>7, <2>1, <2>2 DEF Range
<1>9. ASSUME NEW x \in Range(s) \cap T PROVE x \in Range(t)
  <2>1. PICK a \in 1 .. len : x = s[a]
    BY <1>7 DEF Range
  <2>2. PICK i \in 1 .. Len(t) : t[i] = s[a]
    BY <1>6, <1>9, <2>1
  <2> QED
    BY <1>7, <2>1, <2>2 DEF Range
<1>10. ASSUME NEW i \in DOMAIN t, NEW j \in DOMAIN t, i < j
       PROVE  \E a, b \in DOMAIN s : a < b /\ s[a] = t[i] /\ s[b] = t[j]
  <2>1. i \in 1 .. Len(t) /\ j \in 1 .. Len(t)
    BY <1>7
  <2>2. PICK a \in 1 .. len, b \in 1 .. len : a < b /\ s[a] = t[i] /\ s[b] = t[j]
    BY <1>6, <1>10, <2>1
  <2> QED
    BY <1>7, <2>2
<1> HIDE DEF Good
<1>11. Range(t) = Range(s) \cap T
  BY <1>8, <1>9
<1> QED
  BY <1>6, <1>10, <1>11 DEF t

-----------------------------------------------------------------------------
(* Documents.                                                              *)

LEMMA ToDeployOK ==
    ASSUME NEW k, NEW items \in Seq(Item)
    PROVE  ToDeploy(k, items) \in Seq(Item)
  BY KeptProperties DEF ToDeploy

\* A document lists as many items as it has ids.
LEMMA IdsCounted ==
    ASSUME NEW d, IsDocument(d)
    PROVE  Len(d) = Cardinality(Ids(d))
<1>1. Len(d) \in Nat /\ DOMAIN d = 1 .. Len(d)
  BY DEF IsDocument
<1> DEFINE f == [m \in 1 .. Len(d) |-> d[m].id]
<1>2. f \in Bijection(1 .. Len(d), Ids(d))
  <2>1. \A m \in 1 .. Len(d) : f[m] \in Ids(d)
    BY <1>1 DEF Ids, Range
  <2>2. \A i \in Ids(d) : \E m \in 1 .. Len(d) : f[m] = i
    BY <1>1 DEF Ids, Range
  <2>3. \A m, n \in 1 .. Len(d) : f[m] = f[n] => m = n
    BY <1>1 DEF IsDocument
  <2> QED
    BY <2>1, <2>2, <2>3 DEF Bijection, Injection, Surjection, IsInjective
<1>3. ExistsBijection(1 .. Len(d), Ids(d))
  BY <1>2 DEF ExistsBijection
<1> QED
  BY <1>1, <1>3, FS_CountingElements

\* What a request makes of a document is a document: the item has gone, or is there in
\* place of any of its id.
LEMMA ApplyOK ==
    ASSUME NEW r, r.item \in Item, NEW d, IsDocument(d)
    PROVE  /\ IsDocument(Apply(r, d))
           /\ Range(Apply(r, d)) = {x \in Range(d) : x.id # r.item.id}
                                     \cup (IF r.op = "delete" THEN {} ELSE {r.item})
<1> DEFINE new == Apply(r, d)
           same == {m \in DOMAIN d : d[m].id = r.item.id}
<1>1. d \in Seq(Item) /\ Len(d) \in Nat /\ DOMAIN d = 1 .. Len(d)
  BY DEF IsDocument
<1>2. CASE r.op = "delete"
  <2> DEFINE T == {x \in Range(d) : x.id # r.item.id}
  <2>1. new = Kept(d, T)
    BY <1>2 DEF Apply
  <2> HIDE DEF new, T
  <2>2. /\ new \in Seq(Item) /\ Range(new) = Range(d) \cap T
        /\ \A i, j \in DOMAIN new : i < j =>
             \E a, b \in DOMAIN d : a < b /\ d[a] = new[i] /\ d[b] = new[j]
    <3> DEFINE t == Kept(d, T)
    <3>1. /\ t \in Seq(Item) /\ Range(t) = Range(d) \cap T
          /\ \A i, j \in DOMAIN t : i < j =>
               \E a, b \in DOMAIN d : a < b /\ d[a] = t[i] /\ d[b] = t[j]
      BY <1>1, KeptProperties
    <3> QED
      BY <2>1, <3>1
  <2>3. ASSUME NEW i \in DOMAIN new, NEW j \in DOMAIN new, i < j
        PROVE  new[i].id # new[j].id
    <3>1. PICK a \in DOMAIN d, b \in DOMAIN d : a < b /\ d[a] = new[i] /\ d[b] = new[j]
      BY <2>2, <2>3
    <3> QED
      BY <1>1, <3>1 DEF IsDocument
  <2>4. \A i, j \in DOMAIN new : new[i].id = new[j].id => i = j
    <3>1. \A i \in DOMAIN new : i \in Nat
      BY <2>2
    <3> QED
      BY <2>3, <3>1
  <2> QED
    BY <1>2, <2>2, <2>4 DEF IsDocument, new, T
<1>3. CASE r.op # "delete" /\ same = {}
  <2>1. new = Append(d, r.item)
    BY <1>3 DEF Apply
  <2> HIDE DEF new
  <2>2. /\ new \in Seq(Item) /\ DOMAIN new = 1 .. Len(d) + 1
        /\ new[Len(d) + 1] = r.item /\ \A m \in 1 .. Len(d) : new[m] = d[m]
    BY <1>1, <2>1
  <2>3. \A m \in 1 .. Len(d) : d[m].id # r.item.id
    BY <1>1, <1>3
  <2>4. IsDocument(new)
    BY <1>1, <2>2, <2>3 DEF IsDocument
  <2>5. Range(new) = Range(d) \cup {r.item}
    BY <1>1, <2>2 DEF Range
  <2>6. \A x \in Range(d) : x.id # r.item.id
    BY <1>1, <2>3 DEF Range
  <2> QED
    BY <1>3, <2>4, <2>5, <2>6 DEF new
<1>4. CASE r.op # "delete" /\ same # {}
  <2>1. new = [m \in DOMAIN d |-> IF m \in same THEN r.item ELSE d[m]]
    BY <1>4 DEF Apply
  <2>2. PICK here \in DOMAIN d : d[here].id = r.item.id
    BY <1>4
  <2>3. \A m \in DOMAIN d : m \in same <=> m = here
    BY <2>2 DEF IsDocument
  <2> HIDE DEF new, same
  <2>4. /\ new \in Seq(Item) /\ DOMAIN new = DOMAIN d /\ new[here] = r.item
        /\ \A m \in DOMAIN d : m # here => new[m] = d[m] /\ d[m].id # r.item.id
    <3>1. DOMAIN new = DOMAIN d /\ new[here] = r.item
      BY <2>1, <2>2, <2>3
    <3>2. \A m \in DOMAIN d : m # here => new[m] = d[m] /\ d[m].id # r.item.id
      BY <2>1, <2>2, <2>3 DEF IsDocument
    <3>3. \A m \in 1 .. Len(d) : d[m] \in Item
      BY <1>1
    <3>4. new \in [1 .. Len(d) -> Item]
      BY <1>1, <2>1, <3>3
    <3>5. new \in Seq(Item)
      BY <1>1, <3>4
    <3> QED
      BY <3>1, <3>2, <3>5
  <2>5. IsDocument(new)
    BY <2>2, <2>4 DEF IsDocument
  <2>6. ASSUME NEW x \in Range(new)
        PROVE  x = r.item \/ (x \in Range(d) /\ x.id # r.item.id)
    BY <2>4 DEF Range
  <2>7. ASSUME NEW x \in Range(d), x.id # r.item.id
        PROVE  x \in Range(new)
    BY <2>2, <2>4, <2>7 DEF Range
  <2>8. r.item \in Range(new)
    BY <2>2, <2>4 DEF Range
  <2> QED
    BY <1>4, <2>5, <2>6, <2>7, <2>8 DEF new
<1> QED
  BY <1>2, <1>3, <1>4

-----------------------------------------------------------------------------
\* No id is at home with two kinds, and that of a creation not written yet with none.
LEMMA HomesApart ==
    ASSUME NEW j \in Kind, NEW k \in Kind, NEW i, i \in Home(j), i \in Home(k)
    PROVE  j = k
  BY WorkspaceAssumption DEF Home

LEMMA NotYetHome ==
    ASSUME NEW q \in Request, ~Written(request[q]), NEW k \in Kind
    PROVE  q \notin Home(k)
  BY WorkspaceAssumption DEF Home

\* A home loses nobody.
LEMMA HomeKept ==
    ASSUME \A p \in Request : Written(request[p]) =>
             /\ Written(request'[p]) /\ request'[p].op = request[p].op
             /\ request'[p].kind = request[p].kind,
           NEW k
    PROVE  Home(k) \subseteq Home(k)'
  BY DEF Home, Written

-----------------------------------------------------------------------------
LEMMA InitOK == Init => WorkspaceInv
<1> SUFFICES ASSUME Init PROVE WorkspaceInv
  OBVIOUS
<1>1. \A k \in Kind : IsDocument(doc[k]) /\ doc[k] \in Seq(Item)
  BY WorkspaceAssumption DEF Init, IsDocument
<1>2. doc \in [Kind -> Seq(Item)]
  BY WorkspaceAssumption DEF Init
<1>3. deployment \in [Kind -> Seq(Item)] /\ Deployed
  BY <1>1, ToDeployOK DEF Init, Deployed
<1>4. NoRequest \in RequestRecord
  BY DEF NoRequest, RequestRecord, Snapshot
<1>5. Typed
  <2>1. request \in [Request -> RequestRecord]
    BY <1>4 DEF Init
  <2>2. errors \in 0 .. MaxErrors
    BY WorkspaceAssumption DEF Init
  <2> QED
    BY <1>1, <1>2, <1>3, <2>1, <2>2 DEF Init, Typed
<1>6. AtHome
  BY DEF Init, AtHome, Home
<1>7. ASSUME NEW q \in Request PROVE RequestInv(q, request[q])
  <2>1. request[q] = NoRequest
    BY DEF Init
  <2> QED
    BY <1>4, <2>1 DEF NoRequest, RequestInv, RequestOK, HomeOK, LookedOK, CheckedOK, GatheredOK, StandsOK, AwayOK
<1>8. SlugsUnique
  BY WorkspaceAssumption DEF Init, SlugsUnique, Range
<1>9. StaysAway /\ Unclobbered /\ Deploys
  BY <1>3 DEF Init, StaysAway, Unclobbered, Deploys
<1> QED
  BY <1>5, <1>6, <1>7, <1>8, <1>9 DEF WorkspaceInv

-----------------------------------------------------------------------------
(* A step of request q that leaves the documents as they are: it becomes r. *)

\* Another request is as it was, or learns that it is late.
Untouched(p) ==
    LET now == request'[p]
        was == request[p] IN
    /\ now \in RequestRecord
    /\ now.op = was.op /\ now.kind = was.kind /\ now.pc = was.pc /\ now.item = was.item
    /\ now.read = was.read /\ now.snapshot = was.snapshot
    /\ was.late => now.late
    /\ was.stale => now.stale

\* Where r stands, and what it relies on: of which a request that ends needs little.
LEMMA OneRequest ==
    ASSUME WorkspaceInv, UNCHANGED <<mode, doc, clobbered, raced>>,
           NEW q \in Request, NEW r \in RequestRecord, request'[q] = r,
           \A p \in Request \ {q} : Untouched(p),
           \* r goes on with what the request began
           request[q].pc # "idle" =>
             r.op = request[q].op /\ r.kind = request[q].kind /\ r.item = request[q].item,
           Written(request[q]) => Written(r),
           RequestOK(r), HomeOK(q, r), LookedOK(r), CheckedOK(r), GatheredOK(r), AwayOK(r),
           r.op = "create" /\ r.pc \in {"deploy", "put"} => request[q].pc \in {"deploy", "put"},
           \* and is answered at its end
           created' = created \/ ( /\ created' = created \cup {q} /\ r.op = "create" /\ r.pc = "done"
                                   /\ request[q].pc \in {"deploy", "put"} ),
           deleted' = deleted \/ ( /\ deleted' = deleted \cup {r.item.id} /\ r.op = "delete"
                                   /\ request[q].pc \in {"deploy", "put"} )
    PROVE  /\ AtHome' /\ (\A p \in Request : RequestInv(p, request[p])') /\ SlugsUnique'
           /\ StaysAway' /\ Unclobbered'
           /\ \A p \in created' : p \in Request /\ request'[p].op = "create" /\ request'[p].pc = "done"
<1> DEFINE old == request[q]
<1>1. Typed /\ AtHome /\ (\A p \in Request : RequestInv(p, request[p])) /\ SlugsUnique /\ StaysAway
  BY DEF WorkspaceInv
<1>2. \A p \in Request : request[p] \in RequestRecord
  BY <1>1 DEF Typed
<1>3. ASSUME NEW p \in Request, p # q
      PROVE  /\ request'[p].op = request[p].op /\ request'[p].kind = request[p].kind
             /\ request'[p].pc = request[p].pc /\ request'[p].item = request[p].item
             /\ request'[p].read = request[p].read /\ request'[p].snapshot = request[p].snapshot
             /\ request[p].stale => request'[p].stale
             /\ request[p].late => request'[p].late
             /\ request'[p] \in RequestRecord
  BY <1>3 DEF Untouched
<1>4. RequestOK(old) /\ HomeOK(q, old) /\ AwayOK(old) /\ StandsOK(q, old)
  BY <1>1 DEF RequestInv
<1>5. \A k \in Kind : Home(k) \subseteq Home(k)'
  <2>1. \A p \in Request : Written(request[p]) =>
             /\ Written(request'[p]) /\ request'[p].op = request[p].op
             /\ request'[p].kind = request[p].kind
    BY <1>3 DEF Written
  <2> QED
    BY <2>1, HomeKept
<1>6. \A i : Gone(i) => Gone(i)'
  BY DEF Gone, Here
<1>7. \A i : Dropped(i) => Dropped(i)'
  <2>1. \A p \in Request : request[p].op = "delete" =>
          request'[p].op = "delete" /\ request'[p].item = request[p].item
    BY <1>3, <1>4 DEF RequestOK
  <2> QED
    BY <2>1 DEF Dropped
<1>8. AtHome'
  <2>1. deleted' # deleted => r.item.id \in Home(r.kind) /\ r.kind \in Kind
    BY <1>4 DEF HomeOK, RequestOK
  <2> QED
    BY <1>1, <1>5, <2>1 DEF AtHome
<1>9. StaysAway'
  <2>1. deleted' # deleted => Gone(r.item.id)
    BY <1>4 DEF AwayOK
  <2> QED
    BY <1>1, <1>6, <2>1 DEF StaysAway
<1>10. ASSUME NEW p \in Request, p # q PROVE RequestInv(p, request[p])'
  <2>1. RequestInv(p, request[p])
    BY <1>1
  <2>2. RequestOK(request[p])'
    BY <1>3, <1>10, <2>1 DEF RequestInv, RequestOK
  <2>3. HomeOK(p, request[p])'
    <3>1. request[p].kind \in Kind \/ request[p].op = "none"
      BY <2>1 DEF RequestInv, RequestOK
    <3>2. request[p].pc = "write" => request[p].kind \in Kind
      BY <2>1 DEF RequestInv, RequestOK
    <3> QED
      BY <1>3, <1>5, <1>10, <2>1, <3>1, <3>2 DEF RequestInv, HomeOK
  <2>4. ~request[p].late \/ request'[p].late
    BY <1>2, <1>3, <1>10 DEF RequestRecord
  <2>5. LookedOK(request[p])' /\ CheckedOK(request[p])' /\ GatheredOK(request[p])'
    <3>1. LookedOK(request[p])'
      BY <1>3, <1>10, <2>1, <2>4 DEF RequestInv, LookedOK
    <3>2. CheckedOK(request[p])'
      <4> DEFINE now == request'[p]
                 was == request[p]
      <4>1. CheckedOK(was) /\ doc' = doc
        BY <2>1 DEF RequestInv
      <4>2. now.op = was.op /\ now.kind = was.kind /\ now.pc = was.pc /\ now.item = was.item
        BY <1>3, <1>10
      <4>3. ~now.late => ~was.late
        BY <2>4
      <4> HIDE DEF now, was
      <4>4. CheckedOK(now)
        BY <4>1, <4>2, <4>3 DEF CheckedOK
      <4> QED
        BY <4>1, <4>4 DEF CheckedOK, now
    <3>3. GatheredOK(request[p])'
      BY <1>3, <1>10, <2>1, <2>4 DEF RequestInv, GatheredOK
    <3> QED
      BY <3>1, <3>2, <3>3
  <2>7. StandsOK(p, request[p])'
    <3>1. p \in created' => p \in created
      BY <1>10
    <3> QED
      BY <1>3, <1>7, <1>10, <2>1, <3>1 DEF RequestInv, StandsOK, Here
  <2>6. AwayOK(request[p])'
    BY <1>3, <1>6, <1>10, <2>1 DEF RequestInv, AwayOK
  <2> QED
    BY <2>2, <2>3, <2>5, <2>6, <2>7 DEF RequestInv
<1>11. RequestInv(q, request[q])'
  <2>1. RequestOK(request[q])'
    BY DEF RequestOK
  <2>2. HomeOK(q, request[q])'
    BY <1>5 DEF HomeOK, RequestOK
  <2>3. LookedOK(request[q])' /\ CheckedOK(request[q])' /\ GatheredOK(request[q])'
    BY DEF LookedOK, CheckedOK, GatheredOK
  <2>4. StandsOK(q, request[q])'
    <3>1. q \in created => old.op = "create" /\ old.pc = "done"
      BY <1>1 DEF Typed
    <3> QED
      BY <1>4, <1>7, <3>1 DEF StandsOK, Here, RequestOK
  <2>5. AwayOK(request[q])'
    BY <1>6 DEF AwayOK
  <2> QED
    BY <2>1, <2>2, <2>3, <2>4, <2>5 DEF RequestInv
<1>12. SlugsUnique' /\ Unclobbered'
  BY <1>1 DEF SlugsUnique, Unclobbered, WorkspaceInv
<1>13. ASSUME NEW p \in created'
       PROVE  p \in Request /\ request'[p].op = "create" /\ request'[p].pc = "done"
  <2>1. \A x \in created : x \in Request /\ request[x].op = "create" /\ request[x].pc = "done"
    BY <1>1 DEF Typed
  <2>2. CASE p = q
    <3>1. p \in created => r.pc = "done" /\ r.op = "create"
      BY <2>1, <2>2 DEF Written, RequestOK
    <3> QED
      BY <2>2, <3>1
  <2>3. CASE p # q
    <3>1. p \in created
      BY <2>3
    <3> QED
      BY <1>3, <2>1, <2>3, <3>1
  <2> QED
    BY <2>2, <2>3
<1> QED
  BY <1>8, <1>9, <1>10, <1>11, <1>12, <1>13

-----------------------------------------------------------------------------
(* A step of request q that writes its document.                           *)

\* What a change of kind k leaves of another request: all but that it may now be late.
LEMMA OvertakenOK ==
    ASSUME NEW p \in Request, request[p] \in RequestRecord, NEW k
    PROVE  LET now == Overtaken(p, k)
               was == request[p] IN
           /\ now \in RequestRecord
           /\ now.op = was.op /\ now.kind = was.kind /\ now.pc = was.pc /\ now.item = was.item
           /\ now.read = was.read /\ now.snapshot = was.snapshot
           /\ ~now.late => /\ ~was.late
                           /\ was.pc = "read" /\ was.kind = k => ~Checks(was)
                           /\ was.pc = "write" => was.kind # k
                           /\ was.pc \in {"deploy", "put"} => was.snapshot = <<>>
           /\ ~now.stale => ~was.stale /\ (was.pc = "write" => was.kind # k)
<1> DEFINE was == request[p]
           l == was.late \/ (was.pc = "read" /\ was.kind = k /\ Checks(was))
                         \/ (was.pc = "write" /\ was.kind = k)
                         \/ (was.pc \in {"deploy", "put"} /\ was.snapshot # <<>>)
           t == was.stale \/ (was.pc = "write" /\ was.kind = k)
           now == [was EXCEPT !.late = l, !.stale = t]
<1>1. was.late \in BOOLEAN /\ was.stale \in BOOLEAN
  BY DEF RequestRecord
<1>2. l \in BOOLEAN /\ t \in BOOLEAN
  BY <1>1
<1>3. Overtaken(p, k) = now
  BY DEF Overtaken, RequestRecord
<1>4. /\ now \in RequestRecord /\ now.late = l /\ now.stale = t
      /\ now.op = was.op /\ now.kind = was.kind /\ now.pc = was.pc /\ now.item = was.item
      /\ now.read = was.read /\ now.snapshot = was.snapshot
  <2> HIDE DEF l, t
  <2> QED
    BY <1>2 DEF RequestRecord
<1>5. /\ ~l => /\ ~was.late
               /\ was.pc = "read" /\ was.kind = k => ~Checks(was)
               /\ was.pc = "write" => was.kind # k
               /\ was.pc \in {"deploy", "put"} => was.snapshot = <<>>
      /\ ~t => ~was.stale /\ (was.pc = "write" => was.kind # k)
  OBVIOUS
<1> HIDE DEF l, t, now
<1> QED
  BY <1>3, <1>4, <1>5

LEMMA DocumentWritten ==
    ASSUME WorkspaceInv, UNCHANGED <<mode, created, deleted>>,
           NEW q \in Request, request[q].pc \in {"read", "write"},
           NEW base, IsDocument(base), Ids(base) \subseteq Home(request[q].kind),
           ~request[q].late => base = doc[request[q].kind],
           base = doc[request[q].kind] \/ request[q].kind \in clobbered',
           doc' = [doc EXCEPT ![request[q].kind] = Apply(request[q], base)],
           clobbered \subseteq clobbered', mode = "memory" => clobbered' = {},
           raced' = raced \cup (IF request[q].late THEN {request[q].kind} ELSE {}),
           NEW r, RequestOK(r), r.pc \in {"deploy", "put"},
           r.op = request[q].op, r.kind = request[q].kind, r.item = request[q].item,
           \A k \in DOMAIN r.snapshot : r.snapshot[k] = ToDeploy(k, doc'[k]),
           request' = [p \in Request |-> IF p = q THEN r ELSE Overtaken(p, request[q].kind)]
    PROVE  /\ AtHome' /\ (\A p \in Request : RequestInv(p, request[p])') /\ SlugsUnique'
           /\ StaysAway' /\ Unclobbered'
           /\ doc' \in [Kind -> Seq(Item)] /\ (\A k \in Kind : IsDocument(doc'[k]))
           /\ request' \in [Request -> RequestRecord]
           /\ \A p \in created' : p \in Request /\ request'[p].op = "create" /\ request'[p].pc = "done"
<1> DEFINE old == request[q]
           k == old.kind
           new == Apply(old, base)
<1>1. /\ Typed /\ AtHome /\ SlugsUnique /\ StaysAway
      /\ \A p \in Request : RequestInv(p, request[p])
  BY DEF WorkspaceInv
<1>2. doc \in [Kind -> Seq(Item)] /\ \A j \in Kind : IsDocument(doc[j])
  BY <1>1 DEF Typed
<1>3. \A p \in Request : request[p] \in RequestRecord
  BY <1>1 DEF Typed
<1>4. /\ RequestOK(old) /\ HomeOK(q, old) /\ CheckedOK(old)
      /\ k \in Kind /\ old.item \in Item /\ old.op \in {"create", "update", "delete"}
  <2>1. RequestOK(old) /\ HomeOK(q, old) /\ CheckedOK(old)
    BY <1>1 DEF RequestInv
  <2>2. old.op \in {"none", "create", "update", "delete"}
    BY <1>3 DEF RequestRecord
  <2> QED
    BY <2>1, <2>2 DEF RequestOK
<1>5. /\ IsDocument(new)
      /\ Range(new) = {x \in Range(base) : x.id # old.item.id}
                        \cup (IF old.op = "delete" THEN {} ELSE {old.item})
  BY <1>4, ApplyOK
<1>6. doc'[k] = new /\ \A j \in Kind : j # k => doc'[j] = doc[j]
  BY <1>2, <1>4
<1> HIDE DEF new
<1>7. doc' \in [Kind -> Seq(Item)] /\ \A j \in Kind : IsDocument(doc'[j])
  <2>1. new \in Seq(Item)
    BY <1>5 DEF IsDocument
  <2> QED
    BY <1>2, <1>5, <1>6, <2>1 DEF new
<1>8. ASSUME NEW p \in Request, p # q
      PROVE  LET now == request'[p]
                 was == request[p] IN
             /\ now \in RequestRecord
             /\ now.op = was.op /\ now.kind = was.kind /\ now.pc = was.pc /\ now.item = was.item
             /\ now.read = was.read /\ now.snapshot = was.snapshot
             /\ ~now.late => /\ ~was.late
                             /\ was.pc = "read" /\ was.kind = k => ~Checks(was)
                             /\ was.pc = "write" => was.kind # k
                             /\ was.pc \in {"deploy", "put"} => was.snapshot = <<>>
             /\ ~now.stale => ~was.stale /\ (was.pc = "write" => was.kind # k)
  <2>1. request'[p] = Overtaken(p, k)
    BY <1>8
  <2> QED
    BY <1>3, <2>1, OvertakenOK
<1>9. request'[q] = r
  OBVIOUS
<1>10. request' \in [Request -> RequestRecord]
  <2>1. r \in RequestRecord
    BY DEF RequestOK
  <2>2. \A p \in Request : p # q => Overtaken(p, k) \in RequestRecord
    BY <1>3, OvertakenOK
  <2> QED
    BY <2>1, <2>2
<1>11. \A j \in Kind : Home(j) \subseteq Home(j)'
  <2>1. \A p \in Request : Written(request[p]) =>
             /\ Written(request'[p]) /\ request'[p].op = request[p].op
             /\ request'[p].kind = request[p].kind
    BY <1>8 DEF Written
  <2> QED
    BY <2>1, HomeKept
<1>12. old.item.id \in Home(k)'
  <2>1. CASE old.op = "create"
    BY <1>4, <1>9, <2>1 DEF HomeOK, Home, Written
  <2>2. CASE old.op # "create"
    BY <1>4, <1>11, <2>2 DEF HomeOK
  <2> QED
    BY <2>1, <2>2
<1>13. AtHome'
  <2>1. Ids(new) \subseteq Home(k)'
    BY <1>4, <1>5, <1>11, <1>12 DEF Ids
  <2>2. \A j \in Kind : Ids(doc'[j]) \subseteq Home(j)'
    BY <1>1, <1>6, <1>11, <2>1 DEF AtHome
  <2>3. deleted' \subseteq UNION {Home(j)' : j \in Kind}
    BY <1>1, <1>11 DEF AtHome
  <2> QED
    BY <2>2, <2>3 DEF AtHome
<1>14. \A i : Dropped(i) => Dropped(i)'
  <2>1. \A p \in Request : request'[p].op = request[p].op /\ request'[p].item = request[p].item
    BY <1>8, <1>9
  <2> QED
    BY <2>1 DEF Dropped
\* What is deleted and known to the documents stays away.
<1>15. ASSUME NEW i, NEW h \in Kind, i \in Home(h), Gone(i)
       PROVE  Gone(i)'
  <2>1. old.op = "create" => i # old.item.id
    BY <1>4, <1>15, NotYetHome DEF HomeOK, Written
  <2> SUFFICES ASSUME NEW j \in Kind, i \in Ids(doc'[j]) PROVE j \in raced'
    BY DEF Gone, Here
  <2>2. CASE j # k
    BY <1>6, <1>15, <2>2 DEF Gone, Here
  <2>3. CASE j = k /\ old.late
    BY <2>3
  <2>4. CASE j = k /\ ~old.late
    <3>1. base = doc[k]
      BY <2>4
    <3>2. PICK x \in Range(new) : x.id = i
      BY <1>6, <2>4 DEF Ids
    <3>3. i \in Ids(doc[k])
      <4>1. CASE x \in Range(base)
        BY <3>1, <3>2, <4>1 DEF Ids
      <4>2. CASE x \notin Range(base)
        <5>1. x = old.item /\ old.op = "update"
          BY <1>4, <1>5, <2>1, <3>2, <4>2
        <5> QED
          BY <1>4, <2>4, <3>2, <5>1 DEF CheckedOK, Ids
      <4> QED
        BY <4>1, <4>2
    <3> QED
      BY <1>15, <2>4, <3>3 DEF Gone, Here
  <2> QED
    BY <2>2, <2>3, <2>4
<1>16. StaysAway'
  <2>1. \A i \in deleted : \E h \in Kind : i \in Home(h)
    BY <1>1 DEF AtHome
  <2>2. \A i \in deleted : Gone(i)
    BY <1>1 DEF StaysAway
  <2>3. \A i \in deleted : Gone(i)'
    BY <1>15, <2>1, <2>2
  <2> QED
    BY <2>3 DEF StaysAway
<1>17. old.op = "delete" => Gone(old.item.id)'
  <2> SUFFICES ASSUME old.op = "delete", NEW j \in Kind, old.item.id \in Ids(doc'[j]) PROVE j \in raced'
    BY DEF Gone, Here
  <2>1. j # k
    BY <1>5, <1>6 DEF Ids
  <2>2. old.item.id \in Home(j) /\ old.item.id \in Home(k)
    BY <1>1, <1>4, <1>6, <2>1 DEF AtHome, HomeOK
  <2> QED
    BY <1>4, <2>1, <2>2, HomesApart
<1>18. SlugsUnique'
  <2> SUFFICES ASSUME NEW j \in Kind \ {"mocks"}, j \notin raced',
                      NEW x \in Range(doc'[j]), NEW y \in Range(doc'[j]), Slug(x) = Slug(y)
               PROVE  x = y
    BY DEF SlugsUnique
  <2>1. \A u, v \in Range(doc[j]) : Slug(u) = Slug(v) => u = v
    BY <1>1 DEF SlugsUnique
  <2>2. CASE j # k
    BY <1>6, <2>1, <2>2
  <2>3. CASE j = k
    <3>1. ~old.late /\ base = doc[k] /\ k # "mocks"
      BY <2>3
    <3>2. x \in Range(new) /\ y \in Range(new)
      BY <1>6, <2>3
    <3>3. CASE old.op = "delete"
      BY <1>5, <2>1, <2>3, <3>1, <3>2, <3>3
    <3>4. CASE old.op = "create"
      <4>1. \A z \in Range(doc[k]) : Slug(z) # Slug(old.item)
        BY <1>4, <3>1, <3>4 DEF CheckedOK
      <4> QED
        BY <1>5, <2>1, <2>3, <3>1, <3>2, <3>4, <4>1
    <3>5. CASE old.op = "update"
      <4>1. PICK z \in Range(doc[k]) : z.id = old.item.id /\ Slug(z) = Slug(old.item)
        BY <1>4, <3>1, <3>5 DEF CheckedOK, Slug
      <4> QED
        BY <1>5, <2>1, <2>3, <3>1, <3>2, <3>5, <4>1
    <3> QED
      BY <1>4, <3>3, <3>4, <3>5
  <2> QED
    BY <2>2, <2>3
<1>19. ASSUME NEW p \in Request, p # q PROVE RequestInv(p, request[p])'
  <2> DEFINE now == request'[p]
             was == request[p]
  <2>1. RequestInv(p, was)
    BY <1>1
  <2>2. /\ now \in RequestRecord
        /\ now.op = was.op /\ now.kind = was.kind /\ now.pc = was.pc /\ now.item = was.item
        /\ now.read = was.read /\ now.snapshot = was.snapshot
    BY <1>8, <1>19
  <2>3. ~now.late => /\ ~was.late
                     /\ was.pc = "read" /\ was.kind = k => ~Checks(was)
                     /\ was.pc = "write" => was.kind # k
                     /\ was.pc \in {"deploy", "put"} => was.snapshot = <<>>
    BY <1>8, <1>19
  <2>4. ~now.stale => ~was.stale /\ (was.pc = "write" => was.kind # k)
    BY <1>8, <1>19
  <2>5. was.pc # "idle" => was.kind \in Kind
    BY <2>1 DEF RequestInv, RequestOK
  <2>6. was.pc = "idle" => was.op = "none"
    BY <2>1 DEF RequestInv, RequestOK
  <2>7. RequestOK(request[p])'
    BY <2>1, <2>2 DEF RequestInv, RequestOK
  <2>8. HomeOK(p, request[p])'
    BY <1>11, <2>1, <2>2, <2>5, <2>6 DEF RequestInv, HomeOK
  <2>9. LookedOK(request[p])'
    BY <1>6, <2>1, <2>2, <2>3, <2>4, <2>5 DEF RequestInv, LookedOK
  <2>10. CheckedOK(request[p])'
    <3> SUFFICES ASSUME was.pc \in {"read", "write"}, ~now.late
                 PROVE  CheckedOK(request[p])'
      BY <2>2 DEF CheckedOK
    <3>1. CASE was.kind = k
      BY <2>2, <2>3, <3>1 DEF CheckedOK, Checks
    <3>2. CASE was.kind # k
      <4>1. doc'[was.kind] = doc[was.kind] /\ CheckedOK(was) /\ ~was.late
        BY <1>6, <2>1, <2>3, <2>5, <3>2 DEF RequestInv
      <4> HIDE DEF was, now
      <4>2. /\ was.op = "create" /\ was.kind # "mocks" =>
                  \A x \in Range(doc'[was.kind]) : Slug(x) # Slug(was.item)
            /\ was.op = "update" =>
                  \E x \in Range(doc'[was.kind]) :
                      x.id = was.item.id /\ (was.kind # "mocks" => x.name = was.item.name)
        BY <4>1 DEF CheckedOK
      <4> QED
        BY <2>2, <4>2 DEF CheckedOK, now
    <3> QED
      BY <3>1, <3>2
  <2>11. GatheredOK(request[p])'
    BY <2>2, <2>3 DEF GatheredOK
  <2>12. StandsOK(p, request[p])'
    <3> SUFFICES ASSUME was.op = "create", was.pc \in {"deploy", "put"} \/ p \in created
                 PROVE  Dropped(p)' \/ p \in Ids(doc'[was.kind]) \/ was.kind \in clobbered'
      BY <2>2 DEF StandsOK, Here
    <3>1. Dropped(p) \/ Here(was.kind, p) \/ was.kind \in clobbered
      BY <2>1 DEF RequestInv, StandsOK
    <3>2. CASE Dropped(p) \/ was.kind \in clobbered
      BY <1>14, <3>2
    <3>3. CASE Here(was.kind, p) /\ was.kind # k
      BY <1>6, <2>5, <2>6, <3>3 DEF Here
    <3>4. CASE Here(was.kind, p) /\ was.kind = k /\ base = doc[k]
      <4>1. PICK x \in Range(base) : x.id = p
        BY <3>4 DEF Here, Ids
      <4>2. CASE old.item.id # p
        BY <1>5, <1>6, <3>4, <4>1, <4>2 DEF Here, Ids
      <4>3. CASE old.item.id = p /\ old.op = "delete"
        BY <1>9, <4>3 DEF Dropped
      <4>4. CASE old.item.id = p /\ old.op # "delete"
        BY <1>5, <1>6, <3>4, <4>4 DEF Here, Ids
      <4> QED
        BY <4>2, <4>3, <4>4
    <3> QED
      BY <3>1, <3>2, <3>3, <3>4
  <2>13. AwayOK(request[p])'
    <3> SUFFICES ASSUME was.op = "delete", was.pc \in {"deploy", "put"}
                 PROVE  \A j \in Kind : was.item.id \in Ids(doc'[j]) => j \in raced'
      BY <2>2 DEF AwayOK, Gone, Here
    <3>1. Gone(was.item.id) /\ was.item.id \in Home(was.kind) /\ was.kind \in Kind
      BY <2>1, <2>5 DEF RequestInv, AwayOK, HomeOK
    <3> QED
      BY <1>15, <3>1 DEF Gone, Here
  <2> QED
    BY <2>7, <2>8, <2>9, <2>10, <2>11, <2>12, <2>13 DEF RequestInv
<1>20. RequestInv(q, request[q])'
  <2>1. RequestOK(request[q])'
    BY <1>9 DEF RequestOK
  <2>2. HomeOK(q, request[q])'
    BY <1>4, <1>9, <1>12 DEF HomeOK
  <2>3. LookedOK(request[q])' /\ CheckedOK(request[q])'
    BY <1>9 DEF LookedOK, CheckedOK
  <2>4. GatheredOK(request[q])'
    BY <1>9 DEF GatheredOK
  <2>5. StandsOK(q, request[q])'
    BY <1>4, <1>5, <1>6, <1>9 DEF StandsOK, HomeOK, Here, Ids
  <2>6. AwayOK(request[q])'
    <3> SUFFICES ASSUME old.op = "delete" PROVE Gone(old.item.id)'
      BY <1>9 DEF AwayOK, Gone, Here
    <3> QED
      BY <1>17
  <2> QED
    BY <2>1, <2>2, <2>3, <2>4, <2>5, <2>6 DEF RequestInv
<1>21. Unclobbered'
  BY DEF Unclobbered
<1>22. ASSUME NEW p \in created'
       PROVE  p \in Request /\ request'[p].op = "create" /\ request'[p].pc = "done"
  <2>1. p \in created /\ p \in Request /\ request[p].op = "create" /\ request[p].pc = "done"
    BY <1>1 DEF Typed
  <2>2. p # q
    BY <2>1
  <2> QED
    BY <1>8, <2>1, <2>2
<1> QED
  BY <1>7, <1>10, <1>13, <1>16, <1>18, <1>19, <1>20, <1>21, <1>22

-----------------------------------------------------------------------------
(* The actions.                                                            *)

\* A step that leaves documents, deployment and history alone, and is not the end of a
\* deployment.
LEMMA OnItsWay ==
    ASSUME WorkspaceInv, UNCHANGED <<mode, doc, deployment, history, errors>>,
           NEW q \in Request, NEW r, Becomes(q, r),
           request[q].pc # "idle" =>
             r.op = request[q].op /\ r.kind = request[q].kind /\ r.item = request[q].item,
           Written(request[q]) => Written(r),
           request[q].pc \in {"deploy", "put"} => r.pc \in {"deploy", "put"},
           RequestOK(r), HomeOK(q, r), LookedOK(r), CheckedOK(r), GatheredOK(r), AwayOK(r),
           r.op = "create" /\ r.pc \in {"deploy", "put"} => request[q].pc \in {"deploy", "put"}
    PROVE  WorkspaceInv'
<1>1. request \in [Request -> RequestRecord] /\ r \in RequestRecord
  BY DEF WorkspaceInv, Typed, RequestOK
<1>2. request'[q] = r /\ \A p \in Request \ {q} : request'[p] = request[p]
  BY <1>1 DEF Becomes
<1>3. \A p \in Request \ {q} : Untouched(p)
  BY <1>1, <1>2 DEF Untouched
<1>4. created' = created /\ deleted' = deleted
  BY DEF history
<1>5. /\ AtHome' /\ (\A p \in Request : RequestInv(p, request[p])') /\ SlugsUnique'
      /\ StaysAway' /\ Unclobbered'
      /\ \A p \in created' : p \in Request /\ request'[p].op = "create" /\ request'[p].pc = "done"
  BY <1>1, <1>2, <1>3, <1>4, OneRequest DEF history
<1>6. request' \in [Request -> RequestRecord]
  BY <1>1 DEF Becomes
<1>7. Typed'
  BY <1>5, <1>6 DEF WorkspaceInv, Typed, history
<1>8. Deploys'
  <2>1. Deploys
    BY DEF WorkspaceInv
  <2>2. \A p \in Request : request[p].pc \in {"deploy", "put"} => request'[p].pc \in {"deploy", "put"}
    BY <1>2
  <2> QED
    BY <2>1, <2>2 DEF Deploys, Deployed, history
<1> QED
  BY <1>5, <1>7, <1>8 DEF WorkspaceInv

\* A request that begins.
LEMMA BeginStep ==
    ASSUME WorkspaceInv, NEW q \in Request, NEW k \in Kind,
           \/ \E n \in Names[k] : Create(q, k, n)
           \/ \E x \in Range(doc[k]) : Delete(q, k, x) \/ \E n \in Names[k] : Update(q, k, x, n)
    PROVE  WorkspaceInv'
<1>1. doc[k] \in Seq(Item) /\ Ids(doc[k]) \subseteq Home(k) /\ Range(doc[k]) \subseteq Item
  <2>1. doc[k] \in Seq(Item)
    BY DEF WorkspaceInv, Typed
  <2> QED
    BY <2>1 DEF WorkspaceInv, AtHome, Range
\* A request at its beginning needs only what it checked.
<1>2. ASSUME At(q, "idle"), NEW op \in {"create", "update", "delete"}, NEW x \in Item,
             UNCHANGED <<mode, doc, deployment, history, errors>>,
             Becomes(q, [NoRequest EXCEPT !.op = op, !.kind = k, !.pc = "read", !.item = x]),
             op = "create" => x.id = q, op # "create" => x.id \in Home(k),
             op = "create" /\ k # "mocks" => \A y \in Range(doc[k]) : Slug(y) # Slug(x),
             op = "update" => \E y \in Range(doc[k]) : y.id = x.id /\ (k # "mocks" => y.name = x.name)
      PROVE  WorkspaceInv'
  <2> DEFINE r == [NoRequest EXCEPT !.op = op, !.kind = k, !.pc = "read", !.item = x]
  <2>1. /\ r \in RequestRecord /\ r.op = op /\ r.kind = k /\ r.pc = "read" /\ r.item = x
        /\ r.snapshot = <<>>
    <3>1. <<>> \in Seq(Item) /\ <<>> \in Snapshot
      BY DEF Snapshot
    <3> DEFINE f == [NoRequest EXCEPT !.op = op, !.kind = k]
    <3>2. f \in RequestRecord /\ f.op = op /\ f.kind = k /\ f.snapshot = <<>>
      BY <3>1 DEF NoRequest, RequestRecord
    <3>3. r = [f EXCEPT !.pc = "read", !.item = x]
      OBVIOUS
    <3> HIDE DEF r, f
    <3> QED
      BY <3>2, <3>3 DEF RequestRecord
  <2>2. Becomes(q, r) /\ request[q].pc = "idle"
    BY <1>2 DEF At
  <2> HIDE DEF r
  <2>3. RequestOK(r)
    BY <2>1 DEF RequestOK
  <2>4. HomeOK(q, r) /\ LookedOK(r) /\ GatheredOK(r) /\ AwayOK(r)
    BY <1>2, <2>1 DEF HomeOK, LookedOK, GatheredOK, AwayOK
  <2>5. CheckedOK(r)
    BY <1>2, <2>1 DEF CheckedOK
  <2>6. ~Written(request[q])
    BY <2>2 DEF Written
  <2> QED
    BY <1>2, <2>1, <2>2, <2>3, <2>4, <2>5, <2>6, OnItsWay
<1>3. ASSUME NEW n \in Names[k], Create(q, k, n) PROVE WorkspaceInv'
  <2> DEFINE x == [id |-> q, name |-> n, on |-> TRUE, file |-> FALSE]
  <2>1. x \in Item /\ x.id = q /\ Slug(x) = Lower[n]
    BY DEF Item, Slug
  <2>2. k # "mocks" => \A y \in Range(doc[k]) : Slug(y) # Slug(x)
    BY <1>3, <2>1 DEF Create
  <2> QED
    BY <1>2, <1>3, <2>1, <2>2 DEF Create
<1>4. ASSUME NEW x \in Range(doc[k]), Delete(q, k, x) PROVE WorkspaceInv'
  <2>1. x \in Item /\ x.id \in Home(k)
    BY <1>1 DEF Ids
  <2> QED
    BY <1>2, <1>4, <2>1 DEF Delete
<1>5. ASSUME NEW x \in Range(doc[k]), NEW n \in Names[k], Update(q, k, x, n) PROVE WorkspaceInv'
  <2> DEFINE y == [x EXCEPT !.name = n, !.on = ~x.on]
  <2>1. x \in Item /\ x.id \in Home(k)
    BY <1>1 DEF Ids
  <2>2. y \in Item /\ y.id = x.id /\ y.name = n
    BY <2>1 DEF Item
  <2>3. \E z \in Range(doc[k]) : z.id = y.id /\ (k # "mocks" => z.name = y.name)
    BY <1>5, <2>2 DEF Update
  <2> QED
    BY <1>2, <1>5, <2>1, <2>2, <2>3 DEF Update
<1> QED
  BY <1>3, <1>4, <1>5

\* The end of a request that the inductive invariant says nothing more about.
LEMMA EndOK ==
    ASSUME NEW r, r \in RequestRecord
    PROVE  /\ End(r) \in RequestRecord /\ End(r).pc = "done" /\ End(r).snapshot = <<>>
           /\ End(r).op = r.op /\ End(r).kind = r.kind /\ End(r).item = r.item
<1>1. <<>> \in Seq(Item) /\ <<>> \in Snapshot
  BY DEF Snapshot
<1>2. End(r) \in RequestRecord
  BY <1>1, Zenon DEF End, RequestRecord
<1>3. /\ End(r).pc = "done" /\ End(r).snapshot = <<>>
      /\ End(r).op = r.op /\ End(r).kind = r.kind /\ End(r).item = r.item
  BY DEF End, RequestRecord
<1> QED
  BY <1>2, <1>3

LEMMA EndInv ==
    ASSUME NEW q, NEW r, RequestOK(r), HomeOK(q, r), r.pc # "idle"
    PROVE  /\ RequestOK(End(r)) /\ HomeOK(q, End(r)) /\ LookedOK(End(r)) /\ CheckedOK(End(r))
           /\ GatheredOK(End(r)) /\ AwayOK(End(r))
  BY EndOK DEF RequestOK, HomeOK, LookedOK, CheckedOK, GatheredOK, AwayOK

LEMMA ReadStep ==
    ASSUME WorkspaceInv, NEW q \in Request, Read(q)
    PROVE  WorkspaceInv'
<1> DEFINE old == request[q]
<1>1. /\ old \in RequestRecord /\ RequestOK(old) /\ HomeOK(q, old) /\ CheckedOK(old)
      /\ old.pc = "read" /\ mode = "redis" /\ old.kind \in Kind /\ old.snapshot = <<>>
  BY DEF WorkspaceInv, RequestInv, RequestOK, Read, At
<1>2. /\ IsDocument(doc[old.kind]) /\ doc[old.kind] \in Seq(Item)
      /\ Ids(doc[old.kind]) \subseteq Home(old.kind)
  BY <1>1 DEF WorkspaceInv, Typed, AtHome
<1>3. UNCHANGED <<mode, doc, deployment, history, errors>> /\ ~Written(old)
  BY <1>1 DEF Read, Written
<1>4. CASE ~Refused(old, doc[old.kind])
  <2> DEFINE r == [old EXCEPT !.pc = "write", !.read = doc[old.kind]]
  <2>1. Becomes(q, r)
    BY <1>4 DEF Read
  <2>2. /\ r \in RequestRecord /\ r.pc = "write" /\ r.read = doc[old.kind]
        /\ r.op = old.op /\ r.kind = old.kind /\ r.item = old.item /\ r.snapshot = old.snapshot
        /\ r.late = old.late
    BY <1>1, <1>2 DEF RequestRecord
  <2> HIDE DEF r
  <2>3. RequestOK(r)
    BY <1>1, <1>2, <2>2 DEF RequestOK
  <2>4. HomeOK(q, r) /\ LookedOK(r) /\ GatheredOK(r) /\ AwayOK(r)
    BY <1>1, <1>2, <2>2 DEF HomeOK, LookedOK, GatheredOK, AwayOK
  <2>5. CheckedOK(r)
    <3> HIDE DEF old
    <3> QED
      BY <1>1, <2>2 DEF CheckedOK
  <2> QED
    BY <1>1, <1>3, <2>1, <2>2, <2>3, <2>4, <2>5, OnItsWay
<1>5. CASE Refused(old, doc[old.kind]) /\ old.kind = "mocks"
  <2> DEFINE r == [old EXCEPT !.pc = "deploy"]
  <2>1. Becomes(q, r)
    BY <1>5 DEF Read
  <2>2. /\ r \in RequestRecord /\ r.pc = "deploy"
        /\ r.op = "delete" /\ old.op = "delete"
        /\ r.kind = old.kind /\ r.item = old.item /\ r.snapshot = <<>>
    BY <1>1, <1>5 DEF RequestRecord, Refused
  <2> HIDE DEF r
  <2>3. RequestOK(r)
    BY <1>1, <2>2 DEF RequestOK
  <2>4. HomeOK(q, r) /\ LookedOK(r) /\ CheckedOK(r) /\ GatheredOK(r)
    BY <1>1, <2>2 DEF HomeOK, LookedOK, CheckedOK, GatheredOK
  <2>5. AwayOK(r)
    <3> SUFFICES ASSUME NEW j \in Kind, r.item.id \in Ids(doc[j]) PROVE FALSE
      BY DEF AwayOK, Gone, Here
    <3>1. r.item.id \in Home(j) /\ r.item.id \in Home(old.kind)
      BY <1>1, <2>2 DEF HomeOK, WorkspaceInv, AtHome
    <3>2. j = old.kind
      BY <1>1, <3>1, HomesApart
    <3> QED
      BY <1>5, <2>2, <3>2 DEF Refused
  <2> QED
    BY <1>1, <1>3, <2>1, <2>2, <2>3, <2>4, <2>5, OnItsWay
<1>6. CASE Refused(old, doc[old.kind]) /\ old.kind # "mocks"
  <2>1. Becomes(q, End(old))
    BY <1>6 DEF Read
  <2>2. /\ RequestOK(End(old)) /\ HomeOK(q, End(old)) /\ LookedOK(End(old)) /\ CheckedOK(End(old))
        /\ GatheredOK(End(old)) /\ AwayOK(End(old))
    BY <1>1, EndInv
  <2>3. /\ End(old).pc = "done" /\ End(old).op = old.op /\ End(old).kind = old.kind
        /\ End(old).item = old.item
    BY <1>1, EndOK
  <2> QED
    BY <1>1, <1>3, <2>1, <2>2, <2>3, OnItsWay
<1> QED
  BY <1>4, <1>5, <1>6

\* A write of Redis: what was read, changed, is the document.
LEMMA WriteStep ==
    ASSUME WorkspaceInv, NEW q \in Request, Write(q)
    PROVE  WorkspaceInv'
<1> DEFINE old == request[q]
           r == [old EXCEPT !.pc = "deploy", !.read = <<>>, !.late = FALSE, !.stale = FALSE]
<1>1. /\ old \in RequestRecord /\ RequestOK(old) /\ HomeOK(q, old) /\ LookedOK(old)
      /\ old.pc = "write" /\ mode = "redis" /\ old.kind \in Kind /\ old.snapshot = <<>>
      /\ IsDocument(old.read) /\ Ids(old.read) \subseteq Home(old.kind)
      /\ old.op # "none" /\ old.item \in Item
  BY DEF WorkspaceInv, RequestInv, RequestOK, HomeOK, Write, At
<1>2. UNCHANGED <<mode, deployment, undeployed, created, deleted, errors>>
  BY DEF Write
<1>3. /\ doc' = [doc EXCEPT ![old.kind] = Apply(old, old.read)]
      /\ request' = [p \in Request |-> IF p = q THEN r ELSE Overtaken(p, old.kind)]
      /\ clobbered' = clobbered \cup (IF old.stale THEN {old.kind} ELSE {})
      /\ raced' = raced \cup (IF old.late THEN {old.kind} ELSE {})
  BY DEF Write, Others
<1>4. /\ r \in RequestRecord
      /\ r.pc = "deploy" /\ r.op = old.op /\ r.kind = old.kind /\ r.item = old.item
      /\ r.snapshot = <<>>
  <2>1. <<>> \in Seq(Item)
    OBVIOUS
  <2>2. r \in RequestRecord
    BY <1>1, <2>1, Zenon DEF RequestRecord
  <2>3. /\ r.pc = "deploy" /\ r.op = old.op /\ r.kind = old.kind /\ r.item = old.item
        /\ r.snapshot = <<>>
    BY <1>1 DEF RequestRecord
  <2> QED
    BY <2>2, <2>3
<1> HIDE DEF r
<1>5. RequestOK(r)
  BY <1>1, <1>4 DEF RequestOK
<1>6. /\ ~old.late => old.read = doc[old.kind]
      /\ old.read = doc[old.kind] \/ old.kind \in clobbered'
  BY <1>1, <1>3 DEF LookedOK
<1>7. /\ clobbered \subseteq clobbered' /\ (mode = "memory" => clobbered' = {})
      /\ \A k \in DOMAIN r.snapshot : r.snapshot[k] = ToDeploy(k, doc'[k])
  BY <1>1, <1>3, <1>4
<1>8. /\ AtHome' /\ (\A p \in Request : RequestInv(p, request[p])') /\ SlugsUnique'
      /\ StaysAway' /\ Unclobbered'
      /\ doc' \in [Kind -> Seq(Item)] /\ (\A k \in Kind : IsDocument(doc'[k]))
      /\ request' \in [Request -> RequestRecord]
      /\ \A p \in created' : p \in Request /\ request'[p].op = "create" /\ request'[p].pc = "done"
  BY <1>1, <1>2, <1>3, <1>4, <1>5, <1>6, <1>7, DocumentWritten
<1>9. Typed'
  <2>1. clobbered' \subseteq Kind /\ raced' \subseteq Kind
    BY <1>1, <1>3 DEF WorkspaceInv, Typed
  <2> QED
    BY <1>2, <1>8, <2>1 DEF WorkspaceInv, Typed
<1>10. Deploys'
  BY <1>3, <1>4 DEF Deploys
<1> QED
  BY <1>8, <1>9, <1>10 DEF WorkspaceInv

\* A change without Redis: document and snapshot are one step.
LEMMA SaveInMemoryStep ==
    ASSUME WorkspaceInv, NEW q \in Request, SaveInMemory(q)
    PROVE  WorkspaceInv'
<1> DEFINE old == request[q]
           new == [doc EXCEPT ![old.kind] = Apply(old, doc[old.kind])]
           snapshot == [k \in Kind |-> ToDeploy(k, new[k])]
           refused == Refused(old, doc[old.kind]) /\ old.kind # "mocks"
           r == [old EXCEPT !.pc = "put", !.late = FALSE, !.snapshot = snapshot]
<1>1. /\ old \in RequestRecord /\ RequestOK(old) /\ HomeOK(q, old) /\ CheckedOK(old)
      /\ old.pc = "read" /\ mode = "memory" /\ old.kind \in Kind /\ old.snapshot = <<>>
      /\ old.op # "none" /\ old.item \in Item
  BY DEF WorkspaceInv, RequestInv, RequestOK, SaveInMemory, At
<1>2. UNCHANGED <<mode, deployment, clobbered, undeployed, created, deleted, errors>>
  BY DEF SaveInMemory
<1>3. /\ doc \in [Kind -> Seq(Item)] /\ IsDocument(doc[old.kind])
      /\ Ids(doc[old.kind]) \subseteq Home(old.kind)
  BY <1>1 DEF WorkspaceInv, Typed, AtHome
<1>4. CASE refused
  <2>1. doc' = doc /\ Becomes(q, End(old)) /\ raced' = raced
    BY <1>1, <1>4 DEF SaveInMemory, WorkspaceInv, Typed
  <2>2. /\ RequestOK(End(old)) /\ HomeOK(q, End(old)) /\ LookedOK(End(old)) /\ CheckedOK(End(old))
        /\ GatheredOK(End(old)) /\ AwayOK(End(old))
    BY <1>1, EndInv
  <2>3. /\ End(old).pc = "done" /\ End(old).op = old.op /\ End(old).kind = old.kind
        /\ End(old).item = old.item /\ ~Written(old)
    BY <1>1, EndOK DEF Written
  <2> QED
    BY <1>1, <1>2, <2>1, <2>2, <2>3, OnItsWay DEF history
<1>5. CASE ~refused
  <2>1. /\ doc' = new
        /\ request' = [p \in Request |-> IF p = q THEN r ELSE Overtaken(p, old.kind)]
        /\ raced' = raced \cup (IF old.late THEN {old.kind} ELSE {})
    BY <1>5 DEF SaveInMemory, Others
  <2>2. new \in [Kind -> Seq(Item)]
    <3>1. Apply(old, doc[old.kind]) \in Seq(Item)
      BY <1>1, <1>3, ApplyOK DEF IsDocument
    <3> QED
      BY <1>3, <3>1
  <2> HIDE DEF new
  <2>3. snapshot \in [Kind -> Seq(Item)]
    BY <2>2, ToDeployOK
  <2>4. \A k \in DOMAIN snapshot : snapshot[k] = ToDeploy(k, doc'[k])
    BY <2>1
  <2> HIDE DEF snapshot
  <2>5. /\ r \in RequestRecord
        /\ r.pc = "put" /\ r.op = old.op /\ r.kind = old.kind /\ r.item = old.item
        /\ r.snapshot = snapshot
    <3>1. snapshot \in Snapshot
      BY <2>3 DEF Snapshot
    <3>2. r \in RequestRecord
      BY <1>1, <3>1, Zenon DEF RequestRecord
    <3>3. /\ r.pc = "put" /\ r.op = old.op /\ r.kind = old.kind /\ r.item = old.item
          /\ r.snapshot = snapshot
      BY <1>1 DEF RequestRecord
    <3> QED
      BY <3>2, <3>3
  <2> HIDE DEF r
  <2>6. RequestOK(r)
    BY <1>1, <2>3, <2>5 DEF RequestOK
  <2>7. /\ clobbered \subseteq clobbered' /\ (mode = "memory" => clobbered' = {})
        /\ \A k \in DOMAIN r.snapshot : r.snapshot[k] = ToDeploy(k, doc'[k])
    BY <1>2, <2>4, <2>5 DEF WorkspaceInv, Unclobbered
  <2>8. doc' = [doc EXCEPT ![old.kind] = Apply(old, doc[old.kind])]
    BY <2>1 DEF new
  <2>9. /\ AtHome' /\ (\A p \in Request : RequestInv(p, request[p])') /\ SlugsUnique'
        /\ StaysAway' /\ Unclobbered'
        /\ doc' \in [Kind -> Seq(Item)] /\ (\A k \in Kind : IsDocument(doc'[k]))
        /\ request' \in [Request -> RequestRecord]
        /\ \A p \in created' : p \in Request /\ request'[p].op = "create" /\ request'[p].pc = "done"
    <3> DEFINE base == doc[old.kind]
    <3>1. IsDocument(base) /\ Ids(base) \subseteq Home(old.kind) /\ doc' = [doc EXCEPT ![old.kind] = Apply(old, base)]
      BY <1>3, <2>8
    <3>2. base = doc[old.kind]
      OBVIOUS
    <3> HIDE DEF base
    <3> QED
      BY <1>1, <1>2, <2>1, <2>5, <2>6, <2>7, <3>1, <3>2, DocumentWritten
  <2>10. Typed'
    <3>1. raced' \subseteq Kind
      BY <1>1, <2>1 DEF WorkspaceInv, Typed
    <3> QED
      BY <1>2, <2>9, <3>1 DEF WorkspaceInv, Typed
  <2>11. Deploys'
    BY <2>1, <2>5 DEF Deploys
  <2> QED
    BY <2>9, <2>10, <2>11 DEF WorkspaceInv
<1> QED
  BY <1>4, <1>5

\* The document that is gathered next, by how many have been.
LEMMA NextGathered ==
    /\ Cardinality({}) = 0 /\ Cardinality({"mocks"}) = 1 /\ Cardinality({"mocks", "hosts"}) = 2
    /\ DeployOrder[1] = "mocks" /\ DeployOrder[2] = "hosts" /\ DeployOrder[3] = "callbacks"
<1>1. Cardinality({}) = 0 /\ Cardinality({"mocks"}) = 1 /\ IsFiniteSet({"mocks"})
  BY FS_EmptySet, FS_Singleton
<1>2. {"mocks", "hosts"} = {"mocks"} \cup {"hosts"} /\ "hosts" \notin {"mocks"}
  OBVIOUS
<1>3. Cardinality({"mocks", "hosts"}) = 2
  BY <1>1, <1>2, FS_AddElement
<1>4. DeployOrder[1] = "mocks" /\ DeployOrder[2] = "hosts" /\ DeployOrder[3] = "callbacks"
  BY DEF DeployOrder
<1> QED
  BY <1>1, <1>3, <1>4

LEMMA GatherStep ==
    ASSUME WorkspaceInv, NEW q \in Request, Gather(q)
    PROVE  WorkspaceInv'
<1> DEFINE old == request[q]
           done == IF old.snapshot = <<>> THEN {} ELSE DOMAIN old.snapshot
           k == DeployOrder[Cardinality(done) + 1]
           snapshot == [j \in done \cup {k} |-> IF j = k THEN ToDeploy(k, doc[k]) ELSE old.snapshot[j]]
           r == [old EXCEPT !.snapshot = snapshot, !.pc = IF DOMAIN snapshot = Kind THEN "put" ELSE "deploy"]
<1>1. /\ old \in RequestRecord /\ RequestOK(old) /\ HomeOK(q, old) /\ AwayOK(old) /\ GatheredOK(old)
      /\ old.pc = "deploy" /\ old.kind \in Kind /\ old.op # "none" /\ old.item \in Item
  BY DEF WorkspaceInv, RequestInv, RequestOK, Gather, At
<1>2. UNCHANGED <<mode, doc, deployment, history, errors>> /\ Becomes(q, r)
  BY DEF Gather
<1>3. old.snapshot \in Snapshot /\ (old.snapshot = <<>> \/ DOMAIN old.snapshot \in Gathering)
  BY <1>1 DEF RequestOK, RequestRecord
<1>4. \/ done = {} /\ k = "mocks"
      \/ done = {"mocks"} /\ k = "hosts"
      \/ done = {"mocks", "hosts"} /\ k = "callbacks"
  <2>1. done = {} \/ done = {"mocks"} \/ done = {"mocks", "hosts"}
    BY <1>3 DEF Gathering
  <2> HIDE DEF done
  <2> QED
    BY <2>1, NextGathered
<1>5. \A j \in done : old.snapshot[j] \in Seq(Item)
  BY <1>3, WorkspaceAssumption DEF Snapshot
<1>6. k \in Kind
  BY <1>4, WorkspaceAssumption
<1>7. ToDeploy(k, doc[k]) \in Seq(Item)
  <2> HIDE DEF k
  <2>1. doc[k] \in Seq(Item)
    BY <1>6 DEF WorkspaceInv, Typed
  <2> QED
    BY <2>1, ToDeployOK
<1>8. done # {} => old.snapshot # <<>> /\ done = DOMAIN old.snapshot
  OBVIOUS
<1> HIDE DEF done, k
<1>9. snapshot \in [done \cup {k} -> Seq(Item)]
  BY <1>5, <1>7
<1>10. \/ done \cup {k} = {"mocks"} \/ done \cup {k} = {"mocks", "hosts"}
       \/ done \cup {k} = Kind
  BY <1>4, WorkspaceAssumption
<1>11. snapshot \in Snapshot
  BY <1>9, <1>10 DEF Snapshot
<1>12. ~old.late => \A j \in DOMAIN snapshot : snapshot[j] = ToDeploy(j, doc[j])
  <2> SUFFICES ASSUME ~old.late, NEW j \in done \cup {k} PROVE snapshot[j] = ToDeploy(j, doc[j])
    OBVIOUS
  <2>1. CASE j = k
    BY <2>1
  <2>2. CASE j # k
    <3>1. j \in DOMAIN old.snapshot
      BY <1>8, <2>2
    <3> QED
      BY <1>1, <2>2, <3>1 DEF GatheredOK
  <2> QED
    BY <2>1, <2>2
<1>13. /\ DOMAIN snapshot = Kind \/ DOMAIN snapshot \in Gathering
       /\ DOMAIN snapshot = Kind => snapshot \in [Kind -> Seq(Item)]
  BY <1>9, <1>10 DEF Gathering
<1> HIDE DEF snapshot
<1>14. /\ r \in RequestRecord /\ r.snapshot = snapshot /\ r.op = old.op /\ r.kind = old.kind
       /\ r.item = old.item /\ r.late = old.late
       /\ r.pc = IF DOMAIN snapshot = Kind THEN "put" ELSE "deploy"
  <2> DEFINE pc == IF DOMAIN snapshot = Kind THEN "put" ELSE "deploy"
  <2>1. pc \in {"put", "deploy"}
    OBVIOUS
  <2>2. r = [old EXCEPT !.snapshot = snapshot, !.pc = pc]
    OBVIOUS
  <2> HIDE DEF r, pc
  <2>3. r \in RequestRecord /\ r.snapshot = snapshot /\ r.op = old.op /\ r.kind = old.kind
        /\ r.item = old.item /\ r.late = old.late /\ r.pc = pc
    BY <1>1, <1>11, <2>1, <2>2 DEF RequestRecord
  <2> QED
    BY <2>3 DEF pc
<1> HIDE DEF r
<1>15. RequestOK(r)
  BY <1>1, <1>13, <1>14 DEF RequestOK
<1>16. HomeOK(q, r) /\ LookedOK(r) /\ CheckedOK(r) /\ GatheredOK(r) /\ AwayOK(r)
  BY <1>1, <1>12, <1>14 DEF HomeOK, LookedOK, CheckedOK, GatheredOK, AwayOK
<1>17. r.pc \in {"deploy", "put"} /\ Written(r)
  BY <1>14 DEF Written
<1> QED
  BY <1>1, <1>2, <1>14, <1>15, <1>16, <1>17, OnItsWay

\* Steps that end a request: answered, or not.
LEMMA EndStep ==
    ASSUME WorkspaceInv, NEW q \in Request, Put(q) \/ DeployFails(q) \/ Fails(q)
    PROVE  WorkspaceInv'
<1> DEFINE old == request[q]
<1>1. old.pc \notin {"idle", "done"}
  BY DEF Put, DeployFails, Fails, At
<1>2. /\ old \in RequestRecord /\ RequestOK(old) /\ HomeOK(q, old) /\ GatheredOK(old)
      /\ old.kind \in Kind /\ old.op # "none"
  BY <1>1 DEF WorkspaceInv, RequestInv, RequestOK
<1>3. /\ RequestOK(End(old)) /\ HomeOK(q, End(old)) /\ LookedOK(End(old)) /\ CheckedOK(End(old))
      /\ GatheredOK(End(old)) /\ AwayOK(End(old))
  BY <1>1, <1>2, EndInv
<1>4. /\ End(old) \in RequestRecord
      /\ End(old).pc = "done" /\ End(old).op = old.op /\ End(old).kind = old.kind
      /\ End(old).item = old.item /\ Written(End(old))
  BY <1>2, EndOK DEF Written
<1>5. UNCHANGED <<mode, doc, clobbered, raced>>
  BY DEF Put, DeployFails, Fails
<1>6. request \in [Request -> RequestRecord]
  BY DEF WorkspaceInv, Typed
<1>7. request'[q] = End(old) /\ request' \in [Request -> RequestRecord]
      /\ \A p \in Request \ {q} : Untouched(p)
  <2>1. CASE Put(q)
    <3>1. request' = [p \in Request |-> IF p = q THEN End(old) ELSE Overtaken(p, "none")]
      BY <2>1 DEF Put, Others
    <3>2. \A p \in Request \ {q} : Overtaken(p, "none") \in RequestRecord
      BY <1>6, OvertakenOK
    <3>3. request' \in [Request -> RequestRecord]
      BY <1>4, <3>1, <3>2
    <3>4. ASSUME NEW p \in Request \ {q} PROVE Untouched(p)
      <4>1. request'[p] = Overtaken(p, "none") /\ request[p] \in RequestRecord
        BY <1>6, <3>1
      <4>2. request[p].late \in BOOLEAN /\ request[p].stale \in BOOLEAN
        BY <4>1 DEF RequestRecord
      <4> QED
        BY <4>1, <4>2, OvertakenOK DEF Untouched
    <3> QED
      BY <3>1, <3>3, <3>4
  <2>2. CASE DeployFails(q) \/ Fails(q)
    <3>1. request' = [request EXCEPT ![q] = End(old)]
      BY <2>2 DEF DeployFails, Fails, Becomes
    <3> QED
      BY <1>4, <1>6, <3>1 DEF Untouched
  <2> QED
    BY <2>1, <2>2
<1>8. /\ created' = created \/ ( /\ created' = created \cup {q} /\ old.op = "create"
                                 /\ old.pc \in {"deploy", "put"} )
      /\ deleted' = deleted \/ ( /\ deleted' = deleted \cup {old.item.id} /\ old.op = "delete"
                                 /\ old.pc \in {"deploy", "put"} )
  <2>1. CASE Put(q) \/ DeployFails(q)
    BY <2>1 DEF Put, DeployFails, Answered, At
  <2>2. CASE Fails(q)
    BY <2>2 DEF Fails
  <2> QED
    BY <2>1, <2>2
<1>9. /\ AtHome' /\ (\A p \in Request : RequestInv(p, request[p])') /\ SlugsUnique'
      /\ StaysAway' /\ Unclobbered'
      /\ \A p \in created' : p \in Request /\ request'[p].op = "create" /\ request'[p].pc = "done"
  <2> DEFINE r == End(old)
  <2>1. /\ r \in RequestRecord /\ request'[q] = r /\ r.pc = "done" /\ Written(r)
        /\ r.op = old.op /\ r.kind = old.kind /\ r.item = old.item
        /\ RequestOK(r) /\ HomeOK(q, r) /\ LookedOK(r) /\ CheckedOK(r)
        /\ GatheredOK(r) /\ AwayOK(r)
    BY <1>3, <1>4, <1>7
  <2> HIDE DEF r
  <2>2. /\ created' = created \/ ( /\ created' = created \cup {q} /\ r.op = "create" /\ r.pc = "done"
                                   /\ request[q].pc \in {"deploy", "put"} )
        /\ deleted' = deleted \/ ( /\ deleted' = deleted \cup {r.item.id} /\ r.op = "delete"
                                   /\ request[q].pc \in {"deploy", "put"} )
    BY <1>8, <2>1
  <2> QED
    BY <1>5, <1>7, <2>1, <2>2, OneRequest
<1>10. undeployed' \in BOOLEAN /\ errors' \in 0 .. MaxErrors /\ deployment' \in [Kind -> Seq(Item)]
  <2>1. CASE Put(q)
    <3>1. old.snapshot \in [Kind -> Seq(Item)] /\ old.late \in BOOLEAN
      BY <1>2, <2>1 DEF RequestOK, RequestRecord, Put, At
    <3> QED
      BY <2>1, <3>1 DEF Put, WorkspaceInv, Typed
  <2>2. CASE DeployFails(q) \/ Fails(q)
    <3>1. errors' \in 0 .. MaxErrors
      BY <2>2, WorkspaceAssumption DEF DeployFails, Fails, WorkspaceInv, Typed
    <3> QED
      BY <2>2, <3>1 DEF DeployFails, Fails, WorkspaceInv, Typed
  <2> QED
    BY <2>1, <2>2
<1>11. Typed'
  BY <1>5, <1>7, <1>9, <1>10 DEF WorkspaceInv, Typed
<1>12. Deploys'
  <2>1. CASE Put(q)
    <3>1. CASE old.late
      BY <2>1, <3>1 DEF Put, Deploys
    <3>2. CASE ~old.late
      <4>1. old.snapshot \in [Kind -> Seq(Item)] /\ old.pc = "put"
        BY <1>2, <2>1 DEF RequestOK, Put, At
      <4>2. \A k \in Kind : old.snapshot[k] = ToDeploy(k, doc[k])
        BY <1>2, <3>2, <4>1 DEF GatheredOK
      <4>3. old.snapshot = [k \in Kind |-> ToDeploy(k, doc[k])]
        BY <4>1, <4>2
      <4>4. deployment' = [k \in Kind |-> ToDeploy(k, doc'[k])]
        BY <1>5, <2>1, <4>3 DEF Put
      <4> QED
        BY <4>4 DEF Deploys, Deployed
    <3> QED
      BY <3>1, <3>2
  <2>2. CASE DeployFails(q)
    BY <2>2 DEF DeployFails, Deploys
  <2>3. CASE Fails(q) /\ old.pc \in {"deploy", "put"}
    BY <2>3 DEF Fails, Deploys
  <2>4. CASE Fails(q) /\ old.pc \notin {"deploy", "put"}
    <3>1. Deploys /\ undeployed' = undeployed /\ deployment' = deployment
      BY <2>4 DEF Fails, WorkspaceInv, Typed
    <3>2. \A p \in Request : request[p].pc \in {"deploy", "put"} => request'[p].pc \in {"deploy", "put"}
      BY <1>7, <2>4 DEF Untouched
    <3> QED
      BY <1>5, <3>1, <3>2 DEF Deploys, Deployed
  <2> QED
    BY <2>1, <2>2, <2>3, <2>4
<1> QED
  BY <1>9, <1>11, <1>12 DEF WorkspaceInv

LEMMA NextStep == WorkspaceInv /\ [Next]_vars => WorkspaceInv'
<1> SUFFICES ASSUME WorkspaceInv, [Next]_vars PROVE WorkspaceInv'
  OBVIOUS
<1>1. CASE UNCHANGED vars
  <2>1. UNCHANGED <<mode, doc, deployment, request, clobbered, raced, undeployed, created, deleted, errors>>
    BY <1>1 DEF vars, history
  <2>2. Typed'
    BY <2>1 DEF WorkspaceInv, Typed
  <2>3. AtHome'
    BY <2>1 DEF WorkspaceInv, AtHome, Home
  <2>4. ASSUME NEW p \in Request PROVE RequestInv(p, request[p])'
    <3>1. RequestInv(p, request[p])
      BY DEF WorkspaceInv
    <3>2. HomeOK(p, request[p])'
      BY <2>1, <3>1 DEF RequestInv, HomeOK, Home
    <3>3. CheckedOK(request[p])' /\ LookedOK(request[p])' /\ GatheredOK(request[p])'
      BY <2>1, <3>1 DEF RequestInv, CheckedOK, LookedOK, GatheredOK
    <3>4. StandsOK(p, request[p])' /\ AwayOK(request[p])'
      BY <2>1, <3>1 DEF RequestInv, StandsOK, Dropped, AwayOK, Gone, Here
    <3>5. RequestOK(request[p])'
      BY <2>1, <3>1 DEF RequestInv, RequestOK
    <3> QED
      BY <3>2, <3>3, <3>4, <3>5 DEF RequestInv
  <2>5. SlugsUnique' /\ StaysAway' /\ Unclobbered' /\ Deploys'
    BY <2>1 DEF WorkspaceInv, SlugsUnique, StaysAway, Gone, Here, Unclobbered, Deploys, Deployed
  <2> QED
    BY <2>2, <2>3, <2>4, <2>5 DEF WorkspaceInv
<1>2. CASE Next
  <2>1. PICK q \in Request :
            \/ \E k \in Kind :
                \/ \E n \in Names[k] : Create(q, k, n)
                \/ \E x \in Range(doc[k]) : Delete(q, k, x) \/ \E n \in Names[k] : Update(q, k, x, n)
            \/ Read(q) \/ Write(q) \/ SaveInMemory(q) \/ Gather(q) \/ Put(q)
            \/ DeployFails(q) \/ Fails(q)
    BY <1>2 DEF Next
  <2>2. CASE \E k \in Kind :
                \/ \E n \in Names[k] : Create(q, k, n)
                \/ \E x \in Range(doc[k]) : Delete(q, k, x) \/ \E n \in Names[k] : Update(q, k, x, n)
    BY <2>2, BeginStep
  <2>3. CASE Read(q)
    BY <2>3, ReadStep
  <2>4. CASE Write(q)
    BY <2>4, WriteStep
  <2>5. CASE SaveInMemory(q)
    BY <2>5, SaveInMemoryStep
  <2>6. CASE Gather(q)
    BY <2>6, GatherStep
  <2>7. CASE Put(q) \/ DeployFails(q) \/ Fails(q)
    BY <2>7, EndStep
  <2> QED
    BY <2>1, <2>2, <2>3, <2>4, <2>5, <2>6, <2>7
<1> QED
  BY <1>1, <1>2

\* The inductive invariant holds in every state.
THEOREM WorkspaceHolds == Spec => []WorkspaceInv
<1>1. Init => WorkspaceInv
  BY InitOK
<1>2. WorkspaceInv /\ [Next]_vars => WorkspaceInv'
  BY NextStep
<1> QED
  BY <1>1, <1>2, PTL DEF Spec

\* Every variable has its type, and no document lists an id twice: saveX() and deleteX()
\* make a document of a document, even of one that is no longer the latest.
THEOREM Types == Spec => []TypeOK
<1>1. WorkspaceInv => TypeOK
  <2> SUFFICES ASSUME WorkspaceInv PROVE TypeOK
    OBVIOUS
  <2>1. ASSUME NEW k \in Kind
        PROVE  /\ Range(doc[k]) \subseteq Item /\ Len(doc[k]) = Cardinality(Ids(doc[k]))
               /\ Range(deployment[k]) \subseteq Item
    <3>1. IsDocument(doc[k]) /\ doc[k] \in Seq(Item) /\ deployment[k] \in Seq(Item)
      BY DEF WorkspaceInv, Typed
    <3> QED
      BY <3>1, IdsCounted DEF Range
  <2>2. \A q \in Request : request[q].pc \in {"idle", "read", "write", "deploy", "put", "done"}
    BY DEF WorkspaceInv, RequestInv, RequestOK, RequestRecord
  <2> QED
    BY <2>1, <2>2 DEF WorkspaceInv, Typed, TypeOK
<1> QED
  BY <1>1, WorkspaceHolds, PTL

\* A created item stays until it is deleted, and a deleted one stays away, but for a document
\* SET of Redis over a change it had not read (or, for the latter, an update that raced with
\* it).
THEOREM ChangesLast == Spec => []ChangesStand
<1>1. WorkspaceInv => ChangesStand
  <2> SUFFICES ASSUME WorkspaceInv PROVE ChangesStand
    OBVIOUS
  <2>1. ASSUME NEW q \in created
        PROVE  \/ \E p \in Request : request[p].op = "delete" /\ request[p].item.id = q
               \/ Here(request[q].kind, q)
               \/ mode = "redis" /\ request[q].kind \in clobbered
    <3>0. request[q].kind \in clobbered => mode = "redis"
      BY DEF WorkspaceInv, Typed, Unclobbered
    <3>1. q \in Request /\ request[q].op = "create"
      BY DEF WorkspaceInv, Typed
    <3>2. StandsOK(q, request[q])
      BY <3>1 DEF WorkspaceInv, RequestInv
    <3> QED
      BY <3>0, <3>1, <3>2 DEF StandsOK, Dropped
  <2>2. \A i \in deleted : \A k \in Kind : Here(k, i) => k \in raced
    BY DEF WorkspaceInv, StaysAway, Gone
  <2> QED
    BY <2>1, <2>2 DEF WorkspaceInv, ChangesStand
<1> QED
  BY <1>1, WorkspaceHolds, PTL

\* Two hosts (or callbacks) share a slug only where a change was written after another had
\* overtaken its check.
THEOREM SlugsStayUnique == Spec => []SlugsUnique
<1>1. WorkspaceInv => SlugsUnique
  BY DEF WorkspaceInv
<1> QED
  BY <1>1, WorkspaceHolds, PTL

\* With no request under way what is deployed is what the documents say, unless the last
\* deployment failed or raced with a change.
THEOREM DeployedAtRest == Spec => []RestIsDeployed
<1>1. WorkspaceInv => RestIsDeployed
  BY DEF WorkspaceInv, Deploys, Deployed, RestIsDeployed
<1> QED
  BY <1>1, WorkspaceHolds, PTL

-----------------------------------------------------------------------------
(* What core does and what the panel says of it.                           *)

\* What FirstByKey returns: the items whose key no earlier item has.
LEMMA FirstByKeyRange ==
    ASSUME NEW S, NEW items \in Seq(S), NEW key
    PROVE  Range(FirstByKey(items, key)) =
             {items[m] : m \in {n \in DOMAIN items :
                                  \A j \in 1 .. n - 1 : key[items[j]] # key[items[n]]}}
<1> DEFINE first == {n \in DOMAIN items : \A j \in 1 .. n - 1 : key[items[j]] # key[items[n]]}
           places == [n \in DOMAIN items |-> n]
           order == Kept(places, first)
           result == [n \in DOMAIN order |-> items[order[n]]]
<1>1. FirstByKey(items, key) = result
  BY DEF FirstByKey
<1>2. places \in Seq(DOMAIN items)
  OBVIOUS
<1>3. Range(places) = DOMAIN items
  BY DEF Range
<1> HIDE DEF places
<1>4. Range(order) = Range(places) \cap first
  BY <1>2, KeptProperties
<1>5. Range(order) = first
  BY <1>3, <1>4
<1> HIDE DEF order, first
<1>6. Range(result) = {items[m] : m \in first}
  BY <1>5 DEF Range
<1> QED
  BY <1>1, <1>6 DEF first

\* The first item of a key is found under it, and comes before any other.
LEMMA FirstFound ==
    ASSUME NEW S, NEW items \in Seq(S), NEW key, NEW x \in Range(items)
    PROVE  \E m \in DOMAIN items :
             /\ key[items[m]] = key[x] /\ items[m] \in Range(FirstByKey(items, key))
             /\ \A n \in DOMAIN items : key[items[n]] = key[x] => m <= n
<1> DEFINE T == {n \in DOMAIN items : key[items[n]] = key[x]}
<1>1. DOMAIN items = 1 .. Len(items) /\ Len(items) \in Nat
  OBVIOUS
<1>2. T \subseteq Nat /\ T # {}
  BY <1>1 DEF Range
<1>3. PICK m \in T : \A n \in T : ~(n < m)
  BY <1>2, LeastNat
<1>4. m \in DOMAIN items /\ key[items[m]] = key[x]
  BY <1>3
<1>5. \A n \in DOMAIN items : key[items[n]] = key[x] => m <= n
  BY <1>1, <1>2, <1>3
<1>6. \A j \in 1 .. m - 1 : key[items[j]] # key[items[m]]
  BY <1>1, <1>4, <1>5
<1>7. items[m] \in Range(FirstByKey(items, key))
  BY <1>4, <1>6, FirstByKeyRange
<1> QED
  BY <1>4, <1>5, <1>7

\* No two items of FirstByKey share their key.
LEMMA FirstIsOne ==
    ASSUME NEW S, NEW items \in Seq(S), NEW key,
           NEW x \in Range(FirstByKey(items, key)), NEW y \in Range(FirstByKey(items, key)),
           key[x] = key[y]
    PROVE  x = y
<1>1. DOMAIN items = 1 .. Len(items) /\ Len(items) \in Nat
  OBVIOUS
<1> DEFINE first == {n \in DOMAIN items : \A j \in 1 .. n - 1 : key[items[j]] # key[items[n]]}
<1>2. x \in {items[m] : m \in first} /\ y \in {items[m] : m \in first}
  BY FirstByKeyRange
<1>3. PICK m \in first, n \in first : x = items[m] /\ y = items[n]
  BY <1>2
<1>4. ~(m < n) /\ ~(n < m)
  BY <1>1, <1>3
<1> QED
  BY <1>1, <1>3, <1>4

\* No item of a file comes before one of the workspace.
UiFirst(items) ==
    /\ \A x \in Range(items) : x.file \in BOOLEAN
    /\ \A m, n \in DOMAIN items : ~items[m].file /\ items[n].file => m < n

\* A document followed by the items of the files is such a list ...
LEMMA JoinedOK ==
    ASSUME NEW d \in Seq(Item), NEW f, f \in Seq(Range(f)),
           \A x \in Range(f) : x.file = TRUE
    PROVE  /\ d \o f \in Seq(Item \cup Range(f))
           /\ UiFirst(d \o f)
           /\ Range(d \o f) = Range(d) \cup Range(f)
<1> DEFINE l == d \o f
           S == Item \cup Range(f)
<1>1. d \in Seq(S) /\ f \in Seq(S)
  OBVIOUS
<1>2. /\ l \in Seq(S) /\ DOMAIN l = 1 .. Len(d) + Len(f) /\ Len(d) \in Nat /\ Len(f) \in Nat
      /\ \A m \in 1 .. Len(d) + Len(f) : l[m] = IF m <= Len(d) THEN d[m] ELSE f[m - Len(d)]
      /\ DOMAIN d = 1 .. Len(d) /\ DOMAIN f = 1 .. Len(f)
  <2> HIDE DEF S
  <2> QED
    BY <1>1
<1> HIDE DEF l
<1>3. ASSUME NEW m \in 1 .. Len(d) PROVE d[m].file = FALSE
  <2>1. d[m] \in Item
    BY <1>2
  <2> QED
    BY <2>1 DEF Item
<1>4. \A m \in 1 .. Len(f) : f[m].file = TRUE
  BY DEF Range
<1>5. ASSUME NEW m \in DOMAIN l
      PROVE  /\ m \in 1 .. Len(d) => l[m] = d[m] /\ l[m].file = FALSE
             /\ m \notin 1 .. Len(d) => /\ m > Len(d) /\ l[m].file = TRUE
                                        /\ m - Len(d) \in 1 .. Len(f) /\ l[m] = f[m - Len(d)]
  <2>1. CASE m \in 1 .. Len(d)
    <3>1. l[m] = d[m]
      BY <1>2, <2>1
    <3> QED
      BY <1>3, <2>1, <3>1
  <2>2. CASE m \notin 1 .. Len(d)
    <3>1. m > Len(d) /\ l[m] = f[m - Len(d)] /\ m - Len(d) \in 1 .. Len(f)
      BY <1>2, <2>2
    <3> QED
      BY <1>4, <2>2, <3>1
  <2> QED
    BY <2>1, <2>2
<1>6. ASSUME NEW m \in DOMAIN l, NEW n \in DOMAIN l, ~l[m].file, l[n].file PROVE m < n
  <2>1. m \in 1 .. Len(d) /\ n \notin 1 .. Len(d)
    BY <1>5, <1>6
  <2>2. n > Len(d) /\ n \in Nat
    BY <1>2, <1>5, <2>1
  <2> QED
    BY <1>2, <2>1, <2>2
<1>7. \A x \in Range(l) : x.file \in BOOLEAN
  BY <1>5 DEF Range
<1>8. UiFirst(l)
  BY <1>6, <1>7 DEF UiFirst
<1>9. ASSUME NEW x \in Range(l) PROVE x \in Range(d) \cup Range(f)
  <2>1. PICK m \in DOMAIN l : x = l[m]
    BY DEF Range
  <2> QED
    BY <1>2, <1>5, <2>1 DEF Range
<1>10. ASSUME NEW x \in Range(d) PROVE x \in Range(l)
  <2>1. PICK m \in 1 .. Len(d) : x = d[m]
    BY <1>2 DEF Range
  <2>2. m \in DOMAIN l /\ l[m] = x
    BY <1>2, <2>1
  <2> QED
    BY <2>2 DEF Range
<1>11. ASSUME NEW x \in Range(f) PROVE x \in Range(l)
  <2>1. PICK m \in 1 .. Len(f) : x = f[m]
    BY <1>2 DEF Range
  <2>2. m + Len(d) \in DOMAIN l /\ l[m + Len(d)] = x
    BY <1>2, <2>1
  <2> QED
    BY <2>2 DEF Range
<1>12. Range(l) = Range(d) \cup Range(f)
  BY <1>9, <1>10, <1>11
<1> QED
  BY <1>2, <1>8, <1>12 DEF l

\* ... and so is what a filter leaves of it.
LEMMA KeptUiFirst ==
    ASSUME NEW S, NEW items \in Seq(S), NEW T, UiFirst(items)
    PROVE  UiFirst(Kept(items, T))
<1> DEFINE t == Kept(items, T)
<1>1. /\ t \in Seq(S) /\ Range(t) = Range(items) \cap T
      /\ \A i, j \in DOMAIN t : i < j =>
           \E a, b \in DOMAIN items : a < b /\ items[a] = t[i] /\ items[b] = t[j]
  BY KeptProperties
<1>2. DOMAIN t \subseteq Nat /\ DOMAIN items \subseteq Nat
  BY <1>1
<1> HIDE DEF t
<1>3. ASSUME NEW m \in DOMAIN t, NEW n \in DOMAIN t, ~t[m].file, t[n].file PROVE m < n
  <2>1. SUFFICES ASSUME n < m PROVE FALSE
    BY <1>2, <1>3
  <2>2. PICK a \in DOMAIN items, b \in DOMAIN items : a < b /\ items[a] = t[n] /\ items[b] = t[m]
    BY <1>1, <2>1
  <2>3. b < a
    BY <1>3, <2>2 DEF UiFirst
  <2> QED
    BY <1>2, <2>2, <2>3
<1> QED
  BY <1>1, <1>3 DEF t, UiFirst

LEMMA RangeFinite ==
    ASSUME NEW S, NEW items \in Seq(S)
    PROVE  IsFiniteSet(Range(items))
<1>1. Len(items) \in Nat /\ DOMAIN items = 1 .. Len(items)
  OBVIOUS
<1>2. IsFiniteSet(1 .. Len(items))
  BY <1>1, FS_Interval
<1>3. items \in Surjection(1 .. Len(items), Range(items))
  BY <1>1 DEF Surjection, Range
<1> QED
  BY <1>2, <1>3, FS_Surjection

\* Roles given by a key are what being first of that key comes to, where files come last.
LEMMA RolesOK ==
    ASSUME NEW S, NEW items \in Seq(S), UiFirst(items), NEW key,
           NEW L, NEW listed \in Seq(L), Range(listed) = Range(items), NEW spelled,
           \A y, z \in Range(items) : key[y] = key[z] <=> spelled[y] = spelled[z],
           NEW x \in Range(items)
    PROVE  LET role == Role(listed, spelled, x)
               first == Range(FirstByKey(items, key))
           IN  /\ role \in {"none", "active"} => x \in first
               /\ role = "shadowed" =>
                    /\ x \notin first /\ x.file
                    /\ \E y \in Range(items) : ~y.file /\ key[y] = key[x]
               /\ role = "active" => ~x.file
<1> DEFINE role == Role(listed, spelled, x)
           first == Range(FirstByKey(items, key))
           group == {y \in Range(listed) : spelled[y] = spelled[x]}
           ui == {y \in group : ~y.file}
<1>1. group = {y \in Range(items) : key[y] = key[x]}
  OBVIOUS
<1>2. IsFiniteSet(group) /\ IsFiniteSet(ui)
  <2>1. group \in SUBSET Range(listed) /\ ui \in SUBSET Range(listed)
    OBVIOUS
  <2> HIDE DEF group, ui
  <2> QED
    BY <2>1, RangeFinite, FS_Subset
<1>3. PICK m \in DOMAIN items :
        /\ key[items[m]] = key[x] /\ items[m] \in first
        /\ \A n \in DOMAIN items : key[items[n]] = key[x] => m <= n
  BY FirstFound, SMTT(30)
<1>4. items[m] \in group
  BY <1>1, <1>3 DEF Range
<1>5. /\ DOMAIN items \subseteq Nat
      /\ \A i, j \in DOMAIN items : ~items[i].file /\ items[j].file => i < j
      /\ \A y \in Range(items) : y.file \in BOOLEAN
  BY DEF UiFirst
<1>6. /\ role = "none" => Cardinality(group) = 1
      /\ role = "active" => Cardinality(ui) = 1 /\ ~x.file
      /\ role = "shadowed" => Cardinality(ui) = 1 /\ x.file
  <2> DEFINE g == Cardinality(group)
             u == Cardinality(ui)
  <2>1. role = CASE g = 1 -> "none"
                 [] g = 2 /\ u = 1 -> IF x.file THEN "shadowed" ELSE "active"
                 [] OTHER -> "conflict"
    BY DEF Role
  <2> HIDE DEF g, u, role
  <2>2. CASE g = 1
    <3>1. g # 2
      BY <2>2
    <3>2. role = "none"
      BY <2>1, <2>2, <3>1
    <3> QED
      BY <2>2, <3>2 DEF g
  <2>3. CASE g # 1 /\ g = 2 /\ u = 1
    <3>1. role = IF x.file THEN "shadowed" ELSE "active"
      BY <2>1, <2>3
    <3>2. role # "none"
      BY <3>1
    <3> QED
      BY <2>3, <3>1, <3>2 DEF u
  <2>4. CASE g # 1 /\ ~(g = 2 /\ u = 1)
    <3>1. role = "conflict"
      BY <2>1, <2>4
    <3> QED
      BY <3>1
  <2> QED
    BY <2>2, <2>3, <2>4
<1> HIDE DEF role, first
<1>7. ASSUME role = "none" PROVE x \in first
  <2>1. PICK y : group = {y}
    <3> HIDE DEF group
    <3> QED
      BY <1>2, <1>6, <1>7, FS_Singleton
  <2>2. x \in group
    BY <1>1
  <2> HIDE DEF group
  <2> QED
    BY <1>3, <1>4, <2>1, <2>2
<1>8. ASSUME role = "active" PROVE x \in first
  <2>1. PICK y : ui = {y}
    <3> HIDE DEF ui
    <3> QED
      BY <1>2, <1>6, <1>8, FS_Singleton
  <2>2. x \in ui
    BY <1>1, <1>6, <1>8
  <2>3. CASE items[m].file
    <3>1. PICK n \in DOMAIN items : x = items[n]
      BY DEF Range
    <3>2. n < m
      BY <1>5, <1>6, <1>8, <2>3, <3>1
    <3>3. m <= n
      BY <1>3, <3>1
    <3> QED
      BY <1>5, <3>1, <3>2, <3>3
  <2>4. CASE ~items[m].file
    <3>1. items[m] \in ui
      BY <1>4, <2>4
    <3> HIDE DEF ui
    <3> QED
      BY <1>3, <2>1, <2>2, <3>1
  <2> QED
    BY <2>3, <2>4
<1>9. ASSUME role = "shadowed"
      PROVE  x \notin first /\ x.file /\ \E y \in Range(items) : ~y.file /\ key[y] = key[x]
  <2>1. PICK y : ui = {y}
    <3> HIDE DEF ui
    <3> QED
      BY <1>2, <1>6, <1>9, FS_Singleton
  <2>2. y \in Range(items) /\ ~y.file /\ key[y] = key[x]
    BY <1>1, <2>1
  <2>3. x.file
    BY <1>6, <1>9
  <2>4. ASSUME x \in first PROVE FALSE
    <3>1. x \in {items[a] : a \in {n \in DOMAIN items :
                                     \A j \in 1 .. n - 1 : key[items[j]] # key[items[n]]}}
      BY <2>4, FirstByKeyRange DEF first
    <3>2. PICK a \in DOMAIN items :
            x = items[a] /\ \A j \in 1 .. a - 1 : key[items[j]] # key[items[a]]
      BY <3>1
    <3>3. PICK b \in DOMAIN items : y = items[b]
      BY <2>2 DEF Range
    <3>4. b < a
      BY <1>5, <2>2, <2>3, <3>2, <3>3
    <3>5. DOMAIN items = 1 .. Len(items) /\ Len(items) \in Nat
      OBVIOUS
    <3> QED
      BY <2>2, <3>2, <3>3, <3>4, <3>5
  <2> QED
    BY <2>2, <2>3, <2>4
<1> QED
  BY <1>6, <1>7, <1>8, <1>9 DEF role, first

LEMMA RoleIn ==
    ASSUME NEW items, NEW key, NEW x
    PROVE  Role(items, key, x) \in {"none", "active", "shadowed", "conflict"}
<1> DEFINE g == Cardinality({y \in Range(items) : key[y] = key[x]})
           u == Cardinality({z \in {y \in Range(items) : key[y] = key[x]} : ~z.file})
<1>1. Role(items, key, x) = CASE g = 1 -> "none"
                              [] g = 2 /\ u = 1 -> IF x.file THEN "shadowed" ELSE "active"
                              [] OTHER -> "conflict"
  BY DEF Role
<1> HIDE DEF g, u
<1>2. CASE g = 1
  <2>1. g # 2
    BY <1>2
  <2> QED
    BY <1>1, <1>2, <2>1
<1>3. CASE g # 1 /\ g = 2 /\ u = 1
  BY <1>1, <1>3
<1>4. CASE g # 1 /\ ~(g = 2 /\ u = 1)
  BY <1>1, <1>4
<1> QED
  BY <1>2, <1>3, <1>4

\* What the panel says of hosts and callbacks is what core does with their slugs.
THEOREM PanelToldSlugs == Spec => []PanelTellsSlugs
<1>1. ASSUME WorkspaceInv, Deployed, NEW k \in Kind \ {"mocks"}, NEW x \in Range(Listed(k))
      PROVE  LET items == Listed(k)
                 core == UniqueBySlug(deployment[k], Files[k])
                 role == Role(items, SlugOf(items), x)
             IN  /\ role \in {"none", "active"} => FindBySlug(core, x.name) = {x}
                 /\ role = "shadowed" => x \notin Range(core) /\ OverriddenByUi(items, x)
                 /\ role = "active" => ~OverriddenByUi(items, x)
                 /\ ~OverriddenByUi(items, x) =>
                       \E y \in Range(items) :
                           /\ FindBySlug(core, x.name) = {y} /\ y.file = x.file
                           /\ y = x \/ role = "conflict"
  <2> DEFINE items == Listed(k)
             key == SlugOf(items)
             core == UniqueBySlug(deployment[k], Files[k])
             role == Role(items, key, x)
             S == Item \cup Range(Files[k])
  <2>1. items = doc[k] \o Files[k] /\ doc[k] \in Seq(Item)
    BY <1>1 DEF Listed, WorkspaceInv, Typed
  <2>2. items \in Seq(S) /\ UiFirst(items)
    BY <1>1, <2>1, WorkspaceAssumption, JoinedOK
  <2>3. deployment[k] = doc[k]
    BY <1>1 DEF Deployed, ToDeploy
  <2>4. core = FirstByKey(items, key)
    BY <2>1, <2>3 DEF UniqueBySlug
  <2>5. \A y \in Range(items) : key[y] = Slug(y)
    BY DEF SlugOf
  <2>6. x \in Range(items)
    BY <1>1
  <2> HIDE DEF items, core, key, S
  <2>7. /\ role \in {"none", "active"} => x \in Range(core)
        /\ role = "shadowed" =>
             /\ x \notin Range(core) /\ x.file
             /\ \E y \in Range(items) : ~y.file /\ key[y] = key[x]
        /\ role = "active" => ~x.file
    BY <2>2, <2>4, <2>6, RolesOK
  <2>8. ASSUME NEW y \in Range(core) PROVE y \in Range(items)
    <3> DEFINE first == {n \in DOMAIN items : \A j \in 1 .. n - 1 : key[items[j]] # key[items[n]]}
    <3>1. Range(core) = {items[m] : m \in first}
      BY <2>2, <2>4, FirstByKeyRange
    <3>2. PICK m \in first : y = items[m]
      BY <2>8, <3>1
    <3> QED
      BY <3>2 DEF Range
  <2> HIDE DEF role
  <2>9. ASSUME x \in Range(core) PROVE FindBySlug(core, x.name) = {x}
    <3>1. \A y \in Range(core) : Slug(y) = Slug(x) => y = x
      BY <2>2, <2>4, <2>5, <2>8, <2>9, FirstIsOne
    <3> QED
      BY <2>9, <3>1 DEF FindBySlug, Slug
  <2>10. /\ role = "shadowed" => OverriddenByUi(items, x)
         /\ role = "active" => ~OverriddenByUi(items, x)
    BY <2>5, <2>6, <2>7 DEF OverriddenByUi
  <2>11. ASSUME ~OverriddenByUi(items, x)
         PROVE  \E y \in Range(items) :
                    /\ FindBySlug(core, x.name) = {y} /\ y.file = x.file
                    /\ y = x \/ role = "conflict"
    <3>1. PICK m \in DOMAIN items :
            /\ key[items[m]] = key[x] /\ items[m] \in Range(core)
            /\ \A n \in DOMAIN items : key[items[n]] = key[x] => m <= n
      BY <2>2, <2>4, <2>6, FirstFound, SMTT(30)
    <3> DEFINE y == items[m]
    <3>2. y \in Range(items) /\ y \in Range(core) /\ Slug(y) = Slug(x)
      BY <2>5, <2>6, <3>1 DEF Range
    <3> HIDE DEF y
    <3>3. \A z \in Range(core) : Slug(z) = Slug(y) => z = y
      BY <2>2, <2>4, <2>5, <2>8, <3>2, FirstIsOne
    <3>4. FindBySlug(core, x.name) = {y}
      BY <3>2, <3>3 DEF FindBySlug, Slug
    <3>5. y.file = x.file
      <4>1. y.file \in BOOLEAN /\ x.file \in BOOLEAN
        BY <2>2, <2>6, <3>2 DEF UiFirst
      <4>2. x.file => y.file
        BY <2>11, <3>2 DEF OverriddenByUi
      <4>3. ASSUME ~x.file, y.file PROVE FALSE
        <5>1. PICK n \in DOMAIN items : x = items[n]
          BY <2>6 DEF Range
        <5>2. n < m /\ m <= n
          BY <2>2, <3>1, <4>3, <5>1 DEF UiFirst, y
        <5>3. n \in Nat /\ m \in Nat
          BY <2>2, <3>1, <5>1
        <5> QED
          BY <5>2, <5>3
      <4> QED
        BY <4>1, <4>2, <4>3
    <3>6. y = x \/ role = "conflict"
      <4>1. CASE x \in Range(core)
        BY <3>2, <3>3, <4>1
      <4>2. CASE x \notin Range(core)
        <5>1. role # "none" /\ role # "active" /\ role # "shadowed"
          BY <2>7, <2>10, <2>11, <4>2
        <5> QED
          BY <5>1, RoleIn DEF role
      <4> QED
        BY <4>1, <4>2
    <3> QED
      BY <3>2, <3>4, <3>5, <3>6
  <2> QED
    BY <2>7, <2>9, <2>10, <2>11 DEF items, core, key, role
<1>2. WorkspaceInv => PanelTellsSlugs
  BY <1>1 DEF PanelTellsSlugs
<1> QED
  BY <1>2, WorkspaceHolds, PTL

\* The mocks that are on spell their hosts alike: two names of one virtual host are one name.
SpelledAlike ==
    LET hosts == UniqueBySlug(deployment["hosts"], Files["hosts"]) IN
    \A m, n \in Range(EnabledMocks) :
        Vhost(m.name, hosts) = Vhost(n.name, hosts) => m.name = n.name

\* Where mocks spell their hosts alike, and only spelling is assumed, what the panel says
\* of a mock is what core does with it.
THEOREM PanelToldMocks == Spec => [](SpelledAlike => PanelTellsMocks)
<1>1. ASSUME WorkspaceInv, SpelledAlike, Deployed, NEW x \in Range(EnabledMocks)
      PROVE  LET role == Role(EnabledMocks, MockKeyOf(EnabledMocks), x) IN
             /\ role \in {"none", "active"} => x \in ServesMocks
             /\ role = "shadowed" => x \notin ServesMocks
  <2> DEFINE d == doc["mocks"]
             f == Files["mocks"]
             on == {m \in Range(d) : m.on}
             dep == Kept(d, on)
             S == Item \cup Range(f)
             joined == dep \o f
             jon == {m \in Range(joined) : m.on}
             items == Kept(joined, jon)
             l == d \o f
             lon == {m \in Range(l) : m.on}
             listed == Kept(l, lon)
             hosts == UniqueBySlug(deployment["hosts"], Files["hosts"])
             key == [m \in Range(joined) |-> Vhost(m.name, hosts)]
             spelled == MockKeyOf(listed)
  <2>1. /\ "mocks" \in Kind /\ d \in Seq(Item) /\ f \in Seq(Range(f))
        /\ \A y \in Range(f) : y.file = TRUE
    BY <1>1, WorkspaceAssumption DEF WorkspaceInv, Typed
  <2>2. deployment["mocks"] = dep
    BY <1>1, <2>1 DEF Deployed, ToDeploy
  <2>3. EnabledMocks = listed
    BY DEF EnabledMocks, Listed
  <2>4. ServesMocks = Range(FirstByKey(items, key))
    BY <2>2 DEF ServesMocks, ServingMocks, FirstByVhost
  <2>5. \A m, n \in Range(listed) : Vhost(m.name, hosts) = Vhost(n.name, hosts) => m.name = n.name
    BY <1>1, <2>3 DEF SpelledAlike
  <2> HIDE DEF d, f, hosts
  <2>6. dep \in Seq(Item) /\ Range(dep) = Range(d) \cap on
    <3> HIDE DEF on
    <3> QED
      BY <2>1, KeptProperties
  <2>7. joined \in Seq(S) /\ UiFirst(joined) /\ Range(joined) = Range(dep) \cup Range(f)
    <3> HIDE DEF dep
    <3> QED
      BY <2>1, <2>6, JoinedOK
  <2>8. l \in Seq(S) /\ Range(l) = Range(d) \cup Range(f)
    BY <2>1, JoinedOK
  <2> HIDE DEF dep, joined, l, S
  <2>9. items \in Seq(S) /\ Range(items) = Range(joined) \cap jon /\ UiFirst(items)
    <3> HIDE DEF jon
    <3> QED
      BY <2>7, KeptProperties, KeptUiFirst
  <2>10. listed \in Seq(S) /\ Range(listed) = Range(l) \cap lon
    <3> HIDE DEF lon
    <3> QED
      BY <2>8, KeptProperties
  <2> HIDE DEF items, listed
  <2>11. Range(listed) = Range(items)
    BY <2>6, <2>7, <2>8, <2>9, <2>10
  <2>12. x \in Range(items)
    BY <1>1, <2>3, <2>11
  <2>13. \A y \in Range(items) : key[y] = Vhost(y.name, hosts) /\ spelled[y] = y.name /\ y \in Range(listed)
    BY <2>9, <2>10, <2>11 DEF MockKeyOf
  <2> HIDE DEF key, spelled
  <2>14. \A y, z \in Range(items) : key[y] = key[z] <=> spelled[y] = spelled[z]
    BY <2>5, <2>13
  <2>15. LET role == Role(listed, spelled, x) IN
         /\ role \in {"none", "active"} => x \in Range(FirstByKey(items, key))
         /\ role = "shadowed" => x \notin Range(FirstByKey(items, key))
    <3> DEFINE role == Role(listed, spelled, x)
               first == Range(FirstByKey(items, key))
    <3>1. /\ role \in {"none", "active"} => x \in first
          /\ role = "shadowed" =>
               /\ x \notin first /\ x.file
               /\ \E y \in Range(items) : ~y.file /\ key[y] = key[x]
          /\ role = "active" => ~x.file
      <4>1. items \in Seq(S) /\ UiFirst(items) /\ listed \in Seq(S)
        BY <2>9, <2>10
      <4> QED
        BY <2>11, <2>12, <2>14, <4>1, RolesOK
    <3> QED
      BY <3>1
  <2> QED
    BY <2>3, <2>4, <2>15 DEF spelled
<1>2. WorkspaceInv => (SpelledAlike => PanelTellsMocks)
  BY <1>1 DEF PanelTellsMocks
<1> QED
  BY <1>2, WorkspaceHolds, PTL

=============================================================================
