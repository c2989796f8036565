-------------------------- MODULE WorkspaceInvariant --------------------------
(***************************************************************************)
(* The inductive invariant of Workspace: what a request that read, checked *)
(* or gathered something may still rely on, and what becomes of it.        *)
(***************************************************************************)
EXTENDS Workspace

\* A document lists items of its own, each under an id of its own.
IsDocument(items) ==
    /\ items \in Seq(Item)
    /\ \A m, n \in DOMAIN items : items[m].id = items[n].id => m = n

\* The documents a deployment has gathered, in their order.
Gathering == {{"mocks"}, {"mocks", "hosts"}}
Snapshot == {<<>>} \cup [{"mocks"} -> Seq(Item)] \cup [{"mocks", "hosts"} -> Seq(Item)]
                  \cup [Kind -> Seq(Item)]

RequestRecord ==
    [op : {"none", "create", "update", "delete"}, kind : Kind \cup {"none"},
     pc : {"idle", "read", "write", "deploy", "put", "done"}, item : Item \cup {<<>>},
     read : Seq(Item), snapshot : Snapshot, late : BOOLEAN, stale : BOOLEAN]

\* r is what a request may be at its place in the code.
RequestOK(r) ==
    /\ r \in RequestRecord
    /\ r.pc = "idle" => r.op = "none"
    /\ r.pc # "idle" => r.op # "none" /\ r.kind \in Kind /\ r.item \in Item
    /\ r.pc = "write" => mode = "redis" /\ IsDocument(r.read)
    /\ r.pc = "deploy" => r.snapshot = <<>> \/ DOMAIN r.snapshot \in Gathering
    /\ r.pc = "put" => r.snapshot \in [Kind -> Seq(Item)]
    /\ r.pc \notin {"deploy", "put"} => r.snapshot = <<>>

Typed ==
    /\ mode \in {"redis", "memory"}
    /\ doc \in [Kind -> Seq(Item)] /\ \A k \in Kind : IsDocument(doc[k])
    /\ deployment \in [Kind -> Seq(Item)]
    /\ request \in [Request -> RequestRecord]
    /\ clobbered \subseteq Kind /\ raced \subseteq Kind /\ undeployed \in BOOLEAN
    /\ \A q \in created : q \in Request /\ request[q].op = "create" /\ request[q].pc = "done"
    /\ errors \in 0 .. MaxErrors

\* The change of r was written, if r is one that was not lost.
Written(r) == r.pc \in {"deploy", "put", "done"}

\* The ids that documents of kind k may hold: they were there from the beginning, or
\* their creation was written.
Home(k) ==
    Ids(Initial[k])
      \cup {q \in Request : request[q].op = "create" /\ request[q].kind = k /\ Written(request[q])}

\* An id belongs to one kind of document, wherever it is found.
AtHome ==
    /\ \A k \in Kind : Ids(doc[k]) \subseteq Home(k)
    /\ deleted \subseteq UNION {Home(k) : k \in Kind}

HomeOK(q, r) ==
    /\ r.op = "create" => r.item.id = q
    /\ r.op \in {"update", "delete"} => r.item.id \in Home(r.kind)
    /\ r.pc = "write" => Ids(r.read) \subseteq Home(r.kind)

\* What a request read is what is stored, unless a later change is known to it.
LookedOK(r) == r.pc = "write" /\ (~r.stale \/ ~r.late) => r.read = doc[r.kind]

\* What a request checked holds, unless a later change is known to it.
CheckedOK(r) ==
    r.pc \in {"read", "write"} /\ ~r.late =>
        /\ r.op = "create" /\ r.kind # "mocks" =>
            \A x \in Range(doc[r.kind]) : Slug(x) # Slug(r.item)
        /\ r.op = "update" =>
            \E x \in Range(doc[r.kind]) :
                x.id = r.item.id /\ (r.kind # "mocks" => x.name = r.item.name)

\* What was gathered is what is stored, unless a later change is known to the request.
GatheredOK(r) ==
    r.pc \in {"deploy", "put"} /\ ~r.late =>
        \A k \in DOMAIN r.snapshot : r.snapshot[k] = ToDeploy(k, doc[k])

\* A creation that was written stands ...
Dropped(i) == \E p \in Request : request[p].op = "delete" /\ request[p].item.id = i
StandsOK(q, r) ==
    r.op = "create" /\ (r.pc \in {"deploy", "put"} \/ q \in created) =>
        Dropped(q) \/ Here(r.kind, q) \/ r.kind \in clobbered

\* ... and so does a deletion.
Gone(i) == \A k \in Kind : Here(k, i) => k \in raced
AwayOK(r) == r.op = "delete" /\ r.pc \in {"deploy", "put"} => Gone(r.item.id)
StaysAway == \A i \in deleted : Gone(i)

RequestInv(q, r) ==
    /\ RequestOK(r) /\ HomeOK(q, r) /\ LookedOK(r) /\ CheckedOK(r) /\ GatheredOK(r)
    /\ StandsOK(q, r) /\ AwayOK(r)

Unclobbered == mode = "memory" => clobbered = {}

\* What is stored is deployed, or will be, or an error or a race kept it from that.
Deploys ==
    undeployed \/ Deployed \/ \E q \in Request : request[q].pc \in {"deploy", "put"}

WorkspaceInv ==
    /\ Typed /\ AtHome /\ \A q \in Request : RequestInv(q, request[q])
    /\ SlugsUnique /\ StaysAway /\ Unclobbered /\ Deploys

===============================================================================
