------------------------------ MODULE Workspace ------------------------------
(***************************************************************************)
(* The workspace of mocko-control: one document of mocks, one of hosts and *)
(* one of callbacks, changed by concurrent requests, and the deployment    *)
(* assembled from them after every change.                                 *)
(*                                                                         *)
(* In Redis a change is a GET and a SET of the whole document, a           *)
(* deployment three GETs and a SET, and every one of them an await.        *)
(* Without Redis the documents are Maps of the one control process, which  *)
(* posts the deployment to core.  What core does with a deployment is      *)
(* DeployReload; here it is what core would serve at rest.  The failure    *)
(* record that an update or deletion of a mock clears after its deployment *)
(* is left out: nothing here reads it.                                     *)
(***************************************************************************)
EXTENDS Definitions

CONSTANTS
    Request,   \* requests, one-shot; a created item has its request for an id
    Initial,   \* Initial[kind]: the items the workspace begins with
    Files,     \* Files[kind]: the items of the .hcl files of core
    Names,     \* Names[kind]: slugs (hosts of mocks) a request may give
    MaxErrors  \* bound on requests that fail on the way, or die with control

Kind == DOMAIN Initial
Ids(items) == {x.id : x \in Range(items)}
Item == [id : Request \cup UNION {Ids(Initial[k]) : k \in Kind},
         name : UNION {Names[k] : k \in Kind}, on : BOOLEAN, file : {FALSE}]

ASSUME WorkspaceAssumption ==
    /\ Kind = {"mocks", "hosts", "callbacks"}
    /\ Initial \in [Kind -> Seq(Item)] /\ DOMAIN Files = Kind /\ DOMAIN Names = Kind
    /\ \A k \in Kind :
        /\ \A m, n \in DOMAIN Initial[k] : Initial[k][m].id = Initial[k][n].id => m = n
        /\ Ids(Initial[k]) \cap Request = {}
        /\ \A j \in Kind \ {k} : Ids(Initial[k]) \cap Ids(Initial[j]) = {}
        /\ k # "mocks" => \A m, n \in DOMAIN Initial[k] :
                            Slug(Initial[k][m]) = Slug(Initial[k][n]) => m = n
        /\ Files[k] \in Seq(Range(Files[k])) /\ \A x \in Range(Files[k]) : x.file = TRUE
    /\ MaxErrors \in Nat

VARIABLES
    mode,       \* "redis" or "memory", fixed
    doc,        \* doc[kind]: the document
    deployment, \* deployment[kind]: what was deployed last
    request,    \* request[q]
    clobbered,  \* kinds of which a document was replaced by one older (history)
    raced,      \* kinds written on a check that was no longer true (history)
    undeployed, \* the last deployment failed, or raced with a change (history)
    created, deleted, \* ids of answered creations and deletions (history)
    errors

history == <<clobbered, raced, undeployed, created, deleted>>
vars == <<mode, doc, deployment, request, history, errors>>

\* Order in which deploy() reads the documents.
DeployOrder == <<"mocks", "hosts", "callbacks">>

NoRequest == [op |-> "none", kind |-> "none", pc |-> "idle", item |-> <<>>,
              read |-> <<>>, snapshot |-> <<>>, late |-> FALSE, stale |-> FALSE]

Init ==
    /\ mode \in {"redis", "memory"}
    /\ doc = Initial
    /\ deployment = [k \in Kind |-> ToDeploy(k, doc[k])]
    /\ request = [q \in Request |-> NoRequest]
    /\ clobbered = {} /\ raced = {} /\ undeployed = FALSE
    /\ created = {} /\ deleted = {} /\ errors = 0

Listed(k) == doc[k] \o Files[k]

At(q, pc) == request[q].pc = pc
End(r) == [r EXCEPT !.pc = "done", !.read = <<>>, !.snapshot = <<>>, !.late = FALSE, !.stale = FALSE]
Becomes(q, r) == request' = [request EXCEPT ![q] = r]

-----------------------------------------------------------------------------
(* A request up to the write of its document.                              *)

\* Mutant: the slug is compared as it is spelled.
CreateSpelled(q, k, n) ==
    /\ At(q, "idle")
    /\ k # "mocks" => \A x \in Range(doc[k]) : x.name # n
    /\ Becomes(q, [NoRequest EXCEPT !.op = "create", !.kind = k, !.pc = "read",
                     !.item = [id |-> q, name |-> n, on |-> TRUE, file |-> FALSE]])
    /\ UNCHANGED <<mode, doc, deployment, history, errors>>

\* createMock(), createHost(), createCallback(): for the latter two, no item of the
\* workspace may have the slug (one of a file may).
Create(q, k, n) ==
    /\ At(q, "idle")
    /\ k # "mocks" => \A x \in Range(doc[k]) : Slug(x) # Lower[n]
    /\ Becomes(q, [NoRequest EXCEPT !.op = "create", !.kind = k, !.pc = "read",
                     !.item = [id |-> q, name |-> n, on |-> TRUE, file |-> FALSE]])
    /\ UNCHANGED <<mode, doc, deployment, history, errors>>

\* updateMock(), updateHost(), updateCallback(): the item as it is now, changed; the
\* slug stays, the host of a mock may change.
Update(q, k, x, n) ==
    /\ At(q, "idle")
    /\ x \in Range(doc[k])
    /\ k # "mocks" => n = x.name
    /\ Becomes(q, [NoRequest EXCEPT !.op = "update", !.kind = k, !.pc = "read",
                     !.item = [x EXCEPT !.name = n, !.on = ~x.on]])
    /\ UNCHANGED <<mode, doc, deployment, history, errors>>

\* deleteMock(), deleteHost(), deleteCallback() check nothing first.
Delete(q, k, x) ==
    /\ At(q, "idle")
    /\ x \in Range(doc[k])
    /\ Becomes(q, [NoRequest EXCEPT !.op = "delete", !.kind = k, !.pc = "read", !.item = x])
    /\ UNCHANGED <<mode, doc, deployment, history, errors>>

\* Mutant: saveMock() and its like always push.
ApplyPush(r, items) ==
    IF r.op = "delete" THEN Kept(items, {x \in Range(items) : x.id # r.item.id})
    ELSE Append(items, r.item)

\* Mutant: a deletion removes every item of the slug.
ApplyBySlug(r, items) ==
    LET same == {k \in DOMAIN items : items[k].id = r.item.id}
    IN  IF r.op = "delete" THEN Kept(items, {x \in Range(items) : x.name # r.item.name})
        ELSE IF same = {} THEN Append(items, r.item)
        ELSE [k \in DOMAIN items |-> IF k \in same THEN r.item ELSE items[k]]

\* What request r makes of the items it read: saveX() replaces the item in its place
\* or pushes it, deleteX() filters it out.
Apply(r, items) ==
    LET same == {k \in DOMAIN items : items[k].id = r.item.id}
    IN  IF r.op = "delete" THEN Kept(items, {x \in Range(items) : x.id # r.item.id})
        ELSE IF same = {} THEN Append(items, r.item)
        ELSE [k \in DOMAIN items |-> IF k \in same THEN r.item ELSE items[k]]

\* A deletion that finds nothing is refused, of a mock deployed and answered all the same.
Refused(r, items) == r.op = "delete" /\ r.item.id \notin Ids(items)

\* saveX() or deleteX() GETs the document ...
Read(q) ==
    /\ mode = "redis" /\ At(q, "read")
    /\ LET r == request[q] IN
       Becomes(q, CASE ~Refused(r, doc[r.kind]) -> [r EXCEPT !.pc = "write", !.read = doc[r.kind]]
                    [] Refused(r, doc[r.kind]) /\ r.kind = "mocks" -> [r EXCEPT !.pc = "deploy"]
                    [] Refused(r, doc[r.kind]) /\ r.kind # "mocks" -> End(r))
    /\ UNCHANGED <<mode, doc, deployment, history, errors>>

\* Requests that looked at the document before they read it to change it.
Checks(r) == r.op = "update" \/ (r.op = "create" /\ r.kind # "mocks")

\* What a SET of the document of kind k, or of the deployment (k = "none"), makes of
\* the other requests: theirs is no longer the latest look at it.
Overtaken(p, k) ==
    LET r == request[p] IN
    [r EXCEPT !.late = @ \/ (r.pc = "read" /\ r.kind = k /\ Checks(r))
                         \/ (r.pc = "write" /\ r.kind = k)
                         \/ (r.pc \in {"deploy", "put"} /\ r.snapshot # <<>>),
              !.stale = @ \/ (r.pc = "write" /\ r.kind = k)]

Others(q, k, r) == request' = [p \in Request |-> IF p = q THEN r ELSE Overtaken(p, k)]

\* Mutant: a deletion does not deploy.
WriteQuietly(q) ==
    /\ At(q, "write")
    /\ LET r == request[q] IN
       /\ doc' = [doc EXCEPT ![r.kind] = Apply(r, r.read)]
       /\ Others(q, r.kind, IF r.op = "delete" THEN End(r)
                             ELSE [r EXCEPT !.pc = "deploy", !.read = <<>>, !.late = FALSE, !.stale = FALSE])
       /\ clobbered' = clobbered \cup (IF r.stale THEN {r.kind} ELSE {})
       /\ raced' = raced \cup (IF r.late THEN {r.kind} ELSE {})
    /\ UNCHANGED <<mode, deployment, undeployed, created, deleted, errors>>

\* ... and SETs what it makes of it.
Write(q) ==
    /\ At(q, "write")
    /\ LET r == request[q] IN
       /\ doc' = [doc EXCEPT ![r.kind] = Apply(r, r.read)]
       /\ Others(q, r.kind, [r EXCEPT !.pc = "deploy", !.read = <<>>, !.late = FALSE, !.stale = FALSE])
       /\ clobbered' = clobbered \cup (IF r.stale THEN {r.kind} ELSE {})
       /\ raced' = raced \cup (IF r.late THEN {r.kind} ELSE {})
    /\ UNCHANGED <<mode, deployment, undeployed, created, deleted, errors>>

\* In memory the Map changes and the deployment is assembled at once; then it is posted.
SaveInMemory(q) ==
    /\ mode = "memory" /\ At(q, "read")
    /\ LET r == request[q]
           new == [doc EXCEPT ![r.kind] = Apply(r, doc[r.kind])]
           refused == Refused(r, doc[r.kind]) /\ r.kind # "mocks"
       IN  /\ doc' = IF refused THEN doc ELSE new
           /\ IF refused THEN Becomes(q, End(request[q]))
              ELSE Others(q, r.kind,
                     [r EXCEPT !.pc = "put", !.late = FALSE,
                        !.snapshot = [k \in Kind |-> ToDeploy(k, new[k])]])
           /\ raced' = raced \cup (IF r.late /\ ~refused THEN {r.kind} ELSE {})
    /\ UNCHANGED <<mode, deployment, clobbered, undeployed, created, deleted, errors>>

-----------------------------------------------------------------------------
(* The deployment, and the end.                                            *)

\* deploy(): one GET after the other ...
Gather(q) ==
    /\ mode = "redis" /\ At(q, "deploy")
    /\ LET r == request[q]
           done == IF r.snapshot = <<>> THEN {} ELSE DOMAIN r.snapshot
           k == DeployOrder[Cardinality(done) + 1]
           snapshot == [j \in done \cup {k} |-> IF j = k THEN ToDeploy(k, doc[k]) ELSE r.snapshot[j]]
       IN  Becomes(q, [r EXCEPT !.snapshot = snapshot,
                                !.pc = IF DOMAIN snapshot = Kind THEN "put" ELSE "deploy"])
    /\ UNCHANGED <<mode, doc, deployment, history, errors>>

Answered(q) ==
    /\ created' = IF request[q].op = "create" THEN created \cup {q} ELSE created
    /\ deleted' = IF request[q].op = "delete" THEN deleted \cup {request[q].item.id} ELSE deleted

\* ... then the SET (the POST to core), and the answer.
Put(q) ==
    /\ At(q, "put")
    /\ deployment' = request[q].snapshot
    /\ Others(q, "none", End(request[q]))
    /\ undeployed' = request[q].late
    /\ Answered(q)
    /\ UNCHANGED <<mode, doc, clobbered, raced, errors>>

\* An error of deploy() is logged and swallowed: the answer is the same.
DeployFails(q) ==
    /\ request[q].pc \in {"deploy", "put"} /\ errors < MaxErrors
    /\ errors' = errors + 1
    /\ undeployed' = TRUE
    /\ Becomes(q, End(request[q]))
    /\ Answered(q)
    /\ UNCHANGED <<mode, doc, deployment, clobbered, raced>>

\* Redis refuses a command of the change itself, or control dies: no answer of success.
Fails(q) ==
    /\ request[q].pc \notin {"idle", "done"} /\ errors < MaxErrors
    /\ errors' = errors + 1
    /\ undeployed' = (undeployed \/ request[q].pc \in {"deploy", "put"})
    /\ Becomes(q, End(request[q]))
    /\ UNCHANGED <<mode, doc, deployment, clobbered, raced, created, deleted>>

-----------------------------------------------------------------------------
Next ==
    \E q \in Request :
        \/ \E k \in Kind :
            \/ \E n \in Names[k] : Create(q, k, n)
            \/ \E x \in Range(doc[k]) : Delete(q, k, x) \/ \E n \in Names[k] : Update(q, k, x, n)
        \/ Read(q) \/ Write(q) \/ SaveInMemory(q) \/ Gather(q) \/ Put(q)
        \/ DeployFails(q) \/ Fails(q)

Spec == Init /\ [][Next]_vars

-----------------------------------------------------------------------------
\* Every variable has its type, and no document lists an id twice (saveX() finds the
\* item it has, even where two changes race).
TypeOK ==
    /\ mode \in {"redis", "memory"}
    /\ \A k \in Kind :
        /\ Range(doc[k]) \subseteq Item /\ Len(doc[k]) = Cardinality(Ids(doc[k]))
        /\ Range(deployment[k]) \subseteq Item
    /\ \A q \in Request : request[q].pc \in {"idle", "read", "write", "deploy", "put", "done"}
    /\ clobbered \cup raced \subseteq Kind /\ undeployed \in BOOLEAN
    /\ errors \in 0 .. MaxErrors

Here(k, i) == i \in Ids(doc[k])

\* A created item stays until it is deleted, and a deleted one stays away: only with Redis,
\* and only by a document SET over a change it had not read, is the former lost; only an
\* update or such a SET brings back the latter.
ChangesStand ==
    /\ \A q \in created :
        \/ \E p \in Request : request[p].op = "delete" /\ request[p].item.id = q
        \/ Here(request[q].kind, q)
        \/ mode = "redis" /\ request[q].kind \in clobbered
    /\ \A i \in deleted : \A k \in Kind : Here(k, i) => k \in raced

\* Two hosts (or callbacks) of the workspace share a slug only where a change was
\* written after another had overtaken its check.
SlugsUnique ==
    \A k \in Kind \ {"mocks"} :
        k \in raced \/ \A x, y \in Range(doc[k]) : Slug(x) = Slug(y) => x = y

\* With no request under way core has what the documents say, unless the last
\* deployment failed or was assembled while another change was made.
RestIsDeployed ==
    (\A q \in Request : request[q].pc \in {"idle", "done"}) /\ ~undeployed
        => deployment = [k \in Kind |-> ToDeploy(k, doc[k])]

Deployed == deployment = [k \in Kind |-> ToDeploy(k, doc[k])]

\* What the panel says of hosts and callbacks is what core does: without a role, or
\* active, an item is the one core finds by its slug; shadowed, it is not.  A callback is
\* fired by its id where isOverriddenByUi() does not forbid it, and core is told its slug
\* only: core finds an item of the same origin, and the very item unless the panel says
\* that it is in conflict.  (Of two created by racing requests core fires the first.)
PanelTellsSlugs ==
    Deployed => \A k \in Kind \ {"mocks"} :
        LET items == Listed(k)
            core == UniqueBySlug(deployment[k], Files[k])
        IN  \A x \in Range(items) :
              LET role == Role(items, SlugOf(items), x) IN
              /\ role \in {"none", "active"} => FindBySlug(core, x.name) = {x}
              /\ role = "shadowed" => x \notin Range(core) /\ OverriddenByUi(items, x)
              /\ role = "active" => ~OverriddenByUi(items, x)
              /\ ~OverriddenByUi(items, x) =>
                    \E y \in Range(items) :
                        /\ FindBySlug(core, x.name) = {y} /\ y.file = x.file
                        /\ y = x \/ role = "conflict"

ServesMocks == Range(ServingMocks(deployment["mocks"], Files["mocks"],
                                  UniqueBySlug(deployment["hosts"], Files["hosts"])))
EnabledMocks == Kept(Listed("mocks"), {m \in Range(Listed("mocks")) : m.on})

\* Of mocks that spell their hosts alike the panel tells as much: what is not flagged,
\* or is active, serves; what is shadowed does not.
PanelTellsMocks ==
    Deployed => \A m \in Range(EnabledMocks) :
        LET role == Role(EnabledMocks, MockKeyOf(EnabledMocks), m) IN
        /\ role \in {"none", "active"} => m \in ServesMocks
        /\ role = "shadowed" => m \notin ServesMocks

\* ui-mocks/page.tsx: "a mock that can never be reached because another one takes
\* precedence is flagged".  Not where one mock names its host by another spelling, or
\* by its source: core takes them for one, conflictKey() for two.
UnreachableIsFlagged ==
    Deployed => \A m \in Range(EnabledMocks) \ ServesMocks :
        Role(EnabledMocks, MockKeyOf(EnabledMocks), m) # "none"

=============================================================================
