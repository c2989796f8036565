----------------------------- MODULE Definitions -----------------------------
(***************************************************************************)
(* What mocko-core makes of a deployment and its files, and what the panel *)
(* of mocko-control says about the same items: which serve, which are      *)
(* shadowed, which conflict.                                               *)
(*                                                                         *)
(* An item is [id, name, on, file].  For hosts and callbacks name is the   *)
(* slug and "on" the editable rest; for mocks name is the host the mock is *)
(* scoped to and "on" is isEnabled.  All mocks have one method and path:   *)
(* mocks compete by their host only.                                       *)
(***************************************************************************)
EXTENDS Naturals, FiniteSetsExt, SequencesExt

CONSTANTS
    Lower,    \* Lower[n]: n.toLowerCase(), for every slug, host and source n
    SourceOf, \* SourceOf[s]: the source (domain) of the host whose slug lowers to s
    NoHost    \* the host of a mock that names none

\* filter(): what is in S, in order.  A recursive function, which proofs can expand.
Kept(items, S) ==
    LET kept[n \in 0 .. Len(items)] ==
            IF n = 0 THEN <<>>
            ELSE IF items[n] \in S THEN Append(kept[n - 1], items[n]) ELSE kept[n - 1]
    IN  kept[Len(items)]

-----------------------------------------------------------------------------
(* mocko-core.                                                             *)

\* uniqueBySlug(): the items whose key no earlier item has, in order.
FirstByKey(items, key) ==
    LET first == {k \in DOMAIN items :
                    \A j \in 1 .. k - 1 : key[items[j]] # key[items[k]]}
        order == Kept([k \in DOMAIN items |-> k], first)
    IN  [k \in DOMAIN order |-> items[order[k]]]

Slug(item) == Lower[item.name]
SlugOf(items) == [x \in Range(items) |-> Slug(x)]

\* Mutant: file items come first.
UniqueFilesFirst(deployed, files) ==
    FirstByKey(files \o deployed, SlugOf(files \o deployed))

\* mergeDefinitions(): deployed items come before file items.
UniqueBySlug(deployed, files) ==
    FirstByKey(deployed \o files, SlugOf(deployed \o files))

\* findHostBySlugOrSource() and resolveVhost().
Vhost(name, hosts) ==
    LET hits == {k \in DOMAIN hosts :
                    \/ Slug(hosts[k]) = Lower[name]
                    \/ SourceOf[Slug(hosts[k])] = Lower[name]}
    IN  CASE name = NoHost -> NoHost
          [] name # NoHost /\ hits = {} -> Lower[name]
          [] name # NoHost /\ hits # {} -> SourceOf[Slug(hosts[Min(hits)])]

\* The mocks that are on and the first of their virtual host.
FirstByVhost(mocks, hosts) ==
    FirstByKey(Kept(mocks, {m \in Range(mocks) : m.on}),
               [m \in Range(mocks) |-> Vhost(m.name, hosts)])

\* Mutant: the mocks of files are registered first.
ServingFilesFirst(deployed, files, hosts) ==
    FirstByVhost(files \o deployed, hosts)

\* getMockRoutes() in registration order: hapi refuses a route that is there already.
ServingMocks(deployed, files, hosts) ==
    FirstByVhost(deployed \o files, hosts)

\* findCallbackBySlug()
FindBySlug(items, slug) == {x \in Range(items) : Slug(x) = Lower[slug]}

-----------------------------------------------------------------------------
(* mocko-control.                                                          *)

\* computeConflicts(): the role of each item that shares its key with another.
Role(items, key, x) ==
    LET group == {y \in Range(items) : key[y] = key[x]}
        ui == {y \in group : ~y.file}
    IN  CASE Cardinality(group) = 1 -> "none"
          [] Cardinality(group) = 2 /\ Cardinality(ui) = 1 ->
                IF x.file THEN "shadowed" ELSE "active"
          [] OTHER -> "conflict"

\* conflictKey() of mocks: the host as it is spelled.
MockKeyOf(mocks) == [m \in Range(mocks) |-> m.name]

\* isOverriddenByUi()
OverriddenByUi(items, x) ==
    x.file /\ \E y \in Range(items) : ~y.file /\ Slug(y) = Slug(x)

\* toDeployDefinition(): disabled mocks are not deployed.
ToDeploy(kind, items) ==
    IF kind = "mocks" THEN Kept(items, {m \in Range(items) : m.on}) ELSE items

=============================================================================
