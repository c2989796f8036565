# Mocko, modelled

A TLA+ verification of Mocko (this repository): the modules describe what the
code under `src/` does, TLC checks them on small instances, and TLAPS proves the
properties that matter most for every instance. `PROJECT.json` lists the runs,
the theorems, the source lines each definition stands for, and the hazards of
the code with the properties that watch them.

## 1. The system

| Component | State it keeps | Operations |
|---|---|---|
| **mocko-core, callback scheduler** (`api/callback/callback-scheduler.service.ts`, `callback.redis-repository.ts`, `callback.memory-repository.ts`) | one timer per process (`timer`, `timerAt`, `started`); in Redis a sorted set `callbacks:pending` (by due time) and a hash `callbacks:held`; in memory mode one `Map` | `start`, `stop`, `schedule`, `wake`, `armFromRepository`, `armTimer`; the repository's `schedule`, `list`, `find`, `claimDue`, `claim`, `hold`, `cancel`, `clear`, `nextDueAt` |
| **mocko-core, pending-callback API** (`callback.service.ts`, `callback.controller.ts`) | none of its own | fire, fire pending, hold, cancel, clear, list |
| **mocko-core, delivery** (`callback-delivery.service.ts`) | none: a claimed callback lives in a promise | one POST per callback, or a warning |
| **mocko-core, definitions and deploy** (`definition.provider.ts`, `deploy.service.ts`, `deploy-listener.ts`, `server.ts`) | the cached definitions, a posted definition, hapi's route table, two locks, a revision | deploy, remap, the deploy channel of Redis, build and merge of the definitions |
| **mocko-core, flags** (`api/flag`) | flags with a time to live, in a `Map` or in Redis | set, get, has, delete, list |
| **mocko-core, mocks, proxy, hosts, health** | failure records of mocks | failure registration, proxying |
| **mocko-control, store and services** (`lib/store`, `lib/mock`, `lib/host`, `lib/callback`, `lib/flag`, `lib/conflict`) | one JSON document per kind in Redis (mocks, hosts, callbacks) or one `Map` each, the deployed snapshot | create, update, delete, deploy; conflicts between file and control definitions; listing of flags by SCAN |
| **mocko-control, management operations** (`lib/management`) | per operation a hash, an entry of an index, a list of the flag keys it will purge | prepare (scan), execute, delete; purge of stale or matching flags, migration from v1, purge of the v1 keys |
| **mocko-control, panel** (`app`, `components`, `lib/frontend`) | per tab the answers SWR has cached, and the draft and baseline of a form | refresh, edit, save, toggle, delete, leave |
| **mocko-cli, mocko-sdk, mocko-libs, docs, Helm chart** | none that outlives a call | launcher and file watcher, HTTP client, logger, pages |

How they meet. A mock's template, or an API client, *schedules* a callback: core
writes it to Redis and sets its timer. Any replica of core may later take it out
of Redis, on a timer of its own or for a client that fires, cancels or clears
it, and delivers what it took. Control writes documents to Redis, assembles them
into a deployment and publishes on a channel; every replica of core rebuilds its
definitions and routes when it hears the message. Delivery reads those
definitions again, so a deploy reaches callbacks that are already pending.

What is hard about it:

- *Callbacks.* Several replicas and requests race for one callback; every
  handler is several Redis commands, each an await; the reply of a command may
  be lost after it took effect; a process may die, or be stopped, between taking
  a callback and delivering it; the wakes of one replica overlap, and each of
  them carries a due time that may be stale when it sets the timer. What makes
  it correct: one POST per callback at most; an answer given to a client is
  never belied later; no replica stops looking; no wake sleeps past a callback.
- *Definitions and deploys.* A build that began before a deploy may end after
  it; the channel is not durable; the first build is not under the remap lock; a
  failed remap leaves a load behind. What makes it correct: a replica that is at
  rest serves the last deployment on every route, or there is a named reason why
  not; it never goes back; what it lists is what it serves; no remap gets stuck.
- *Control.* Read-modify-write of whole documents without a lock, slug checks
  before the write, a deployment assembled from several reads, errors of a
  deployment swallowed. The code guards against none of these. What makes it
  correct elsewhere: without a race no acknowledged change disappears, slugs are
  unique, the last state is deployed; and the panel tells which of two
  overlapping items core serves.
- *Operations.* Background runs that outlive the request, deletion while running,
  a process that dies while executing, a status written whose reply is lost, a
  migration that overwrites a document it looked at long before, a save that
  writes back a document it read before the migration. What makes it correct: an
  operation purges what its scan chose, is listed until it is deleted and not
  after, and, but for races and errors that can be named, runs at most once,
  destroys no data that is nowhere else, and ends.
- *Flags.* Two implementations of one promise, lazy removal in one of them, a
  read of its own after each write in the other, where write and read may fail;
  listings while others write.
- *Panel.* A page is refreshed in the background while its user types, and its
  requests outlive it. What makes it correct: unsaved edits are touched by nobody
  else, a save is not undone by a refresh that began before it, a tab that stays
  open comes to show what is stored.

## 2. How the modules compose

    CallbackLifecycle <--implements-- CallbackScheduler, MemoryCallbacks
    FlagStore         <--implements-- CoreFlags
    Definitions --EXTENDS--> Workspace ..deployment..> DeployReload ..known..> CallbackScheduler
    Operations (migrations write the document of mocks that Workspace deploys)
    EditPage ..requests..> Workspace, CoreFlags

The dotted arrows are interfaces, not imports: each module abstracts its
neighbour to what it can do to it. To `Workspace` a deployment is a record that
core would serve when at rest; to `DeployReload` it is a version number that
SET raises; to `CallbackScheduler` the definitions a replica knows are a set
that changes at any time; to `Operations` the documents of a workspace are the
one of mocks, which users save with a GET and a SET as in `Workspace`; to
`EditPage` the server is one item that changes in one step. These interfaces are
chosen by hand, and no theorem relates two modules across one. `DeployReload` and
`CallbackScheduler` let their neighbour do more than it does: any deployment may
come, any definition may come and go. The other two do less than the neighbour:
`Operations` has one save under way at a time and no deletion of mocks, and for
`EditPage` changes of the server do not overlap. Section 6 says what that
leaves out.

## 3. Modules

| Module | What it is |
|---|---|
| `CallbackLifecycle` | The abstract specification: the stages of a callback and who may move it between them. |
| `CallbackScheduler` | Redis mode of core: replicas, wakes, timers, API requests, deliveries, crashes, lost replies. |
| `CallbackInvariant` | The inductive invariant `Safe`. |
| `CallbackSafetyProofs` | Type correctness; where a callback is (`Custody`), at most one POST; `CallbackScheduler` implements `CallbackLifecycle`. |
| `CallbackAnswerProofs` | What clients were told stays true (`Safe` and its consequences); replicas come back, and come back in time. |
| `MemoryCallbacks` | Memory mode of core: one process, one map, a timer that goes idle. |
| `DeployReload` | From a deployment of control, or a post to core, to the routes of each replica. |
| `DeployInvariant`, `DeployReloadProofs` | Its inductive invariant `DeployInv` and the proofs. |
| `Definitions` | Pure: merge, vhost, serving mock (core); conflict roles and what is deployed (control). |
| `Workspace` | The documents of control, changed by concurrent requests, and their deployment. |
| `WorkspaceInvariant`, `WorkspaceProofs` | Its inductive invariant `WorkspaceInv`; the proofs, and lemmas about the operators of `Definitions`. |
| `Operations` | Management operations and their background scans and runs. |
| `OperationsInvariant`, `OperationsProofs` | Its inductive invariant `OperationsInv` and the proofs. |
| `FlagStore` | The abstract specification of flags. |
| `CoreFlags`, `CoreFlagsProofs` | Both repositories of flags and the two listings; types, refinement and listings proved. |
| `EditPage`, `EditPageProofs` | The page of the panel on which one item is edited, in one tab; its inductive invariant `PageInv` and the proofs. |
| `MC...` | Instances for TLC. |

### CallbackScheduler, state

| Variable | Code |
|---|---|
| `zset`, `held` | the members of `callbacks:pending`, the fields of `callbacks:held` |
| `dueIn[i]` | `dueAt - now`, the score of the member, as a countdown |
| `status[r]`, `timer[r]` | `started` and the process; `timer` and `timerAt` as a countdown |
| `wake[r][s]` | a `wake()` of `r` between two awaits and the due time it has peeked |
| `inflight[r]` | promises of `deliver()` not yet at `Wreck.request` |
| `posted`, `dropped`, `taker`, `born` | history: POSTs, warnings, who took a callback out of Redis, ids in use |
| `known[r]` | whether the definitions of `r` have the callback with a usable host |
| `request[q]` | where the handler of request `q` stands, and what it answered |
| `crashes`, `errors` | how much of the bounds on crashes and failing commands is used |

An action is one Redis command or script together with the code that runs until
the next await: Node runs nothing else meanwhile, and Redis executes one command
at a time. Points worth knowing when reading it next to the code:

- Time is a countdown. `dueIn`, `timer` and the due time a wake has peeked run
  down together at `Tick`, so `dueAt <= now` is `dueIn = 0` and nothing grows.
  All replicas share one clock. The delay of a schedule counts from its ZADD:
  what passes between computing `dueAt` and the ZADD makes for a shorter delay,
  which is another member of `Delays`.
- `Wake` joins the reset of the timer, the read of the clock and the claim
  script, which the code runs in this order with only the send in between. A
  schedule that arms the timer between the two joins the behaviours in which it
  arms right after.
- Each command may fail before Redis executes it (`CommandFails`, or the error
  disjuncts of a wake) or after (`lost`): the caller cannot tell, and the model
  keeps both. A client that saw an error may send a new request; that is one
  more `q`.
- A claim is decided by the count of a ZREM or by a script, and the code between
  finding a member and removing it is a step of its own, so everything may
  happen in between.
- The listing may show a callback twice, when a hold moves it between the two
  reads; nothing in the repository says it does not, and no property does.
- `Init` lets Redis hold pending, due and held callbacks of an earlier run.
- Definitions are abstracted to `known[r]`, which `Remap` changes at any time.
  `DeployReload` says when.

Bounds: `Slot` (wakes of one replica at once), one-shot `Request`s, `MaxCrashes`
and `MaxErrors` (both proofs and refinement hold for any), `Delays` and `Cap`.

### MemoryCallbacks

One process, no Redis. `pending` and `held` are the entries of the `Map` without
and with a `heldAt`; `timer`, `inflight`, `posted`, `known` and `request` are as
above. The promises of the repository are settled when they are returned, so a
repository call is one step; a handler is split where it awaits the definitions
and between two calls. A wake is one step: the timeout starts it with nothing
else ready to run, and it awaits nothing but the `Map`. So is the end of a
schedule, from storing to arming. What differs from Redis mode: with nothing
pending the scheduler sets no timer (`ArmFromRepository`), and the end of the
process (`Gone`) empties the `Map`.

### CallbackLifecycle

Both modes are checked, and proved, to implement it: `life` is computed from
where a callback is, `posts` is `posted`. It says what no mode may do: deliver a
held callback without being asked, deliver twice, or bring back a callback that
was cancelled, cleared, delivered or lost.

### DeployReload

| Variable | Code |
|---|---|
| `stored`, `unsent`, `chan[r]` | version of the deployment in Redis, SETs not yet followed by their PUBLISH, messages on the way to a replica |
| `own[r]`, `cache[r]` | `deployDefinition` and `definitions` of `DefinitionProvider` |
| `queue[r]`, `build[r]` | who waits for `getLoadedDefinitions()` under its `@Synchronize`, and `buildDefinitions()` of the one who has it |
| `remaps[r]`, `remapping[r]` | calls of `remapRoutes()` waiting for their lock, and whether the first has it |
| `layers[r]` | the definitions from which the registered routes came: `start()` adds routes to those a remap has already registered |
| `excuse[r]`, `promised[r]`, `used` | history: why the routes may be old, what was answered, bounds |

A definition is a pair of versions, one of Redis and one posted. `excuse` is what
makes the properties sharp: a remap is *overtaken* if, when it clears the cache, a
build is under way that took its input before the input it is to apply; *failed*
if its GET failed; *missed* if the message was lost. `Outdated` decides the first
from the state, at the line where the code goes wrong (the cache is cleared, the
build is not), and nothing else excuses old routes. `TypeOK` includes what the two
locks are for (`LocksHeld`): one remap at a time waits for the definitions, and one
build at a time runs, for the head of their queue. Both locks are taken to be
FIFO, which `@mocko/sync` promises; the library is outside the repository.

### Workspace and Definitions

A request is a creation, update or deletion of an item; its steps are `Read` and
`Write` (the GET and SET of one document), `Gather` (the three GETs of a
deployment, in the order of the code) and `Put`. In memory there is one step that
changes the Map and one that posts. `late` and `stale` record that another
request wrote after this one had looked, from which `raced`, `clobbered` and
`undeployed` say for which documents a race has happened: the properties hold
everywhere else, and say what a race can and cannot do.

An item has an id, a name (its slug; for a mock the host it is scoped to), whether
it is enabled, and whether it comes from a file. `Lower` and `SourceOf` give the
two ways in which core takes different spellings for one. All mocks have one
method and path: what remains is what mocks can compete by. A filter of the code is
`Kept`, a recursive function rather than `SelectSeq`, so that proofs can unfold it.

A callback that the panel lets one fire by its id is fired by its slug in core. Where
two requests that race create one slug, both items are of the panel, neither is
overridden, and core fires the first whichever was asked for; `PanelTellsSlugs` says
that this happens only to an item the panel shows in conflict.

### Operations

`hash`, `index` and `list` are the three keys of an operation; `creating`, `scan`
and `run` say where a creation or deletion, a background scan and a PATCH with
its run stand. Each step is one Redis command. A SCAN returns any keys that are
there, at least once those that stay (`left`). HSET on a deleted operation brings
back a hash without a type: `Seen` is `deserializeOperation`, which takes it for
none. A status is written with one HSET, and DEL of the list follows as a step of
its own (`RunDone`, `RunDrop`; `ScanMark`, `ScanClear` in the catch). Any command of
a request or a job may fail, before its effect or after: a job goes to its catch,
which writes FAILED over whatever the status is, and may fail itself (`ScanFails`,
`RunFails`, `Caught`); a PATCH whose HSET took effect but was not answered starts
nothing (`PatchUnheard`). A user's save of a mock is its GET and its SET
(`SaveRead`, `SaveWrite`), with anything in between. `wanted` says which operations
users ask for in a behaviour and `budget` how many PATCHes, deletions and faults
there may be; both are chosen from `Cases`, so that a run can look at purges and at
migrations without multiplying them.

| History | What it records |
|---|---|
| `overlap`, `spanned` | two migrations were past their look at once; a save was open when a migration wrote |
| `doubled` | operations that two PATCHes had read READY before either wrote EXECUTING |
| `misled` | operations with a job that met an error after it had written READY or DONE |
| `orphans` | operations in a running state that nobody is left to end |

These are the only excuses of `MigrationKeepsData`, `DoneStays` and `RunsEnd`, and
without any one of them TLC finds the property violated.

### CoreFlags and FlagStore

`flags[k]` is the entry that is stored, expired or not; `Look` is what anybody
sees of it. `FlagStore` is the specification a client would write: a flag is gone
the moment its time is up, a write without a lifetime keeps the time that is left,
a restart loses all or nothing, and an error says nothing of whether the write
was done. In Redis mode `set` is a write (`Set`) and a read (`SetAnswer`), which
answers "ok", or "missing" when the flag has gone again; each may fail, the write
or a DEL also after its effect (`SetLost`, `DeleteLost`, `Fails`), and then the
answer is "failed". The refinement maps its flags to `Look`, so lazy removal is a
stutter. A listing is a loop over keys that counts looks (`seen`);
what is answered is a function of these counts. The order of the keys is left
open: the code sorts them in memory mode and takes SCAN's in Redis mode, and no
property depends on which keys come before the limit. From memory the loop is one
step, which ends with the keys it looked at, `looked`: all of them, or as many as
fill the list, the last of them being the one that does.

### EditPage

| Variable | Code |
|---|---|
| `stored` | the content of the item at the server |
| `data`, `error`, `fetch`, `straggler` | SWR's cache entry, its refresh under way, and one that was replaced |
| `open`, `form` | whether the tab is on the page; `form`, `baselineJson` and `pendingNavigation` of the hooks, while the form is mounted |
| `request[q]`, `own` | a save, toggle or deletion between its awaits; those that keep the mounted form submitting |
| `latest`, `confirmed` | history: whose content is stored, and whether the page took the answer |

React renders after every step: `Render` mounts, unmounts, or runs the effect of the
form, which for mocks and flags loads an answer only into a form without edits
(`Sync`) and for hosts and callbacks always (`Reset`). A request goes on when its
form is gone, and may find another one mounted. SWR is outside the repository; what
the model takes from it, for version 2.4: a refresh under way is joined, a `mutate`
with data makes its answer void, an error is kept beside the data whenever it comes,
and dropping the data of an open page starts a refresh in its place. The content is
one value, so a form of several fields that drifts in one of them is not told from
one that drifts in all. A step of the server is one step here; how changes overlap
there is the matter of `Workspace`.

## 4. Runs

| Run | Instance | Checks |
|---|---|---|
| `api` | 1 callback, 2 replicas, 2 requests of any kind but list, 1 crash or stop, 1 failing command; `Cap` 0 | `AtMostOnce`, `CancelIsFinal`, `HeldWaits`, `NotFoundIsFinal`, `OneWinner` |
| `batch` | 2 callbacks, 1 replica, 2 requests of any kind, 1 crash or stop | `ListIsComplete`, `Safe` (the inductive invariant), `ImplementsLifecycle` |
| `timers` | 1 callback, 2 replicas, schedules with delay 0 or 2 and cap 1, 2 overlapping wakes per replica, 1 crash or stop, 1 failing command, fair | `TypeOK`, `AlwaysWakes`, `WakesInTime`, `PendingLeaves` |
| `memory` | 2 callbacks, 3 requests of any kind, delays 0 and 3, cap 2, 1 crash or stop, fair | `TypeOK`, `NeverStranded`, `AnswersStand`, `PendingLeaves`, `ImplementsLifecycle` |
| `deploy` | 1 replica, 2 deployments, 2 posts, 2 faults, 1 reader; with and without Redis, fair | `TypeOK`, `SettledServesLatest`, `ListedIsServed`, `AnsweredIsServed`, `NeverGoesBack`, `RemapsRun` |
| `workspace` | 3 requests on 3 documents, slugs `a` and `A`, a file that defines each kind, 1 failure; both stores | `TypeOK`, `ChangesStand`, `SlugsUnique`, `RestIsDeployed`, `PanelTellsSlugs`, `PanelTellsMocks` |
| `operations` | one purge, with 2 PATCHes, 1 deletion, 1 fault; or a migration and a v1 purge, with 3 PATCHes, or with 2 and a deletion or a fault; 2 flags, batches of 1, fair | `PurgedWasChosen`, `ListedUntilDeleted`, `MigrationKeepsData`, `DoneStays`, `RunsEnd` |
| `flags` | 3 keys (one a prefix of another), 2 writers, 1 listing, lifetime and clock of 1 tick, limit 2, any number of failing commands | `TypeOK`, `ListTells`, `ImplementsFlagStore` |
| `panel` | each kind of item, 2 contents, 2 requests, 1 change by others, 1 failure, fair | `SavedIsShown`, `RefreshKeepsEdits`, `ScreenCatchesUp` |
| `loss` | 1 callback, 1 replica, 1 crash | `NeverLost`, **violated** |
| `stale` | 1 replica, 1 deployment, no fault | `SavedIsLive`, **violated** |
| `unflagged` | 1 request, hosts spelled in any way core accepts | `UnreachableIsFlagged`, **violated** |

Why these bounds are enough to be interesting. A race for a callback needs two
contenders and something else that moves it: two requests, the wakes of two
replicas and a crash give every pair and triple of them (`api`); in that run time
matters only as due or not due, so the delay is one tick and the cap none. What
depends on several callbacks (a claim of two, a clear, a list during a hold, a
due time peeked for another callback) needs two (`batch`). A stale peek needs a
schedule between the peek and the arming, and a cap between the delays
(`timers`, where the stale peek is one that found nothing and stands for the cap).
For any larger instance there are the proofs. For every
property the manifest names a mutation of the code under which the run finds
the property violated: a count that is not looked at, a script split in two, a
timer that is not replaced, a wake that does not arm again.

In `deploy` one replica is enough because replicas share only what control
writes: no action of a replica reads the state of another. The instance with
two replicas and every bound at 1 passes as well. Two deployments and two posts
make an older and a newer one of each kind; two faults let one follow another,
such as a lost message and a failed remap. In `workspace` two requests race and
a third gathers what they leave; the files put every kind in competition with
an item of the panel. In `operations` batches of one make a purge of two flags
two rounds; two PATCHes make a rival of a run, or a migration and a v1 purge, and
three a v1 purge between two migrations that overlap. The `Cases` share the bounds
out because all of them at once are too many states; what a fault does between
three PATCHes, say, only the proofs cover. In `flags` one tick is enough since only "before the end, at it,
after it" matters. In `panel` two contents make an old and a new one, two
requests a save that meets another save, a toggle or a deletion, and one change
by others what a form drifts from.

Fairness (`FairSpec`). Requests, deliveries, crashes and remaps need not happen.
`Tick`: time passes. `TimerFires`, `WakePeek`, `WakeArm`: Node runs a timeout
that has expired and the continuation of an await that has settled; every
command settles, if only with an error. `Exit`: a stop ends in `process.exit`.
`Start`: a process that is down is started again; this is Kubernetes' restart
policy in the Helm chart's deployment, or the watcher of `mocko-cli`, and not
code of core. Only weak fairness is used: each of these steps stays enabled
until it is taken, or the replica goes down, which happens finitely often.
There is no symmetry in a run that checks a liveness property.
`ImplementsLifecycle` is checked under symmetry all the same: the refined
specification is `Init /\ [][Next]_vars`, a safety property, and treats all
callbacks alike.

In `deploy`, `FairSpec` has a remap take its lock when it is free and builds go
on (`RemapBegin`, `LoadStep`): Node runs what is ready, Redis and the file
system answer, if only with an error. In `operations` it has creations, scans
and runs go on while the process lives; a process that dies takes its jobs with
it, an error may come before a job is started or while it writes FAILED, and
`orphans` names the operations this concerns. In `panel` the clock of
the page runs (`Revalidate`, for mocks and flags: the tab is visible and
online), requests are answered or fail, and their continuations run; nobody has
to type or to stay. `workspace` and `flags` check safety only.

Violations. The documentation of callbacks says that with Redis pending
callbacks "survive restarts and are delivered exactly once across replicas"
(`mocko-docs/app/creating-mocks/callbacks/page.tsx:237`). Run `loss` shows a
callback that is claimed and then lost with its replica: it left Redis before
its POST, and nothing brings it back. What holds, and is proved, is at most once.

Of the panel it says "Saving an existing mock applies the change to live traffic
right away" (`mocko-docs/app/creating-mocks/ui-mocks/page.tsx:66`). Run `stale`
shows a deployment whose message finds the first build of a starting replica at
its GET: the remap clears a cache that is empty, waits for that build and is
served its result, and the replica keeps the deployment of before until the next
one. What holds, and is proved, is `SettledServesLatest`.

It also says that "a mock that can never be reached because another one takes
precedence is flagged" (the same page, lines 125 and 126). Run `unflagged` shows
two mocks that core registers for one vhost, one naming the host by its slug and
one by its source (or in capitals): the panel compares the spelling and flags
neither. Among mocks that spell their hosts alike `PanelTellsMocks` holds, and that
is proved.

Several properties hold only because they name what is lost in a race or a failure,
and are worth reading as such: they do not watch that race, they say that nothing
else does the same damage. `ChangesStand`: a SET over a document that another request
has changed since loses that change, and an update under way brings a deleted item
back. `SlugsUnique`: two creations may both find a slug free. `RestIsDeployed`: a
deployment assembled while a change is made may be the one that stays, and one that
failed is not repeated. `MigrationKeepsData`: two migrations that both saw an empty
workspace, with a purge of the v1 keys between them, leave no mocks at all; so does
one migration whose document is overwritten by a save that had read the empty one,
when the v1 keys are then purged. `DoneStays`: an error after DONE was written (its
reply lost, or the DEL of the list failing) turns DONE into FAILED. `RunsEnd`: a
PATCH whose EXECUTING was stored but not answered leaves an operation that executes
for ever. A flag touched between a scan and its purge is purged
(`PurgedWasChosen` has it so), and a callback whose definition goes between the
check and the claim of `firePending` is dropped (`CallbackLifecycle` allows it).
The repository nowhere promises that a race or failure of these kinds does no such
damage, except for the sentence on live traffic quoted above.

## 5. Proofs

All theorems hold for any sets of callbacks, replicas, requests, wakes, keys,
clients, operations and items, and any bounds, from the assumptions named in the
modules (`CallbackScheduler`, `MemoryCallbacks`, `DeployReload`, `CoreFlags`,
`Workspace`, `Operations`, `EditPage`): delays, cap and bounds are naturals, the
kinds of request are known ones, `None` is none of the values it stands beside, and
the documents a workspace begins with have ids and slugs of their own.

| Theorem | States |
|---|---|
| `CallbackSafetyProofs!TypeCorrect` | `[]TypeOK` |
| `CallbackSafetyProofs!PostedAtMostOnce` | `[]AtMostOnce` |
| `CallbackAnswerProofs!SafeAlways` | `[](TypeOK /\ Safe)`, the inductive invariant |
| `CallbackAnswerProofs!CancelledForGood`, `HeldForGood`, `MissingForGood`, `OneIsToldSo`, `ListMissesNothing` | `[]CancelIsFinal`, `[]HeldWaits`, `[]NotFoundIsFinal`, `[]OneWinner`, `[]ListIsComplete` |
| `CallbackAnswerProofs!ReplicaComesBack`, `AcceptedIsCovered` | `[]AlwaysWakes`, `[]WakesInTime` |
| `CallbackSafetyProofs!CallbacksFollowTheirLifecycle` | `Spec => ImplementsLifecycle` |
| `MemoryCallbacksProofs!TypeCorrect`, `IdleStrandsNothing`, `AnswersStandAlways`, `MemoryFollowsTheLifecycle` | the same for memory mode |
| `DeployReloadProofs!InvariantHolds` | `[]DeployInv`, the inductive invariant |
| `DeployReloadProofs!TypeInvariant`, `SettledIsLatest`, `ListedAndServed`, `AnsweredAndServed`, `NoReplicaGoesBack` | `[]TypeOK`, `[]SettledServesLatest`, `[]ListedIsServed`, `[]AnsweredIsServed`, `NeverGoesBack` |
| `CoreFlagsProofs!TypeInvariant`, `FlagStoreImplemented`, `ListingsTell` | `[]TypeOK`, `Spec => ImplementsFlagStore`, `[]ListTells` |
| `WorkspaceProofs!WorkspaceHolds` | `[]WorkspaceInv`, the inductive invariant |
| `WorkspaceProofs!Types`, `ChangesLast`, `SlugsStayUnique`, `DeployedAtRest` | `[]TypeOK`, `[]ChangesStand`, `[]SlugsUnique`, `[]RestIsDeployed` |
| `WorkspaceProofs!PanelToldSlugs`, `PanelToldMocks` | `[]PanelTellsSlugs`, `[](SpelledAlike => PanelTellsMocks)` |
| `OperationsProofs!InvariantHolds` | `[]OperationsInv`, the inductive invariant |
| `OperationsProofs!PurgesWhatWasChosen`, `ThereUntilDeleted`, `NothingIsLost`, `DoneIsDone` | `[]PurgedWasChosen`, `[]ListedUntilDeleted`, `[]MigrationKeepsData`, `DoneStays` |
| `EditPageProofs!PageHolds` | `[]PageInv`, the inductive invariant |
| `EditPageProofs!SaveIsShown`, `EditsSurvive` | `[]SavedIsShown`, `RefreshKeepsEdits` |

The argument for callbacks, in Redis mode. None of the properties is inductive
by itself: that a POST happens once depends on who may hold a callback, and
that an answer stands depends on what the handler saw two steps before it gave
it. `Safe` has three parts.

- *Custody*: a callback is in the sorted set, in the hash, in the hands of one
  replica, or nowhere, never in two of these, and `taker` tells how it left.
  Every action either leaves the store alone or is one of four moves: a new
  member, a hold, a removal (`TakeOut`, which covers claims, cancels, clears and
  wakes alike), a POST. This alone gives `AtMostOnce`, and the stage of a
  callback, from which the refinement follows move by move.
- *Informed*: what the handler of a request may rely on at each of its steps.
  One that did not find the callback in the sorted set may rely on it never
  being there again, because no step brings a callback back (`Evolves`); this is
  where the order of the two reads in `find` and `list` is used. A request that
  makes no step keeps what it knows (`SoundStays`), so one lemma per handler is
  left.
- *SoleWinner*: two requests that were told they took the same callback are one.

The timer needs another invariant, since it relates a time to a time: a request
that accepted a callback has it `Covered`, by a timer early enough, by a wake
that is going to look, or by a wake that has looked and peeked something early
enough. The step that could break it is `WakeArm` with a due time peeked before
the callback was stored; it does not because `armTimer` keeps an earlier timer.

The argument for deployments. The properties speak of a replica at rest, so they
say nothing of the steps that lead there; `DeployInv` does. Its core is one idea
said of four places: whatever may become the routes, be it in the cache, in a build
that has read Redis, in a build that has only taken the posted definition, or in
nobody's hands yet, is not older than what is served now, and is the latest if
nothing is to come (`Quiet`). `OwnGood` and `RedisGood` say this of a version,
`CacheGood`, `BuildGood` and `NowGood` of the places, `RoutesGood` of the outcome.
It is inductive because a deployment or a post always leaves something to come (a
message, a remap, an excuse), and because `RemapBegin`, the only step that makes a
replica quiet, finds either a build with current input or an excuse.
`NeverGoesBack` follows from `InvariantHolds` step by step: only `Give` changes
the routes, and it is given something good.

The argument for flags. `Look(k)` changes only where `FlagStore` says so: a removal
of an expired entry, by a look or by Redis, leaves it as it is, and `Tick` takes
from it what ends now, which no earlier end can be since an end that has passed is
no longer seen. A command that fails after its effect is the write or removal of
`FlagStore` with another answer (`Lost`), one that fails before it, or a read that
fails after the write, is its `Fails`. Type correctness is all the invariant this
needs. Listings need
more: that while SCAN goes on, every key that was there all the time was counted or
is still to come, and the list is not full (`Scanning`, in `FlagsInv`). One look
makes a list longer by one at the most (`OneLonger`), so it never passes the limit.

The argument for the workspace. What a request read, checked or gathered may be out
of date by the time it writes, and the properties excuse exactly that; so
`WorkspaceInv` says, of each place in a request, what still holds unless a later
change is known to it. `LookedOK`: what it read is what is stored. `CheckedOK`: the
slug is still free, the item still there. `GatheredOK`: what it gathered is what
would be gathered now. `StandsOK` and `AwayOK` say of a change that was written but
not answered what `ChangesStand` says of one that was. Each write spoils these facts
for the requests it overtakes, and marks them (`Overtaken`), so one lemma
(`OvertakenOK`) covers everybody else in each step. That no id turns up in a document of
another kind needs `AtHome`. The two theorems about the panel say nothing of steps:
they follow from what a filter returns (`KeptProperties`), from what the first of
a key is (`FirstFound`, `FirstIsOne`), and from items of the workspace coming before
those of files (`UiFirst`). An item that is not the first of its slug, and not
overridden, has one of its own origin before it, and so the role of a conflict
(`RoleIn`). For mocks the hypothesis `SpelledAlike` is what run
`unflagged` shows to be needed: two names that core takes for one virtual host are
one name. It holds throughout run `workspace`.

The argument for operations. Several jobs work on one operation and outlive its
deletion. `Filed` ties hash and index to where the creation or deletion stands;
`Scanned` says that whoever found the operation came after its scan, and finds no
list after the deletion; `Chose` bounds every set of flags by what the scan found;
`Copied` and `Moved` follow the data of a migration through its steps, since a v1
purge is allowed when a migration is `DONE` and that must mean everything was copied;
`Moved` also holds what a save under way has read against what was moved. `Lone` is
what `DoneStays` needs: unless an operation is `doubled` or `misled`, at most one job
works on it, and its status is the one this job wrote or read last.

The argument for the page. A form nobody typed in shows what is cached (`Synced`),
and an answer of a refresh that may still be taken is not older than a save that was
confirmed (`Fresh`): a save makes the refreshes begun before it void, which is the
only thing that keeps them from undoing it.

Every inductive invariant was checked by TLC on the instance of its component's run
before it was proved. What a filter returns for every sequence is induction over
data: the induction theorems of the library cannot be used, but a least
counterexample can (`LeastNat`, from the well-foundedness of the naturals).

Model-checked only: liveness (`PendingLeaves` in both modes, `RemapsRun`,
`RunsEnd`, `ScreenCatchesUp`), which needs fairness and is out of the prover's
reach; `PanelTellsMocks` without its hypothesis, which is false in general; and that
`NeverLost`, `SavedIsLive` and `UnreachableIsFlagged` fail.

## 6. What is not modelled

- Templates, headers, HTTP outcomes of a delivery: the code looks at none of
  them except to log; a template that throws is one of the ways to be dropped.
- Authorisation and validation of payloads: they come before any state changes.
- What the client library does on its own: ioredis resends a command whose
  connection broke. For a ZADD whose member was claimed meanwhile this would
  add the callback a second time, and for a write of a flag it would put the value
  back over a later one. The model sends each command once; and a command that the
  caller was told has failed takes no effect after that.
- Limits inside Redis, such as the Lua stack behind `unpack` in the claim script.
- Clocks that differ between replicas.
- Files of mocks that change while a core process lives: the watcher of the CLI
  restarts the process, which is `Crash` and `Start`.
- `@mocko/sync`, hapi and ioredis themselves: external, taken to be a FIFO lock, a
  route table that refuses a second route of one key, and a client that sends each
  command once.
- Failure records of mocks and the revision counter of core: only the panel shows
  them, no step depends on them.
- The sentinel by which management knows how old the idle times of flags are, and
  the progress counters of operations.
- Lifetimes of flags that are no whole number of milliseconds: Redis refuses their
  PEXPIRE, the code does not look at the replies of its MULTI, and the flag would
  be kept for ever. Nor do replies of a MULTI that are errors for another reason
  occur in `CoreFlags`: its `exec` does all or fails.
- Several control processes: documents are changed in Redis by any of them, which
  is one more request of `Workspace`; operations are modelled with one.
- Beside operations: deletions of mocks by users, saves that overlap each other (the
  matter of `Workspace`), and changes of hosts and callbacks, which no operation
  reads.
- A SCAN that fails while flags are listed: the listing is never told, and changes
  nothing.
- Of the panel: the lists and their filters, pages that create an item, the page of
  operations, dialogs, and forms that are read-only or invalid; and what nothing in
  the repository rules out, although `EditPage` has the steps: an answer that comes
  over unsaved edits of a host or callback, the old host shown once more after its
  save, edits of a mock or flag typed while it is saved, a failed refresh that
  takes the form away, and links of the sidebar that the guard does not see.
- Markup, and the pages of the documentation, which are the larger part of the
  repository's lines: they have no state. The SDK, the launcher of the CLI and the
  proxy keep none that outlives a call. The chart is packaging.
