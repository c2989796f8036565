------------------------------- MODULE EditPage -------------------------------
(***************************************************************************)
(* The page of mocko-control's panel on which one mock, flag, host or      *)
(* callback is edited, in one browser tab: the answer SWR caches and       *)
(* refreshes in the background, the form the user types into, and the      *)
(* requests the page sends, while others change the item.                  *)
(*                                                                         *)
(* The content of the item is one value; what is not in the form (whether  *)
(* a mock is enabled, its conflicts) is left out, and so are forms that    *)
(* are read-only, or invalid and thus never sent.  What SWR does with an   *)
(* answer is modelled from its version 2.4, which the panel depends on.    *)
(***************************************************************************)
EXTENDS Naturals

CONSTANTS
    Kinds,       \* the kinds of page, of "mocks", "flags", "hosts", "callbacks"
    Value,       \* contents
    Request,     \* requests of the page that may be under way together
    None,
    MaxChanges,  \* bound on changes made by others
    MaxRequests, \* bound on requests of the page
    MaxFailures  \* bound on requests and refreshes that fail on the way

ASSUME EditPageAssumption ==
    /\ Kinds \subseteq {"mocks", "flags", "hosts", "callbacks"}
    /\ None \notin Value
    /\ MaxChanges \in Nat /\ MaxRequests \in Nat /\ MaxFailures \in Nat

VARIABLES
    kind,      \* the kind of page, fixed
    stored,    \* the content at the server, None once deleted
    open,      \* the tab is on the page
    data,      \* the content SWR has cached
    error,     \* SWR's last refresh failed
    fetch,     \* [at, answer, void]: the refresh under way; void: its answer is not to be used
    straggler, \* a refresh that another one replaced is still under way
    form,      \* [draft, baseline, asking] of the form on the screen, or None
    request,   \* request[q]: [op, at, value], value is what a save sends, then the answer
    own,       \* the requests that keep the form on the screen submitting
    latest,    \* the request that wrote what is stored (history)
    confirmed, \* it was answered, and nothing was stored since (history)
    changes, requests, failures

page == <<open, data, error, fetch, straggler>>
history == <<latest, confirmed>>
bounds == <<changes, requests, failures>>
vars == <<kind, stored, page, form, request, own, history, bounds>>

\* Mocks and flags are refreshed by the clock; hosts and callbacks as the page opens
\* or the network comes back.
Polled == kind \in {"mocks", "flags"}

NoFetch == [at |-> "idle", answer |-> None, void |-> FALSE]
NoRequest == [op |-> "none", at |-> "idle", value |-> None]

Init ==
    /\ kind \in Kinds
    /\ stored \in Value
    /\ open = FALSE /\ data = None /\ error = FALSE
    /\ fetch = NoFetch /\ straggler = FALSE
    /\ form = None
    /\ request = [q \in Request |-> NoRequest]
    /\ own = {}
    /\ latest = None /\ confirmed = FALSE
    /\ changes = 0 /\ requests = 0 /\ failures = 0

-----------------------------------------------------------------------------
(* What is on the screen.                                                  *)

\* The page shows its form unless it loads or its last refresh failed.
Up == open /\ data # None /\ ~error

Dirty == form.draft # form.baseline

\* hasServerDrift: the notice that the item changed on the server.
Drift == Dirty /\ data # form.baseline

Loaded(v) == [draft |-> v, baseline |-> v, asking |-> FALSE]

\* Mutant: what was typed is taken for an edit of what came.
SyncRebased(f) ==
    IF f.draft = f.baseline THEN [f EXCEPT !.draft = data', !.baseline = data']
                            ELSE [f EXCEPT !.baseline = data']

\* The effect of useMockForm (and FlagForm): a form nobody typed in follows the server.
Sync(f) ==
    IF f.draft = f.baseline THEN [f EXCEPT !.draft = data', !.baseline = data'] ELSE f

\* The effect of useHostForm (and useCallbackForm): any new answer is loaded.
Reset(f) == IF data' = data THEN f ELSE [f EXCEPT !.draft = data', !.baseline = data']

\* React renders what the step leaves: a form that was up gets f and keeps the
\* submissions o of its own; one that was not is mounted anew.
Render(f, o) ==
    /\ form' = CASE ~Up' -> None
                 [] Up' /\ ~Up -> Loaded(data')
                 [] Up' /\ Up /\ Polled -> Sync(f)
                 [] Up' /\ Up /\ ~Polled -> Reset(f)
    /\ own' = IF Up' /\ Up THEN o ELSE {}

-----------------------------------------------------------------------------
(* Refreshes.                                                              *)

\* Mutant: no refresh while there are unsaved edits.
RevalidateClean ==
    /\ open /\ fetch.at = "idle"
    /\ ~(Up /\ Dirty)
    /\ fetch' = [NoFetch EXCEPT !.at = "sent"]
    /\ UNCHANGED <<kind, stored, open, data, error, straggler, form, request, own, history, bounds>>

\* useMock(), useFlag(), useHost(), useCallbackDefinition(): by the clock, on focus or
\* reconnect, to retry, or as the page opens; SWR joins one that is under way.
Revalidate ==
    /\ open /\ fetch.at = "idle"
    /\ fetch' = [NoFetch EXCEPT !.at = "sent"]
    /\ UNCHANGED <<kind, stored, open, data, error, straggler, form, request, own, history, bounds>>

\* GET of the item; a missing one is answered 404, an error as any other.
ServeFetch ==
    /\ fetch.at = "sent"
    /\ \/ fetch' = [fetch EXCEPT !.at = "answered", !.answer = stored]
          /\ UNCHANGED failures
       \/ /\ failures < MaxFailures
          /\ failures' = failures + 1
          /\ fetch' = [fetch EXCEPT !.at = "answered", !.answer = None]
    /\ UNCHANGED <<kind, stored, open, data, error, straggler, form, request, own, history,
                   changes, requests>>

\* SWR takes an answer unless the cache was written since its refresh began; it keeps
\* the data beside an error, and an error counts whenever it comes.
Arrive ==
    /\ fetch.at = "answered"
    /\ error' = (fetch.answer = None)
    /\ data' = IF fetch.answer = None \/ fetch.void THEN data ELSE fetch.answer
    /\ fetch' = NoFetch
    /\ UNCHANGED open
    /\ Render(form, own)
    /\ UNCHANGED <<kind, stored, straggler, request, history, bounds>>

\* A refresh that another replaced: its answer is dropped, its error is not.
StragglerEnds ==
    /\ straggler
    /\ straggler' = FALSE
    /\ \/ UNCHANGED <<error, failures>>
       \/ /\ stored = None
          /\ error' = TRUE
          /\ UNCHANGED failures
       \/ /\ failures < MaxFailures
          /\ failures' = failures + 1
          /\ error' = TRUE
    /\ UNCHANGED <<open, data, fetch>>
    /\ Render(form, own)
    /\ UNCHANGED <<kind, stored, request, history, changes, requests>>

\* mutate(key, v, { revalidate: false }): the refresh under way is void.
Write(v) ==
    /\ data' = v
    /\ error' = FALSE
    /\ fetch' = IF fetch.at = "idle" THEN fetch ELSE [fetch EXCEPT !.void = TRUE]
    /\ UNCHANGED straggler

\* revalidateFlagCaches(): the flags are dropped from the cache, and the one of an open
\* page is fetched at once, in place of a refresh under way.
DropFlags ==
    /\ data' = None
    /\ error' = FALSE
    /\ fetch' = IF open THEN [NoFetch EXCEPT !.at = "sent"] ELSE NoFetch
    /\ straggler' = (straggler \/ fetch.at # "idle")

-----------------------------------------------------------------------------
(* The user at the form, and the way out of the page.                      *)

\* The user comes to the page: what is cached is shown at once.
Open ==
    /\ ~open
    /\ open' = TRUE
    /\ UNCHANGED <<data, error, fetch, straggler>>
    /\ Render(form, own)
    /\ UNCHANGED <<kind, stored, request, history, bounds>>

LeavePage ==
    /\ open' = FALSE
    /\ UNCHANGED <<data, error, fetch, straggler>>
    /\ Render(form, own)

\* A link of the sidebar, or the browser's back button: the guard does not see it.
Wander ==
    /\ open
    /\ LeavePage
    /\ UNCHANGED <<kind, stored, request, history, bounds>>

\* The form has the keyboard: no dialog is open.
Editing == Up /\ ~form.asking

\* set(): while a form is submitting its fields are disabled, the code editor is not;
\* the form of a host has none.  Edits that are undone give way to what drifted.
Type(v) ==
    /\ Editing
    /\ kind = "hosts" => own = {}
    /\ v # form.draft
    /\ UNCHANGED page
    /\ Render([form EXCEPT !.draft = v], own)
    /\ UNCHANGED <<kind, stored, request, history, bounds>>

\* loadServerValue(), from the notice.
LoadServer ==
    /\ Editing /\ Polled /\ Drift
    /\ form' = Loaded(data)
    /\ UNCHANGED <<kind, stored, page, request, own, history, bounds>>

\* navigateWithGuard()
Close ==
    /\ Editing
    /\ IF Dirty THEN form' = [form EXCEPT !.asking = TRUE] /\ UNCHANGED <<page, own>>
                ELSE LeavePage
    /\ UNCHANGED <<kind, stored, request, history, bounds>>

\* confirmDiscard()
Discard ==
    /\ Up /\ form.asking
    /\ LeavePage
    /\ UNCHANGED <<kind, stored, request, history, bounds>>

\* keepEditing()
KeepEditing ==
    /\ Up /\ form.asking
    /\ form' = [form EXCEPT !.asking = FALSE]
    /\ UNCHANGED <<kind, stored, page, request, own, history, bounds>>

-----------------------------------------------------------------------------
(* Requests of the page.                                                   *)

Send(q, op, v) ==
    /\ request[q].at = "idle" /\ requests < MaxRequests
    /\ request' = [request EXCEPT ![q] = [op |-> op, at |-> "sent", value |-> v]]
    /\ requests' = requests + 1
    /\ UNCHANGED <<kind, stored, page, form, history, changes, failures>>

\* handleSubmit() up to its first await.  The button of a mock or flag is off while
\* nothing was changed; that of a host or callback is not.
Submit(q) ==
    /\ Editing /\ own = {}
    /\ Polled => Dirty
    /\ Send(q, "save", form.draft)
    /\ own' = {q}

\* handleToggleEnabled() up to its await: the form stays as it is.
Toggle(q) ==
    /\ kind = "mocks" /\ Editing
    /\ Send(q, "toggle", None)
    /\ UNCHANGED own

\* handleDeleteConfirm() up to its first await; FlagForm counts it as a submission.
Delete(q) ==
    /\ kind # "hosts" /\ Editing
    /\ kind = "flags" => own = {}
    /\ Send(q, "delete", None)
    /\ own' = IF kind = "flags" THEN {q} ELSE own

\* The change the server makes for q: a save of a flag creates it, any other save
\* needs the item.
Effect(q) ==
    LET r == request[q] IN
    /\ r.op \in {"save", "toggle"} => kind = "flags" \/ stored # None
    /\ CASE r.op = "save" -> stored' = r.value /\ latest' = q /\ confirmed' = FALSE
         [] r.op = "toggle" -> UNCHANGED <<stored, latest, confirmed>>
         [] r.op = "delete" -> stored' = None /\ latest' = None /\ confirmed' = FALSE

Answered(q, at, v) ==
    request' = [request EXCEPT ![q] = [@ EXCEPT !.at = at, !.value = v]]

\* PATCH, PUT or DELETE of the item.  A PATCH of a mock answers with the whole mock.
Serve(q) ==
    /\ request[q].at = "sent"
    /\ Effect(q)
    /\ kind = "callbacks" /\ request[q].op = "delete" => stored # None
    /\ Answered(q, "ok", stored')
    /\ UNCHANGED <<kind, page, form, own, bounds>>

\* 404
Missing(q) ==
    /\ request[q].at = "sent" /\ stored = None
    /\ kind # "flags"
    /\ request[q].op = "delete" => kind = "callbacks"
    /\ Answered(q, "failed", None)
    /\ UNCHANGED <<kind, stored, page, form, own, history, bounds>>

\* The request or its answer is lost, or the server fails before or after the change.
Lose(q) ==
    /\ request[q].at = "sent" /\ failures < MaxFailures
    /\ failures' = failures + 1
    /\ Effect(q) \/ UNCHANGED <<stored, history>>
    /\ Answered(q, "failed", None)
    /\ UNCHANGED <<kind, page, form, own, changes, requests>>

Ends(q, op) == request[q].at = "ok" /\ request[q].op = op
Over(q) == request' = [request EXCEPT ![q] = NoRequest]
Leaving(q) == request' = [request EXCEPT ![q].at = "leaving"]

\* An answer that is older than what is stored ends what confirmed says.
Confirms(q) ==
    /\ latest' = latest
    /\ confirmed' = (request[q].value = stored /\ (confirmed \/ latest = q))

\* Mutant: the saved mock is put in the form, not in the cache.
MockSavedFormOnly(q) ==
    /\ kind = "mocks" /\ Ends(q, "save")
    /\ UNCHANGED page
    /\ Render(IF q \in own THEN [form EXCEPT !.draft = request[q].value,
                                             !.baseline = request[q].value]
                           ELSE form, own)
    /\ Leaving(q) /\ Confirms(q)
    /\ UNCHANGED <<kind, stored, bounds>>

\* handleSubmit() of useMockForm after the PATCH: the answer is cached and loaded, then
\* the list is awaited.  The form may be another than the one that sent it.
MockSaved(q) ==
    /\ kind = "mocks" /\ Ends(q, "save")
    /\ Write(request[q].value) /\ UNCHANGED open
    /\ Render(IF q \in own THEN [form EXCEPT !.draft = request[q].value,
                                             !.baseline = request[q].value]
                           ELSE form, own)
    /\ Leaving(q) /\ Confirms(q)
    /\ UNCHANGED <<kind, stored, bounds>>

\* handleSubmit() of FlagForm after the PUT: the answer is cached and at once dropped, the
\* page has nothing to show until the flag is fetched again, and the form goes, with what
\* was typed meanwhile.
FlagSaved(q) ==
    /\ kind = "flags" /\ Ends(q, "save")
    /\ DropFlags /\ UNCHANGED open
    /\ Render(form, own \ {q})
    /\ Over(q) /\ Confirms(q)
    /\ UNCHANGED <<kind, stored, bounds>>

\* handleSubmit() of useHostForm after the PATCH: the host in the cache stays the old one.
HostSaved(q) ==
    /\ kind = "hosts" /\ Ends(q, "save")
    /\ Leaving(q) /\ Confirms(q)
    /\ UNCHANGED <<kind, stored, page, form, own, bounds>>

\* handleSubmit() of useCallbackForm, likewise.
CallbackSaved(q) ==
    /\ kind = "callbacks" /\ Ends(q, "save")
    /\ Leaving(q) /\ Confirms(q)
    /\ UNCHANGED <<kind, stored, page, form, own, bounds>>

\* handleToggleEnabled() after the PATCH: its answer is cached.
Toggled(q) ==
    /\ Ends(q, "toggle")
    /\ Write(request[q].value) /\ UNCHANGED open
    /\ Render(form, own)
    /\ Over(q) /\ Confirms(q)
    /\ UNCHANGED <<kind, stored, bounds>>

\* handleDeleteConfirm() of a mock or callback after the DELETE: the list is awaited.
Deleted(q) ==
    /\ kind \in {"mocks", "callbacks"} /\ Ends(q, "delete")
    /\ Leaving(q)
    /\ UNCHANGED <<kind, stored, page, form, own, history, bounds>>

\* handleDelete(), handleDeleteConfirm() of FlagForm after the DELETE.
FlagDeleted(q) ==
    /\ kind = "flags" /\ Ends(q, "delete")
    /\ DropFlags /\ open' = FALSE
    /\ Render(form, own)
    /\ Over(q)
    /\ UNCHANGED <<kind, stored, history, bounds>>

\* The catch: a message, and the form may be submitted again.
Failed(q) ==
    /\ request[q].at = "failed"
    /\ Over(q)
    /\ own' = own \ {q}
    /\ UNCHANGED <<kind, stored, page, form, history, bounds>>

\* router.push() once the list was fetched, wherever the tab is by then.
Leave(q) ==
    /\ request[q].at = "leaving"
    /\ LeavePage
    /\ Over(q)
    /\ UNCHANGED <<kind, stored, history, bounds>>

\* Another tab, the SDK, a mock or the lifetime of a flag changes or deletes the item;
\* only a flag comes back under its key.
Elsewhere(v) ==
    /\ changes < MaxChanges
    /\ v # stored
    /\ stored = None => kind = "flags"
    /\ changes' = changes + 1
    /\ stored' = v /\ latest' = None /\ confirmed' = FALSE
    /\ UNCHANGED <<kind, page, form, request, own, requests, failures>>

Done(q) ==
    \/ MockSaved(q) \/ FlagSaved(q) \/ HostSaved(q) \/ CallbackSaved(q)
    \/ Toggled(q) \/ Deleted(q) \/ FlagDeleted(q)
    \/ Failed(q) \/ Leave(q)

Next ==
    \/ Revalidate \/ ServeFetch \/ Arrive \/ StragglerEnds
    \/ Open \/ Wander \/ LoadServer \/ Close \/ Discard \/ KeepEditing
    \/ \E v \in Value : Type(v)
    \/ \E q \in Request :
          \/ Submit(q) \/ Toggle(q) \/ Delete(q)
          \/ Serve(q) \/ Missing(q) \/ Lose(q) \/ Done(q)
    \/ \E v \in Value \cup {None} : Elsewhere(v)

Spec == Init /\ [][Next]_vars

\* The clock runs while the tab is visible and online, and the server answers, or the
\* browser gives up.  The user need not do anything.
FairSpec ==
    /\ Spec
    /\ WF_vars(Polled /\ Revalidate) /\ WF_vars(ServeFetch) /\ WF_vars(Arrive)
    /\ WF_vars(StragglerEnds)
    /\ \A q \in Request : WF_vars(Serve(q) \/ Missing(q)) /\ WF_vars(Done(q))

-----------------------------------------------------------------------------

\* As long as the form of a mock or flag is on the screen, unsaved edits, and what they
\* are edits of, are changed by the user and by the answer to their save alone: no
\* refresh, nor the answer to a toggle, takes them for its own.
RefreshKeepsEdits ==
    [][(Polled /\ Up /\ Up' /\ Dirty
          /\ <<form.draft, form.baseline>>' # <<form.draft, form.baseline>>)
        => \/ \E v \in Value : Type(v)
           \/ LoadServer
           \/ \E q \in own : MockSaved(q)]_vars

\* What a form says its edits are based on is what is stored, or it says otherwise.
Told == Up => form.baseline = stored \/ Drift

\* Once the page took the answer to a save of a mock or flag, no refresh begun before it
\* brings the old content back, to the cache or to the form: not until something else is
\* stored, or an older answer to another request of the page comes.
SavedIsShown == Polled /\ confirmed => data \in {stored, None} /\ Told

\* A tab left on the page of a mock or flag that exists comes to show it, whatever was
\* typed or lost before: the edits are of what is stored, or the page says they are not.
ScreenCatchesUp ==
    Polled /\ <>[]open => <>[](stored # None => Up /\ data = stored /\ Told)

=============================================================================
