---------------------------- MODULE EditPageProofs ----------------------------
(***************************************************************************)
(* Theorems about EditPage, for any kinds of page, contents, requests and  *)
(* bounds.                                                                 *)
(***************************************************************************)
EXTENDS EditPage, TLAPS

Content == Value \cup {None}
Fetch == [at : {"idle", "sent", "answered"}, answer : Content, void : BOOLEAN]
Form == [draft : Value, baseline : Value, asking : BOOLEAN]
RequestRecord == [op : {"none", "save", "toggle", "delete"},
                  at : {"idle", "sent", "ok", "failed", "leaving"}, value : Content]

PageOK ==
    /\ open \in BOOLEAN /\ data \in Content /\ error \in BOOLEAN
    /\ fetch \in Fetch /\ straggler \in BOOLEAN

\* There is a form while the page shows one.
FormOK == IF Up THEN form \in Form ELSE form = None

\* A save sends a content, and an answer to it brings one back.
RequestOK ==
    /\ request \in [Request -> RequestRecord] /\ own \subseteq Request
    /\ \A q \in Request :
        /\ request[q].at = "sent" => request[q].op # "none"
        /\ request[q].op = "save" /\ request[q].at \in {"sent", "ok"} => request[q].value \in Value

HistoryOK == latest \in Request \cup {None} /\ confirmed \in BOOLEAN
BoundsOK == changes \in 0 .. MaxChanges /\ requests \in 0 .. MaxRequests /\ failures \in 0 .. MaxFailures

TypeOK == kind \in Kinds /\ stored \in Content /\ PageOK /\ FormOK /\ RequestOK /\ HistoryOK /\ BoundsOK

\* A form nobody typed in shows what is cached.
Synced == Polled /\ Up => (form.draft = form.baseline => form.baseline = data)

\* No answer to a refresh that may still be taken is older than a save that was confirmed.
Fresh ==
    Polled /\ confirmed =>
        /\ data \in {stored, None}
        /\ fetch.at = "answered" /\ ~fetch.void => fetch.answer \in {stored, None}

PageInv == TypeOK /\ Synced /\ Fresh

-----------------------------------------------------------------------------
(* What each way of touching a part of the state leaves of it.             *)

\* A step that has rendered: the form is there when the page shows one, and a form nobody
\* typed in follows what is cached.
LEMMA RenderOK ==
    ASSUME FormOK, NEW f, Up => f \in Form, NEW o, Render(f, o), data' \in Content,
           open \in BOOLEAN, error \in BOOLEAN, kind' = kind
    PROVE  FormOK' /\ Synced'
<1>1. CASE ~Up'
  BY <1>1 DEF Render, FormOK, Synced
<1>2. CASE Up'
  <2>1. data' \in Value
    BY <1>2 DEF Up, Content
  <2>2. CASE ~Up
    <3>1. form' = Loaded(data')
      BY <1>2, <2>2 DEF Render
    <3> QED
      BY <1>2, <2>1, <3>1 DEF Loaded, Form, FormOK, Synced
  <2>3. CASE Up /\ Polled
    <3>1. form' = Sync(f)
      BY <1>2, <2>3 DEF Render
    <3> QED
      BY <1>2, <2>1, <2>3, <3>1 DEF Sync, Form, FormOK, Synced
  <2>4. CASE Up /\ ~Polled
    <3>1. form' = Reset(f)
      BY <1>2, <2>4 DEF Render
    <3>2. ~Polled'
      BY <2>4 DEF Polled
    <3> QED
      BY <1>2, <2>1, <2>4, <3>1, <3>2 DEF Reset, Form, FormOK, Synced
  <2> QED
    BY <2>2, <2>3, <2>4
<1> QED
  BY <1>1, <1>2

LEMMA OwnOK ==
    ASSUME NEW f, NEW o \in SUBSET Request, Render(f, o)
    PROVE  own' \subseteq Request
  BY DEF Render

\* Steps that leave page and form, or all but the asking of the form, alone.
LEMMA FormKept ==
    ASSUME FormOK, Synced, UNCHANGED <<kind, page, form>>
    PROVE  FormOK' /\ Synced'
  BY DEF FormOK, Synced, Up, Polled, page

-----------------------------------------------------------------------------
LEMMA InitOK == Init => PageInv
<1> SUFFICES ASSUME Init PROVE PageInv
  OBVIOUS
<1>1. PageOK /\ kind \in Kinds /\ stored \in Content
  BY DEF Init, PageOK, Fetch, NoFetch, Content
<1>2. FormOK /\ Synced
  BY DEF Init, FormOK, Synced, Up
<1>3. RequestOK
  BY DEF Init, RequestOK, RequestRecord, NoRequest, Content
<1>4. HistoryOK /\ Fresh
  BY DEF Init, HistoryOK, Fresh
<1>5. BoundsOK
  BY EditPageAssumption DEF Init, BoundsOK
<1> QED
  BY <1>1, <1>2, <1>3, <1>4, <1>5 DEF PageInv, TypeOK

\* Refreshes.
LEMMA RefreshStep ==
    ASSUME PageInv, Revalidate \/ ServeFetch \/ Arrive \/ StragglerEnds
    PROVE  PageInv'
<1> USE DEF PageInv, TypeOK
<1>1. CASE Revalidate
  <2>1. PageOK'
    BY <1>1 DEF Revalidate, PageOK, Fetch, NoFetch, Content
  <2>2. FormOK' /\ Synced'
    BY <1>1 DEF Revalidate, FormOK, Synced, Up, Polled
  <2>3. Fresh'
    BY <1>1 DEF Revalidate, Fresh, Polled, NoFetch, history
  <2> QED
    BY <1>1, <2>1, <2>2, <2>3 DEF Revalidate, RequestOK, HistoryOK, BoundsOK, history, bounds
<1>2. CASE ServeFetch
  <2>1. fetch \in Fetch /\ fetch' \in Fetch /\ fetch'.answer \in {stored, None}
    BY <1>2 DEF ServeFetch, PageOK, Fetch, Content
  <2>2. PageOK'
    BY <1>2, <2>1 DEF ServeFetch, PageOK
  <2>3. FormOK' /\ Synced'
    BY <1>2 DEF ServeFetch, FormOK, Synced, Up, Polled
  <2>4. Fresh'
    BY <1>2, <2>1 DEF ServeFetch, Fresh, Polled, history
  <2>5. BoundsOK'
    BY <1>2, EditPageAssumption DEF ServeFetch, BoundsOK
  <2> QED
    BY <1>2, <2>2, <2>3, <2>4, <2>5 DEF ServeFetch, RequestOK, HistoryOK, history
<1>3. CASE Arrive
  <2>1. PageOK'
    BY <1>3 DEF Arrive, PageOK, Fetch, NoFetch, Content
  <2>2. FormOK' /\ Synced'
    BY <1>3, <2>1, RenderOK DEF Arrive, FormOK, PageOK
  <2>3. Fresh'
    BY <1>3 DEF Arrive, Fresh, Polled, NoFetch, history
  <2>4. own' \subseteq Request
    BY <1>3, OwnOK DEF Arrive, RequestOK
  <2> QED
    BY <1>3, <2>1, <2>2, <2>3, <2>4 DEF Arrive, RequestOK, HistoryOK, BoundsOK, history, bounds
<1>4. CASE StragglerEnds
  <2>1. PageOK'
    BY <1>4 DEF StragglerEnds, PageOK
  <2>2. FormOK' /\ Synced'
    BY <1>4, <2>1, RenderOK DEF StragglerEnds, FormOK, PageOK
  <2>3. Fresh'
    BY <1>4 DEF StragglerEnds, Fresh, Polled, history
  <2>4. own' \subseteq Request
    BY <1>4, OwnOK DEF StragglerEnds, RequestOK
  <2>5. BoundsOK'
    BY <1>4, EditPageAssumption DEF StragglerEnds, BoundsOK
  <2> QED
    BY <1>4, <2>1, <2>2, <2>3, <2>4, <2>5 DEF StragglerEnds, RequestOK, HistoryOK, history
<1> QED
  BY <1>1, <1>2, <1>3, <1>4

\* A step of the user that leaves server, refreshes and requests alone.
LEMMA AtTheForm ==
    ASSUME PageInv, UNCHANGED <<kind, stored, request, history, bounds, data, error, fetch, straggler>>,
           open' \in BOOLEAN, own' \subseteq Request, FormOK', Synced'
    PROVE  PageInv'
<1>1. PageOK'
  BY DEF PageInv, TypeOK, PageOK
<1>2. Fresh'
  BY DEF PageInv, Fresh, Polled, history
<1>3. RequestOK' /\ HistoryOK' /\ BoundsOK'
  BY DEF PageInv, TypeOK, RequestOK, HistoryOK, BoundsOK, history, bounds
<1> QED
  BY <1>1, <1>2, <1>3 DEF PageInv, TypeOK

LEMMA LeavingOK ==
    ASSUME PageInv, LeavePage, UNCHANGED <<kind, stored, request, history, bounds>>
    PROVE  PageInv'
<1>1. own' \subseteq Request
  BY OwnOK DEF LeavePage, PageInv, TypeOK, RequestOK
<1>2. FormOK' /\ Synced'
  BY RenderOK DEF LeavePage, PageInv, TypeOK, FormOK, PageOK
<1> QED
  BY <1>1, <1>2, AtTheForm DEF LeavePage

LEMMA UserStep ==
    ASSUME PageInv,
           Open \/ Wander \/ LoadServer \/ Close \/ Discard \/ KeepEditing \/ \E v \in Value : Type(v)
    PROVE  PageInv'
<1> USE DEF PageInv, TypeOK
<1>1. CASE Open
  <2>1. own' \subseteq Request
    BY <1>1, OwnOK DEF Open, RequestOK
  <2>2. FormOK' /\ Synced'
    BY <1>1, RenderOK DEF Open, FormOK, PageOK
  <2> QED
    BY <1>1, <2>1, <2>2, AtTheForm DEF Open
<1>2. CASE Wander \/ Discard
  BY <1>2, LeavingOK DEF Wander, Discard
<1>3. CASE LoadServer
  <2>1. data \in Value /\ Up /\ Up'
    BY <1>3 DEF LoadServer, Editing, Up, PageOK, Content, page
  <2>2. FormOK' /\ Synced'
    BY <1>3, <2>1 DEF LoadServer, FormOK, Form, Loaded, Synced, page
  <2> QED
    BY <1>3, <2>2, AtTheForm DEF LoadServer, page, PageOK, RequestOK
<1>4. CASE Close
  <2>1. CASE Dirty
    <3>1. form' = [form EXCEPT !.asking = TRUE] /\ Up /\ Up' /\ form \in Form
      BY <1>4, <2>1 DEF Close, Editing, Up, page, FormOK
    <3>2. FormOK' /\ Synced'
      BY <1>4, <2>1, <3>1 DEF Close, FormOK, Form, Synced, Polled, page
    <3> QED
      BY <1>4, <2>1, <3>2, AtTheForm DEF Close, page, PageOK, RequestOK
  <2>2. CASE ~Dirty
    BY <1>4, <2>2, LeavingOK DEF Close
  <2> QED
    BY <2>1, <2>2
<1>5. CASE KeepEditing
  <2>1. form' = [form EXCEPT !.asking = FALSE] /\ Up /\ Up' /\ form \in Form
    BY <1>5 DEF KeepEditing, Up, page, FormOK
  <2>2. FormOK' /\ Synced'
    BY <1>5, <2>1 DEF KeepEditing, FormOK, Form, Synced, Polled, page
  <2> QED
    BY <1>5, <2>2, AtTheForm DEF KeepEditing, page, PageOK, RequestOK
<1>6. ASSUME NEW v \in Value, Type(v) PROVE PageInv'
  <2>1. [form EXCEPT !.draft = v] \in Form
    BY <1>6 DEF Type, Editing, FormOK, Form
  <2>2. own' \subseteq Request
    BY <1>6, OwnOK DEF Type, RequestOK
  <2>3. FormOK' /\ Synced'
    BY <1>6, <2>1, RenderOK DEF Type, page, PageOK
  <2> QED
    BY <1>6, <2>2, <2>3, AtTheForm DEF Type, page, PageOK
<1> QED
  BY <1>1, <1>2, <1>3, <1>4, <1>5, <1>6

-----------------------------------------------------------------------------
\* Requests on their way, and changes made by others: page and form stay as they are.
LEMMA AtTheServer ==
    ASSUME PageInv, UNCHANGED <<kind, page, form>>, stored' \in Content,
           ~confirmed' \/ UNCHANGED <<stored, confirmed>>,
           RequestOK', HistoryOK', BoundsOK'
    PROVE  PageInv'
<1>1. PageOK'
  BY DEF PageInv, TypeOK, PageOK, page
<1>2. FormOK' /\ Synced'
  BY FormKept DEF PageInv, TypeOK
<1>3. Fresh'
  BY DEF PageInv, Fresh, Polled, page
<1> QED
  BY <1>1, <1>2, <1>3 DEF PageInv, TypeOK

\* What a request may become, one of its fields at a time.
LEMMA RequestSet ==
    ASSUME RequestOK, NEW q \in Request, NEW r \in RequestRecord,
           r.at = "sent" => r.op # "none",
           r.op = "save" /\ r.at \in {"sent", "ok"} => r.value \in Value,
           request' = [request EXCEPT ![q] = r], own' \subseteq Request
    PROVE  RequestOK'
<1>1. request \in [Request -> RequestRecord]
  BY DEF RequestOK
<1>2. request' \in [Request -> RequestRecord]
  BY <1>1
<1>3. \A p \in Request : p # q => request'[p] = request[p]
  BY <1>1
<1>4. request'[q] = r
  BY <1>1
<1> QED
  BY <1>2, <1>3, <1>4 DEF RequestOK

LEMMA SendStep ==
    ASSUME PageInv, NEW q \in Request, NEW op \in {"save", "toggle", "delete"}, NEW v \in Content,
           op = "save" => v \in Value, Send(q, op, v), own' \subseteq Request
    PROVE  PageInv'
<1> DEFINE r == [op |-> op, at |-> "sent", value |-> v]
<1>1. r \in RequestRecord /\ r.op # "none" /\ (r.op = "save" /\ r.at \in {"sent", "ok"} => r.value \in Value)
  BY DEF RequestRecord
<1>2. RequestOK'
  BY <1>1, RequestSet DEF Send, PageInv, TypeOK
<1>3. BoundsOK'
  BY EditPageAssumption DEF Send, BoundsOK, PageInv, TypeOK
<1> QED
  BY <1>2, <1>3, AtTheServer DEF Send, history, HistoryOK, PageInv, TypeOK

LEMMA SubmitStep ==
    ASSUME PageInv, NEW q \in Request, Submit(q) \/ Toggle(q) \/ Delete(q)
    PROVE  PageInv'
<1>1. CASE Submit(q)
  <2>1. form.draft \in Value
    BY <1>1 DEF Submit, Editing, PageInv, TypeOK, FormOK, Form
  <2> QED
    BY <1>1, <2>1, SendStep DEF Submit, Content
<1>2. CASE Toggle(q)
  BY <1>2, SendStep DEF Toggle, Content, PageInv, TypeOK, RequestOK
<1>3. CASE Delete(q)
  BY <1>3, SendStep DEF Delete, Content, PageInv, TypeOK, RequestOK
<1> QED
  BY <1>1, <1>2, <1>3

\* The change of a request keeps what the history says, or ends it.
LEMMA EffectOK ==
    ASSUME PageInv, NEW q \in Request, request[q].at = "sent", Effect(q)
    PROVE  /\ stored' \in Content /\ HistoryOK'
           /\ ~confirmed' \/ UNCHANGED <<stored, confirmed>>
           /\ request[q].op = "save" => stored' \in Value
<1>1. request[q].op = "save" => request[q].value \in Value
  BY DEF PageInv, TypeOK, RequestOK
<1>2. stored \in Content /\ HistoryOK
  BY DEF PageInv, TypeOK
<1>3. CASE request[q].op = "save"
  BY <1>1, <1>2, <1>3 DEF Effect, HistoryOK, Content
<1>4. CASE request[q].op = "toggle"
  BY <1>2, <1>4 DEF Effect, HistoryOK
<1>5. CASE request[q].op = "delete"
  BY <1>2, <1>5 DEF Effect, HistoryOK, Content
<1> QED
  BY <1>3, <1>4, <1>5 DEF PageInv, TypeOK, RequestOK, RequestRecord

LEMMA AnsweredOK ==
    ASSUME PageInv, NEW q \in Request, NEW at \in {"ok", "failed"}, NEW v \in Content,
           Answered(q, at, v), at = "ok" /\ request[q].op = "save" => v \in Value, UNCHANGED own
    PROVE  RequestOK'
<1>1. request \in [Request -> RequestRecord] /\ own \subseteq Request
  BY DEF PageInv, TypeOK, RequestOK
<1> DEFINE r == [request[q] EXCEPT !.at = at, !.value = v]
<1>2. r \in RequestRecord /\ r.op = request[q].op /\ r.at = at /\ r.value = v
  BY <1>1 DEF RequestRecord
<1>3. request' = [request EXCEPT ![q] = r]
  BY <1>1 DEF Answered
<1> QED
  BY <1>1, <1>2, <1>3, RequestSet DEF PageInv, TypeOK

LEMMA ServeStep ==
    ASSUME PageInv, NEW q \in Request, Serve(q) \/ Missing(q) \/ Lose(q)
    PROVE  PageInv'
<1>1. CASE Serve(q)
  <2>1. /\ stored' \in Content /\ HistoryOK'
        /\ ~confirmed' \/ UNCHANGED <<stored, confirmed>>
        /\ request[q].op = "save" => stored' \in Value
    BY <1>1, EffectOK DEF Serve
  <2>2. RequestOK'
    BY <1>1, <2>1, AnsweredOK DEF Serve
  <2> QED
    BY <1>1, <2>1, <2>2, AtTheServer DEF Serve, bounds, BoundsOK, PageInv, TypeOK
<1>2. CASE Missing(q)
  <2>1. RequestOK'
    BY <1>2, AnsweredOK DEF Missing, Content
  <2> QED
    BY <1>2, <2>1, AtTheServer DEF Missing, history, HistoryOK, bounds, BoundsOK, PageInv, TypeOK
<1>3. CASE Lose(q)
  <2>1. /\ stored' \in Content /\ HistoryOK'
        /\ ~confirmed' \/ UNCHANGED <<stored, confirmed>>
    BY <1>3, EffectOK DEF Lose, history, HistoryOK, PageInv, TypeOK
  <2>2. RequestOK'
    BY <1>3, AnsweredOK DEF Lose, Content
  <2>3. BoundsOK'
    BY <1>3, EditPageAssumption DEF Lose, BoundsOK, PageInv, TypeOK
  <2> QED
    BY <1>3, <2>1, <2>2, <2>3, AtTheServer DEF Lose
<1> QED
  BY <1>1, <1>2, <1>3

LEMMA ElsewhereStep ==
    ASSUME PageInv, NEW v \in Value \cup {None}, Elsewhere(v)
    PROVE  PageInv'
<1>1. BoundsOK'
  BY EditPageAssumption DEF Elsewhere, BoundsOK, PageInv, TypeOK
<1>2. RequestOK' /\ HistoryOK' /\ stored' \in Content /\ ~confirmed'
  BY DEF Elsewhere, RequestOK, HistoryOK, Content, PageInv, TypeOK
<1> QED
  BY <1>1, <1>2, AtTheServer DEF Elsewhere

-----------------------------------------------------------------------------
\* The page ends a request: what it made of the cache, the form and the history is typed,
\* in step, and fresh.
LEMMA AtTheEnd ==
    ASSUME PageInv, UNCHANGED <<kind, stored, bounds>>, PageOK', FormOK', Synced', Fresh',
           RequestOK', HistoryOK'
    PROVE  PageInv'
  BY DEF PageInv, TypeOK, BoundsOK, bounds

LEMMA EndedOK ==
    ASSUME PageInv, NEW q \in Request, Leaving(q) \/ Over(q), own' \subseteq Request
    PROVE  RequestOK'
<1>1. request \in [Request -> RequestRecord]
  BY DEF PageInv, TypeOK, RequestOK
<1>2. CASE Leaving(q)
  <2> DEFINE r == [request[q] EXCEPT !.at = "leaving"]
  <2>1. r \in RequestRecord /\ r.at = "leaving"
    BY <1>1 DEF RequestRecord
  <2>2. request' = [request EXCEPT ![q] = r]
    BY <1>1, <1>2 DEF Leaving
  <2> QED
    BY <2>1, <2>2, RequestSet DEF PageInv, TypeOK
<1>3. CASE Over(q)
  <2>1. NoRequest \in RequestRecord /\ NoRequest.op = "none" /\ NoRequest.at = "idle"
    BY DEF NoRequest, RequestRecord, Content
  <2> QED
    BY <1>3, <2>1, RequestSet DEF Over, PageInv, TypeOK
<1> QED
  BY <1>2, <1>3

\* An answer that confirms a save has what is stored.
LEMMA ConfirmsOK ==
    ASSUME PageInv, NEW q \in Request, Confirms(q)
    PROVE  HistoryOK' /\ (confirmed' => request[q].value = stored)
  BY DEF Confirms, HistoryOK, PageInv, TypeOK

\* The answer is put in the cache, and a refresh under way no longer counts.
LEMMA WriteOK ==
    ASSUME PageInv, NEW v \in Content, Write(v), UNCHANGED <<stored, open>>,
           confirmed' => v = stored
    PROVE  PageOK' /\ Fresh' /\ data' \in Content
<1>1. fetch \in Fetch /\ PageOK
  BY DEF PageInv, TypeOK, PageOK
<1>2. fetch' \in Fetch /\ (fetch'.at = "answered" => fetch'.void)
  BY <1>1 DEF Write, Fetch
<1>3. PageOK'
  BY <1>1, <1>2 DEF Write, PageOK
<1>4. Fresh'
  BY <1>2 DEF Write, Fresh
<1> QED
  BY <1>3, <1>4 DEF PageOK

\* The cache is dropped: nothing older than what is stored is left in it.
LEMMA DropOK ==
    ASSUME PageInv, DropFlags, open' \in BOOLEAN
    PROVE  PageOK' /\ Fresh' /\ data' \in Content
<1>1. PageOK'
  BY DEF DropFlags, PageOK, Fetch, NoFetch, Content, PageInv, TypeOK
<1>2. Fresh'
  BY DEF DropFlags, Fresh, NoFetch
<1> QED
  BY <1>1, <1>2 DEF PageOK

LEMMA SavedStep ==
    ASSUME PageInv, NEW q \in Request, MockSaved(q) \/ FlagSaved(q) \/ HostSaved(q) \/ CallbackSaved(q)
    PROVE  PageInv'
<1> DEFINE v == request[q].value
<1>1. v \in Value
  BY DEF MockSaved, FlagSaved, HostSaved, CallbackSaved, Ends, PageInv, TypeOK, RequestOK
<1>2. FormOK /\ own \subseteq Request /\ open \in BOOLEAN /\ error \in BOOLEAN
  BY DEF PageInv, TypeOK, PageOK, RequestOK
<1>3. CASE MockSaved(q)
  <2> DEFINE f == IF q \in own THEN [form EXCEPT !.draft = v, !.baseline = v] ELSE form
  <2>1. PageOK' /\ Fresh' /\ data' \in Content /\ HistoryOK'
    BY <1>1, <1>3, ConfirmsOK, WriteOK DEF MockSaved, Content
  <2>2. Up => f \in Form
    BY <1>1, <1>2 DEF FormOK, Form
  <2>3. Render(f, own)
    BY <1>3 DEF MockSaved
  <2>4. FormOK' /\ Synced' /\ own' \subseteq Request
    BY <1>2, <1>3, <2>1, <2>2, <2>3, RenderOK, OwnOK DEF MockSaved
  <2>5. RequestOK'
    BY <1>3, <2>4, EndedOK DEF MockSaved
  <2> QED
    BY <1>3, <2>1, <2>4, <2>5, AtTheEnd DEF MockSaved
<1>4. CASE FlagSaved(q)
  <2>1. PageOK' /\ Fresh' /\ data' \in Content /\ HistoryOK'
    BY <1>2, <1>4, ConfirmsOK, DropOK DEF FlagSaved
  <2>2. FormOK' /\ Synced' /\ own' \subseteq Request
    BY <1>2, <1>4, <2>1, RenderOK, OwnOK DEF FlagSaved, FormOK
  <2>3. RequestOK'
    BY <1>4, <2>2, EndedOK DEF FlagSaved
  <2> QED
    BY <1>4, <2>1, <2>2, <2>3, AtTheEnd DEF FlagSaved
<1>5. CASE HostSaved(q) \/ CallbackSaved(q)
  <2>1. UNCHANGED <<kind, stored, page, form, own, bounds>> /\ Leaving(q) /\ Confirms(q) /\ ~Polled'
    BY <1>5 DEF HostSaved, CallbackSaved, Polled
  <2>2. PageOK' /\ Fresh'
    BY <2>1 DEF page, PageOK, Fresh, PageInv, TypeOK
  <2>3. FormOK' /\ Synced'
    BY <2>1, FormKept DEF PageInv, TypeOK
  <2>4. RequestOK' /\ HistoryOK'
    BY <1>2, <2>1, EndedOK, ConfirmsOK
  <2> QED
    BY <2>1, <2>2, <2>3, <2>4, AtTheEnd
<1> QED
  BY <1>3, <1>4, <1>5

LEMMA DoneStep ==
    ASSUME PageInv, NEW q \in Request, Done(q)
    PROVE  PageInv'
<1>1. /\ FormOK /\ own \subseteq Request /\ open \in BOOLEAN /\ error \in BOOLEAN
      /\ PageOK /\ HistoryOK /\ Fresh /\ Synced
  BY DEF PageInv, TypeOK, PageOK, RequestOK
<1>2. CASE MockSaved(q) \/ FlagSaved(q) \/ HostSaved(q) \/ CallbackSaved(q)
  BY <1>2, SavedStep
<1>3. CASE Toggled(q)
  <2>1. request[q].value \in Content
    BY DEF PageInv, TypeOK, RequestOK, RequestRecord
  <2>2. PageOK' /\ Fresh' /\ data' \in Content /\ HistoryOK'
    BY <1>3, <2>1, ConfirmsOK, WriteOK DEF Toggled
  <2>3. FormOK' /\ Synced' /\ own' \subseteq Request
    BY <1>1, <1>3, <2>2, RenderOK, OwnOK DEF Toggled, FormOK
  <2>4. RequestOK'
    BY <1>3, <2>3, EndedOK DEF Toggled
  <2> QED
    BY <1>3, <2>2, <2>3, <2>4, AtTheEnd DEF Toggled
<1>4. CASE Deleted(q) \/ Failed(q)
  <2>1. UNCHANGED <<kind, stored, page, form, history, bounds>> /\ own' \subseteq Request
    BY <1>1, <1>4 DEF Deleted, Failed
  <2>2. RequestOK'
    BY <1>4, <2>1, EndedOK DEF Deleted, Failed
  <2> QED
    BY <1>1, <2>1, <2>2, AtTheServer DEF history, HistoryOK, bounds, BoundsOK, PageInv, TypeOK
<1>5. CASE FlagDeleted(q)
  <2>1. PageOK' /\ Fresh' /\ data' \in Content
    BY <1>5, DropOK DEF FlagDeleted
  <2>2. FormOK' /\ Synced' /\ own' \subseteq Request
    BY <1>1, <1>5, <2>1, RenderOK, OwnOK DEF FlagDeleted, FormOK
  <2>3. RequestOK'
    BY <1>5, <2>2, EndedOK DEF FlagDeleted
  <2> QED
    BY <1>1, <1>5, <2>1, <2>2, <2>3, AtTheEnd DEF FlagDeleted, history, HistoryOK
<1>6. CASE Leave(q)
  <2>1. PageOK' /\ Fresh' /\ data' \in Content
    BY <1>1, <1>6 DEF Leave, LeavePage, PageOK, Fresh, history, Polled
  <2>2. FormOK' /\ Synced' /\ own' \subseteq Request
    BY <1>1, <1>6, <2>1, RenderOK, OwnOK DEF Leave, LeavePage, FormOK
  <2>3. RequestOK'
    BY <1>6, <2>2, EndedOK DEF Leave
  <2> QED
    BY <1>1, <1>6, <2>1, <2>2, <2>3, AtTheEnd DEF Leave, history, HistoryOK
<1> QED
  BY <1>2, <1>3, <1>4, <1>5, <1>6 DEF Done

-----------------------------------------------------------------------------
LEMMA NextStep == PageInv /\ [Next]_vars => PageInv'
<1> SUFFICES ASSUME PageInv, [Next]_vars PROVE PageInv'
  OBVIOUS
<1>1. CASE UNCHANGED vars
  BY <1>1, AtTheServer DEF vars, page, history, HistoryOK, bounds, BoundsOK, RequestOK, PageInv, TypeOK
<1>2. CASE Next
  BY <1>2, RefreshStep, UserStep, SubmitStep, ServeStep, DoneStep, ElsewhereStep DEF Next
<1> QED
  BY <1>1, <1>2

\* The page, its form and its requests are well formed in every state; a form nobody typed
\* in shows what is cached; and once a save of a mock or flag was answered, neither the
\* cache nor a refresh whose answer may still be taken holds older content.
THEOREM PageHolds == Spec => []PageInv
<1>1. Init => PageInv
  BY InitOK
<1>2. PageInv /\ [Next]_vars => PageInv'
  BY NextStep
<1> QED
  BY <1>1, <1>2, PTL DEF Spec

\* Once the page took the answer to a save of a mock or flag, no refresh begun before it
\* brings the old content back, to the cache or to the form, until something else is stored
\* or an older answer comes.
THEOREM SaveIsShown == Spec => []SavedIsShown
<1>1. PageInv => SavedIsShown
  BY DEF PageInv, Synced, Fresh, SavedIsShown, Told, Drift, Dirty, Up
<1> QED
  BY <1>1, PageHolds, PTL

-----------------------------------------------------------------------------
(* Unsaved edits.                                                          *)

\* What renders the page again leaves them, whatever came.
LEMMA EditsRendered ==
    ASSUME Polled, Up, Up', Dirty, NEW o, Render(form, o)
    PROVE  form' = form
  BY DEF Render, Sync, Dirty

Edits == <<form.draft, form.baseline>>

LEMMA EditsKept ==
    ASSUME PageInv, Next, Polled, Up, Up', Dirty,
           ~ \E v \in Value : Type(v), ~LoadServer, ~ \E q \in own : MockSaved(q)
    PROVE  Edits' = Edits
<1> USE DEF Edits
<1>1. form \in Form
  BY DEF PageInv, TypeOK, FormOK
<1>2. CASE Revalidate \/ ServeFetch \/ Arrive \/ StragglerEnds \/ Open
  BY <1>2, EditsRendered DEF Revalidate, ServeFetch, Arrive, StragglerEnds, Open
<1>3. CASE Wander \/ Discard
  BY <1>3 DEF Wander, Discard, LeavePage, Up
<1>4. CASE Close
  BY <1>1, <1>4 DEF Close, LeavePage, Up, Form
<1>5. CASE KeepEditing
  BY <1>1, <1>5 DEF KeepEditing, Form
<1>6. ASSUME NEW q \in Request, Submit(q) \/ Toggle(q) \/ Delete(q) \/ Serve(q) \/ Missing(q) \/ Lose(q)
      PROVE  Edits' = Edits
  BY <1>6 DEF Submit, Toggle, Delete, Send, Serve, Missing, Lose
<1>7. ASSUME NEW q \in Request, Done(q)
      PROVE  Edits' = Edits
  <2>1. CASE MockSaved(q)
    <3>1. q \notin own
      BY <2>1
    <3> QED
      BY <2>1, <3>1, EditsRendered DEF MockSaved
  <2>2. CASE FlagSaved(q) \/ Toggled(q) \/ FlagDeleted(q)
    BY <2>2, EditsRendered DEF FlagSaved, Toggled, FlagDeleted
  <2>3. CASE HostSaved(q) \/ CallbackSaved(q) \/ Deleted(q) \/ Failed(q)
    BY <2>3 DEF HostSaved, CallbackSaved, Deleted, Failed
  <2>4. CASE Leave(q)
    BY <2>4 DEF Leave, LeavePage, Up
  <2> QED
    BY <1>7, <2>1, <2>2, <2>3, <2>4 DEF Done
<1>8. ASSUME NEW v \in Value \cup {None}, Elsewhere(v)
      PROVE  Edits' = Edits
  BY <1>8 DEF Elsewhere
<1> QED
  BY <1>2, <1>3, <1>4, <1>5, <1>6, <1>7, <1>8 DEF Next

\* While the form of a mock or flag stays on the screen, no refresh and no answer but the
\* one to its own save changes what was typed into it or what that is based on.
THEOREM EditsSurvive == Spec => RefreshKeepsEdits
<1> DEFINE A == (Polled /\ Up /\ Up' /\ Dirty
                   /\ <<form.draft, form.baseline>>' # <<form.draft, form.baseline>>)
                 => \/ \E v \in Value : Type(v)
                    \/ LoadServer
                    \/ \E q \in own : MockSaved(q)
<1>1. PageInv /\ [Next]_vars => [A]_vars
  BY EditsKept DEF Edits
<1> QED
  BY <1>1, PageHolds, PTL DEF Spec, RefreshKeepsEdits

=============================================================================
