-------------------------- MODULE CallbackLifecycle --------------------------
(***************************************************************************)
(* What mocko-core promises about one pending callback, whoever drives it: *)
(* the scheduler of some replica, an API request, or a replica that dies.  *)
(*                                                                         *)
(*   unborn -> pending -> held                                             *)
(*                 \       /                                               *)
(*                  claimed -> posted                                      *)
(*                                                                         *)
(* and from pending, held or claimed to gone.  A held callback leaves only *)
(* because somebody named it (or cleared everything), a callback is POSTed *)
(* at most once, and nothing comes back from posted or gone.               *)
(*                                                                         *)
(* The abstraction of CallbackScheduler (Redis mode) and of                *)
(* MemoryCallbacks (single process, no shared store).                      *)
(***************************************************************************)
EXTENDS Naturals

CONSTANTS Callback \* ids of the callbacks that may be scheduled

VARIABLES
    life,   \* life[i]: where callback i stands
    posts   \* posts[i]: how many POSTs were sent for i

vars == <<life, posts>>

Stage == {"unborn", "pending", "held", "claimed", "posted", "gone"}

\* A callback stands at one stage, and no second POST is ever sent for it.
TypeOK ==
    /\ life \in [Callback -> Stage]
    /\ posts \in [Callback -> {0, 1}]

\* Callbacks of an earlier run may still be stored.
Init ==
    /\ life \in [Callback -> {"unborn", "pending", "held"}]
    /\ posts = [i \in Callback |-> 0]

\* The callbacks of S move from one of the stages "from" to the stage "to".
Move(S, from, to) ==
    /\ S # {}
    /\ \A i \in S : life[i] \in from
    /\ life' = [i \in Callback |-> IF i \in S THEN to ELSE life[i]]

Schedule ==
    \E i \in Callback : Move({i}, {"unborn"}, "pending") /\ UNCHANGED posts

Hold ==
    \E i \in Callback : Move({i}, {"pending"}, "held") /\ UNCHANGED posts

\* A wake of a scheduler takes any number of due callbacks, none of them held.
ClaimDue ==
    \E S \in SUBSET Callback : Move(S, {"pending"}, "claimed") /\ UNCHANGED posts

\* A request takes the one callback it names, held or not.
Fire ==
    \E i \in Callback : Move({i}, {"pending", "held"}, "claimed") /\ UNCHANGED posts

Post ==
    \E i \in Callback :
        /\ Move({i}, {"claimed"}, "posted")
        /\ posts' = [posts EXCEPT ![i] = @ + 1]

\* Cancelled, cleared, dropped for want of a definition, or lost with the
\* replica that had claimed it.
Discard ==
    \E S \in SUBSET Callback :
        Move(S, {"pending", "held", "claimed"}, "gone") /\ UNCHANGED posts

Next == Schedule \/ Hold \/ ClaimDue \/ Fire \/ Post \/ Discard

Spec == Init /\ [][Next]_vars
==============================================================================
