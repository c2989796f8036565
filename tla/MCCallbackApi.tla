---- MODULE MCCallbackApi ----
(* One callback that two requests, two schedulers, a crash and an error race for. *)
EXTENDS CallbackInvariant, TLC
Symmetry == Permutations(Replica) \cup Permutations(Request)
====
