---- MODULE MCCallbackBatch ----
(* Two callbacks, so that a wake, a clear or a list meets more than one.  The
   refined specification has no fairness and treats all callbacks alike, so
   symmetry is sound for it. *)
EXTENDS CallbackInvariant, TLC
Symmetry == Permutations(Callback) \cup Permutations(Request)
====
