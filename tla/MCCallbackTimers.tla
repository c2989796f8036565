---- MODULE MCCallbackTimers ----
(* One callback, two replicas, and every way their schedules, wakes and peeks can
   overlap; no symmetry, since a liveness property is checked. *)
EXTENDS CallbackScheduler
====
