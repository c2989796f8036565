---- MODULE MCCallbackLoss ----
(* The smallest instance with a crash or a stop in it. *)
EXTENDS CallbackScheduler
====
