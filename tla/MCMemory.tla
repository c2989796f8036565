---- MODULE MCMemory ----
(* One process, two callbacks and three requests; no symmetry, since a liveness
   property is checked. *)
EXTENDS MemoryCallbacks
====
