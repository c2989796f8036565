---- MODULE MCEditPage ----
(* One tab on one item; no symmetry, since a liveness property is checked. *)
EXTENDS EditPage
====
