---- MODULE MCDeploy ----
(* One replica of core: replicas share only what control writes.  No symmetry,
   since a liveness property is checked. *)
EXTENDS DeployInvariant
====
