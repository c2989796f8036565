---- MODULE MCOperations ----
(* A purge of stale or of matching flags, or a migration that a purge of the v1 keys may
   follow.  A purge has two PATCHes, a deletion and a fault at once.  In migrations a
   deletion or a fault meets two PATCHes; the third PATCH is the purge of the v1 keys
   between two migrations that overlap.  No symmetry, since a liveness property is checked. *)
EXTENDS Operations

CONSTANTS o1, o2

Case(t1, t2, p, d, f) ==
    [wanted |-> o1 :> t1 @@ o2 :> t2, patches |-> p, deletes |-> d, faults |-> f]

MCCases ==
    { Case("stale", None, 2, 1, 1), Case("matching", None, 2, 1, 1),
      Case("migration", "v1purge", 3, 0, 0), Case("migration", "v1purge", 2, 1, 0),
      Case("migration", "v1purge", 2, 0, 1) }
====
