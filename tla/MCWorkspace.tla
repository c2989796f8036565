---- MODULE MCWorkspace ----
(* Slugs a and A (one slug to the code) and b; the host of slug a has a source of its
   own.  A file defines host, callback and mock of a; the workspace begins with a
   callback of it.  Request ids are plain values: a created item has its request's. *)
EXTENDS Workspace
CONSTANTS i1, f1, f2, f3

MCLower == [n \in {"a", "A", "b", "a.com", "none"} |-> IF n = "A" THEN "a" ELSE n]
MCSourceOf == [s \in {"a", "b"} |-> IF s = "a" THEN "a.com" ELSE "b"]
Of(i, n, file) == [id |-> i, name |-> n, on |-> TRUE, file |-> file]

MCInitial == [mocks |-> <<>>, hosts |-> <<>>, callbacks |-> <<Of(i1, "a", FALSE)>>]
MCFiles == [mocks |-> <<Of(f1, "a", TRUE)>>, hosts |-> <<Of(f2, "a", TRUE)>>,
            callbacks |-> <<Of(f3, "A", TRUE)>>]
MCNames == [mocks |-> {"a", "none"}, hosts |-> {"a"}, callbacks |-> {"a", "A"}]

MCSymmetry == Permutations(Request)

\* The same with hosts spelled in any of the ways core accepts.
SpelledNames == [mocks |-> {"a", "A", "a.com", "none"}, hosts |-> {"a"}, callbacks |-> {"a"}]
====
