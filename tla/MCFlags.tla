---- MODULE MCFlags ----
(* A flag, one under its name and one beside it; two writers and one listing.  Writers
   are alike (safety only). *)
EXTENDS CoreFlags, TLC

MCKey == { <<"a">>, <<"a", "x">>, <<"b">> }
MCPrefix == { <<>>, <<"a">> }
MCSearch == { { <<"a">>, <<"a", "x">> } }
MCSymmetry == Permutations(Client)
====
