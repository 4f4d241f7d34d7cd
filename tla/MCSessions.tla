------------------------------ MODULE MCSessions ------------------------------
(* Sessions on small instances.  One id in both kinds: the ids of a user and  *)
(* an administrator collide, as the serial columns of the two tables do.      *)
EXTENDS Sessions, TLC

CONSTANTS r1, r2, i1

Symmetry == Permutations({r1, r2})

===============================================================================
