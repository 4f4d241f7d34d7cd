----------------------------- MODULE MCFileStore -----------------------------
(* Small instances of FileStore. *)
EXTENDS FileStore, TLC

CONSTANTS r1, r2, r3

\* Requests are interchangeable.
Symmetry == Permutations(Requests)

===============================================================================
