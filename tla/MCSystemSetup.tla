---------------------------- MODULE MCSystemSetup ----------------------------
(* Small instances of SystemSetup. *)
EXTENDS SystemSetup, TLC

CONSTANTS r1, r2, n1, n2, m1, m2

\* Requests, role names and e-mails are interchangeable.
Symmetry == Permutations({r1, r2}) \cup Permutations(RoleNames)
            \cup Permutations(Emails)

===============================================================================
