------------------------------ MODULE MCAccounts ------------------------------
(* Small instances of Accounts. *)
EXTENDS Accounts, TLC

CONSTANTS r1, r2, e1, e2, p1, p2

\* Requests, e-mails and passwords are interchangeable.
Symmetry == Permutations({r1, r2}) \cup Permutations(Emails)
            \cup Permutations(Passwords)

===============================================================================
