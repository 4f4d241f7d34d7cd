--------------------------- MODULE SessionLifecycle ---------------------------
(***************************************************************************)
(* What a table of login sessions promises, whatever the handlers do and   *)
(* in whichever order the database executes their statements: a session    *)
(* belongs for ever to the account that opened it, it is opened once and   *)
(* closed for good, and of all the hashes it holds one after another each  *)
(* is new: no other session holds it, and none has held it before.         *)
(***************************************************************************)
CONSTANTS Sid, Hash, Owner, None

VARIABLES
    owner,   \* who opened the session; None if nobody has yet
    valid,   \* the hash that refreshes the session; None if not open
    burnt    \* the hashes that were valid once and are no more

vars == <<owner, valid, burnt>>

Init ==
    /\ owner = [s \in Sid |-> None]
    /\ valid = [s \in Sid |-> None]
    /\ burnt = {}

New(h) == h \notin burnt /\ \A s \in Sid : valid[s] # h

Open(s, a, h) ==
    /\ owner[s] = None
    /\ valid[s] = None
    /\ New(h)
    /\ owner' = [owner EXCEPT ![s] = a]
    /\ valid' = [valid EXCEPT ![s] = h]
    /\ UNCHANGED burnt

Rotate(s, h) ==
    /\ valid[s] # None
    /\ New(h)
    /\ valid' = [valid EXCEPT ![s] = h]
    /\ burnt' = burnt \cup {valid[s]}
    /\ UNCHANGED owner

Close(s) ==
    /\ valid[s] # None
    /\ valid' = [valid EXCEPT ![s] = None]
    /\ burnt' = burnt \cup {valid[s]}
    /\ UNCHANGED owner

Next ==
    \E s \in Sid :
        \/ \E a \in Owner, h \in Hash : Open(s, a, h)
        \/ \E h \in Hash : Rotate(s, h)
        \/ Close(s)

Spec == Init /\ [][Next]_vars

===============================================================================
